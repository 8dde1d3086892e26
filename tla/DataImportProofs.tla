--------------------------- MODULE DataImportProofs ---------------------------
(***************************************************************************)
(* What is true of the review and the application of imports for any       *)
(* number of imports, records and requests.                                *)
(***************************************************************************)
EXTENDS DataImport, TLAPS

USE DEF importVars, historyVars

Works == Reviewing \cup Applying \cup Staging \cup {Resting}

-----------------------------------------------------------------------------
(* Types                                                                   *)

LEMMA InitDataTypeOK == DataInit => DataImportTypeOK
<1> SUFFICES ASSUME DataInit PROVE DataImportTypeOK
  OBVIOUS
<1>1. /\ importStatus \in [Imports -> ImportStatuses] /\ recordStatus \in [Records -> RecordStatuses]
      /\ commented \in [Records -> BOOLEAN] /\ handler \in [Handlers -> Works]
  BY DEF DataInit, ImportStatuses, RecordStatuses, Works
<1>2. /\ closed \subseteq Subjects /\ itemWrites \subseteq Records /\ scored \subseteq Records
      /\ uncommented \subseteq Records /\ mergedLate \subseteq Records
  BY DEF DataInit
<1>3. faults = 0 /\ calls = 0 /\ MaxFaults \in Nat /\ MaxCalls \in Nat
  BY DataAssumption DEF DataInit
<1>4. faults \in 0..MaxFaults /\ calls \in 0..MaxCalls
  BY <1>3
<1> QED BY <1>1, <1>2, <1>4 DEF DataImportTypeOK, Works

(* The requests, by their kind. *)
LEMMA KindsOfWork ==
    ASSUME DataImportTypeOK, NEW h \in Handlers
    PROVE  /\ handler[h] \in Works
           /\ handler[h].op = "review" => handler[h] \in Reviewing /\ handler[h].rec \in Records
           /\ handler[h].op = "apply" => handler[h] \in Applying /\ handler[h].imp \in Imports
           /\ handler[h].op = "stage" => handler[h] \in Staging /\ handler[h].imp \in Imports
                                         /\ handler[h].found \subseteq Records
BY DEF DataImportTypeOK, Works, Reviewing, Applying, Staging, Resting

LEMMA ReviewMoves ==
    ASSUME NEW w \in Reviewing, NEW at \in {"write", "count", "status"}, NEW s \in ImportStatuses
    PROVE  /\ [w EXCEPT !.at = at] \in Reviewing
           /\ [w EXCEPT !.at = at].op = "review"
           /\ [w EXCEPT !.at = at].at = at
           /\ [w EXCEPT !.at = at].rec = w.rec
           /\ [w EXCEPT !.at = at].status = w.status
           /\ [w EXCEPT !.at = at, !.sum = s] \in Reviewing
           /\ [w EXCEPT !.at = at, !.sum = s].op = "review"
           /\ [w EXCEPT !.at = at, !.sum = s].at = at
           /\ [w EXCEPT !.at = at, !.sum = s].rec = w.rec
           /\ [w EXCEPT !.at = at, !.sum = s].status = w.status
BY DEF Reviewing

(* The records an application goes on with, after each of its steps. *)
LEMMA ApplyReads ==
    ASSUME NEW w \in Applying, NEW at \in {"final", "chunk"}, NEW rows \in SUBSET Records, NEW x,
           x = [w EXCEPT !.at = at, !.rows = rows]
    PROVE  x \in Applying /\ x.op = "apply" /\ x.at = at /\ x.imp = w.imp /\ x.rows = rows
BY DEF Applying

LEMMA ApplyWrites ==
    ASSUME NEW w \in Applying, NEW a \in SUBSET Records, NEW b \in SUBSET Records, NEW x,
           x = [w EXCEPT !.at = "mark", !.applied = a, !.rejected = b]
    PROVE  x \in Applying /\ x.op = "apply" /\ x.at = "mark" /\ x.imp = w.imp /\ x.applied = a
BY DEF Applying

LEMMA ApplyMarks ==
    ASSUME NEW w \in Applying, NEW r
    PROVE  /\ Marked(w, r) \in Applying /\ Marked(w, r).op = "apply"
           /\ Marked(w, r).at \in {"mark", "final"} /\ Marked(w, r).imp = w.imp
           /\ Marked(w, r).applied \subseteq w.applied
<1> DEFINE a == w.applied \ {r}
           b == w.rejected \ {r}
           some == w.some \/ r \in w.applied
           errors == w.errors \/ r \in w.rejected
           at == IF w.applied \cup w.rejected = {r} THEN "final" ELSE "mark"
<1>1. a \in SUBSET Records /\ b \in SUBSET Records /\ some \in BOOLEAN /\ errors \in BOOLEAN
      /\ at \in {"final", "mark"} /\ a \subseteq w.applied
  BY DEF Applying
<1>2. Marked(w, r) = [w EXCEPT !.applied = a, !.rejected = b, !.some = some, !.errors = errors, !.at = at]
  BY DEF Marked, Applying
<1> HIDE DEF a, b, some, errors, at
<1> QED BY <1>1, <1>2 DEF Applying

LEMMA ApplyGoesOn ==
    ASSUME NEW w \in Applying, NEW at \in {"undo", "final"}
    PROVE  /\ [w EXCEPT !.at = at] \in Applying
           /\ [w EXCEPT !.at = at].op = "apply" /\ [w EXCEPT !.at = at].at = at
           /\ [w EXCEPT !.at = at].imp = w.imp
BY DEF Applying

(* What RejectChunk makes of a request. *)
LEMMA RejectChunkGoes ==
    ASSUME DataImportTypeOK, NEW h \in Handlers, RejectChunk(h)
    PROVE  /\ handler'[h] \in Applying /\ handler'[h].op = "apply"
           /\ handler'[h].at \in {"undo", "final"} /\ handler'[h].imp = handler[h].imp
           /\ handler' = [handler EXCEPT ![h] = handler'[h]]
           /\ \E r \in Records : recordStatus' = [recordStatus EXCEPT ![r] = "REJECTED"]
<1>0. handler[h] \in Applying /\ handler[h].rows \subseteq Records
  BY KindsOfWork DEF RejectChunk, At, Applying
<1>1. PICK r \in handler[h].rows :
         /\ recordStatus' = [recordStatus EXCEPT ![r] = "REJECTED"]
         /\ handler' = [handler EXCEPT ![h].at = IF handler[h].rows = {r} THEN "final" ELSE "undo",
                                       ![h].rows = @ \ {r}, ![h].errors = TRUE]
  BY DEF RejectChunk
<1> DEFINE at == IF handler[h].rows = {r} THEN "final" ELSE "undo"
           rows == handler[h].rows \ {r}
           x == [handler[h] EXCEPT !.at = at, !.rows = rows, !.errors = TRUE]
<1>2. handler' = [handler EXCEPT ![h] = x]
  BY <1>0, <1>1 DEF DataImportTypeOK
<1>3. at \in {"undo", "final"} /\ rows \in SUBSET Records
  BY <1>0
<1> HIDE DEF at, rows
<1>4. x \in Applying /\ x.op = "apply" /\ x.at = at /\ x.imp = handler[h].imp
  BY <1>0, <1>3 DEF Applying
<1> HIDE DEF x
<1>5. handler'[h] = x
  BY <1>2 DEF DataImportTypeOK
<1> QED BY <1>0, <1>1, <1>2, <1>3, <1>4, <1>5

LEMMA AfterFailureIs ==
    ASSUME DataImportTypeOK, NEW h \in Handlers
    PROVE  /\ AfterFailure(h) \in Works
           /\ \/ AfterFailure(h) = Resting
              \/ /\ handler[h].op = "apply" /\ AfterFailure(h).op = "apply"
                 /\ AfterFailure(h).at = "undo" /\ AfterFailure(h).imp = handler[h].imp
BY KindsOfWork, ApplyGoesOn DEF AfterFailure, At, Works

LEMMA ReviewedStatusType ==
    ASSUME NEW w \in Reviewing, NEW resolution \in {"none", "accept", "reject"}, NEW comment \in BOOLEAN
    PROVE  ReviewedStatus(w, resolution, comment) \in RecordStatuses
BY DEF ReviewedStatus, Reviewing, RecordStatuses

LEMMA StatusOfRecordsType ==
    ASSUME NEW i, NEW S
    PROVE  StatusOfRecords(i, S) \in ImportStatuses
BY DEF StatusOfRecords, ImportStatuses

(* The columns and the request after each step, as the proofs use them.    *)
LEMMA WriteRecordTypes ==
    ASSUME DataImportTypeOK, NEW h \in Handlers, handler[h].op = "review", WriteRecord(h)
    PROVE  /\ recordStatus' \in [Records -> RecordStatuses] /\ commented' \in [Records -> BOOLEAN]
           /\ \E s \in RecordStatuses : recordStatus' = [recordStatus EXCEPT ![handler[h].rec] = s]
           /\ \A r \in Records : commented[r] => commented'[r]
<1>1. PICK resolution \in {"none", "accept", "reject"}, comment \in BOOLEAN :
         /\ recordStatus' = [recordStatus EXCEPT ![handler[h].rec] =
                                ReviewedStatus(handler[h], resolution, comment)]
         /\ commented' = [commented EXCEPT ![handler[h].rec] =
                                @ \/ (comment /\ IsCrawled(handler[h].rec))]
  BY DEF WriteRecord
<1>2. ReviewedStatus(handler[h], resolution, comment) \in RecordStatuses
  BY KindsOfWork, ReviewedStatusType
<1>3. (comment /\ IsCrawled(handler[h].rec)) \in BOOLEAN
  BY DEF IsCrawled
<1> QED BY <1>1, <1>2, <1>3 DEF DataImportTypeOK

LEMMA StepDataTypeOK == DataImportTypeOK /\ [DataNext]_dataVars => DataImportTypeOK'
<1> SUFFICES ASSUME DataImportTypeOK, [DataNext]_dataVars PROVE DataImportTypeOK'
  OBVIOUS
<1>1. ASSUME NEW i \in Imports, CreateImport(i) PROVE DataImportTypeOK'
  <2>1. PICK bad, conflicts :
           /\ recordStatus' = [r \in Records |->
                IF ImportOf[r] # i THEN recordStatus[r]
                ELSE IF r \in bad THEN "INVALID" ELSE IF r \in conflicts THEN "CONFLICT" ELSE "VALID"]
           /\ importStatus' = [importStatus EXCEPT ![i] =
                IF conflicts # {} THEN "CONFLICT" ELSE IF bad = RecordsOf(i) THEN "FAILED" ELSE "READY"]
    BY <1>1 DEF CreateImport
  <2>2. recordStatus' \in [Records -> RecordStatuses]
    BY <2>1 DEF DataImportTypeOK, RecordStatuses
  <2>3. importStatus' \in [Imports -> ImportStatuses]
    BY <2>1 DEF DataImportTypeOK, ImportStatuses
  <2> QED BY <1>1, <2>2, <2>3 DEF CreateImport, DataImportTypeOK
<1>2. ASSUME NEW h \in Handlers, CommitStaging(h) PROVE DataImportTypeOK'
  <2>0. handler[h].imp \in Imports /\ handler[h].found \subseteq Records
    BY <1>2, KindsOfWork DEF CommitStaging
  <2>1. PICK output \in [RecordsOf(handler[h].imp) -> {"INVALID", "PENDING_REVIEW", "CONFLICT"}] :
           /\ recordStatus' = [r \in Records |-> StagedStatus(handler[h], output, r)]
           /\ mergedLate' \subseteq mergedLate \cup Merged(handler[h], output)
    BY <1>2 DEF CommitStaging
  <2>2. \A r \in Records : StagedStatus(handler[h], output, r) \in RecordStatuses
    <3> SUFFICES ASSUME NEW r \in Records PROVE StagedStatus(handler[h], output, r) \in RecordStatuses
      OBVIOUS
    <3>1. recordStatus[r] \in RecordStatuses
      BY DEF DataImportTypeOK
    <3>2. ImportOf[r] = handler[h].imp => output[r] \in RecordStatuses
      BY DEF RecordsOf, RecordStatuses
    <3> QED BY <3>1, <3>2 DEF StagedStatus, RecordStatuses
  <2>3. recordStatus' \in [Records -> RecordStatuses]
    BY <2>1, <2>2
  <2>4. mergedLate' \subseteq Records
    BY <2>0, <2>1 DEF Merged, DataImportTypeOK
  <2> QED BY <1>2, <2>0, <2>3, <2>4 DEF CommitStaging, DataImportTypeOK, ImportStatuses
<1>2a. ASSUME NEW h \in Handlers, NEW i \in Imports, BeginStaging(h, i) PROVE DataImportTypeOK'
  <2>1. PICK found \in SUBSET StagedBefore(i) :
           handler' = [handler EXCEPT ![h] = [op |-> "stage", imp |-> i, found |-> found]]
    BY <1>2a DEF BeginStaging
  <2>2. [op |-> "stage", imp |-> i, found |-> found] \in Staging
    BY DEF Staging, StagedBefore
  <2> QED BY <1>2a, <2>1, <2>2 DEF BeginStaging, DataImportTypeOK
<1>2b. ASSUME NEW r \in Records, ApplyScore(r) PROVE DataImportTypeOK'
  BY <1>2b, DataAssumption DEF ApplyScore, Call, DataImportTypeOK, RecordStatuses
<1>3. ASSUME NEW i \in Imports, RejectCrawlImport(i) PROVE DataImportTypeOK'
  BY <1>3 DEF RejectCrawlImport, DataImportTypeOK, ImportStatuses, RecordStatuses
<1>4. ASSUME NEW h \in Handlers, NEW r \in Records, ReadDraft(h, r) PROVE DataImportTypeOK'
  <2>1. [op |-> "review", at |-> "write", rec |-> r,
         status |-> recordStatus[r], explained |-> commented[r], sum |-> "NONE"] \in Reviewing
    BY DEF DataImportTypeOK, Reviewing, ImportStatuses
  <2> QED BY <1>4, <2>1, DataAssumption DEF ReadDraft, Call, importVars, DataImportTypeOK
<1>5. ASSUME NEW h \in Handlers, NEW i \in Imports, BeginApply(h, i) PROVE DataImportTypeOK'
  <2>1. [op |-> "apply", at |-> "read", imp |-> i, rows |-> {}, applied |-> {}, rejected |-> {},
         some |-> FALSE, errors |-> FALSE] \in Applying
    BY DEF Applying
  <2> QED BY <1>5, <2>1, DataAssumption DEF BeginApply, Call, DataImportTypeOK, ImportStatuses
<1>6. ASSUME NEW h \in Handlers, ReviewCrawled(h) PROVE DataImportTypeOK'
  <2>0. handler[h] \in Reviewing /\ handler[h].rec \in Records
    BY <1>6, KindsOfWork DEF ReviewCrawled
  <2>1. /\ recordStatus' \in [Records -> RecordStatuses] /\ commented' \in [Records -> BOOLEAN]
        /\ importStatus' \in [Imports -> ImportStatuses]
    BY <1>6, WriteRecordTypes, StatusOfRecordsType DEF ReviewCrawled, importVars, DataImportTypeOK
  <2> QED BY <1>6, <2>1 DEF ReviewCrawled, DataImportTypeOK
<1>7. ASSUME NEW h \in Handlers, UpdateRecordDraft(h) PROVE DataImportTypeOK'
  <2>1. /\ recordStatus' \in [Records -> RecordStatuses] /\ commented' \in [Records -> BOOLEAN]
    BY <1>7, WriteRecordTypes DEF UpdateRecordDraft
  <2>2. [handler[h] EXCEPT !.at = "count"] \in Reviewing
    BY <1>7, KindsOfWork DEF UpdateRecordDraft, Reviewing
  <2> QED BY <1>7, <2>1, <2>2 DEF UpdateRecordDraft, DataImportTypeOK
<1>8. ASSUME NEW h \in Handlers, CountRecords(h) PROVE DataImportTypeOK'
  <2>1. [handler[h] EXCEPT !.at = "status", !.sum = StatusOfRecords(ImportOf[handler[h].rec], recordStatus)]
           \in Reviewing
    BY <1>8, KindsOfWork, ReviewMoves, StatusOfRecordsType DEF CountRecords
  <2> QED BY <1>8, <2>1 DEF CountRecords, importVars, DataImportTypeOK
<1>9. ASSUME NEW h \in Handlers, UpdateImportStatus(h) PROVE DataImportTypeOK'
  <2>1. handler[h].sum \in ImportStatuses
    BY <1>9, KindsOfWork DEF UpdateImportStatus, Reviewing
  <2> QED BY <1>9, <2>1 DEF UpdateImportStatus, DataImportTypeOK
<1>10. ASSUME NEW h \in Handlers, ReadRecords(h) PROVE DataImportTypeOK'
  <2> DEFINE rows == Having(handler[h].imp, "VALID") \cup Having(handler[h].imp, "CONFLICT")
             at == IF rows = {} THEN "final" ELSE "chunk"
  <2>1. rows \in SUBSET Records /\ at \in {"final", "chunk"}
    BY DEF Having, RecordsOf
  <2>2. /\ handler' = [handler EXCEPT ![h] = [handler[h] EXCEPT !.at = at, !.rows = rows]]
        /\ uncommented' \subseteq uncommented \cup rows
    BY <1>10 DEF ReadRecords
  <2> HIDE DEF rows, at
  <2>3. [handler[h] EXCEPT !.at = at, !.rows = rows] \in Applying
    BY <1>10, <2>1, KindsOfWork DEF ReadRecords, At, Applying
  <2> QED BY <1>10, <2>1, <2>2, <2>3 DEF ReadRecords, importVars, DataImportTypeOK
<1>11. ASSUME NEW h \in Handlers, ApplyImportedKpiData(h) PROVE DataImportTypeOK'
  <2> DEFINE refused == {r \in handler[h].rows : SubjectOf[r] \in closed}
             written == handler[h].rows \ refused
  <2>0. handler[h] \in Applying
    BY <1>11, KindsOfWork DEF ApplyImportedKpiData, At
  <2>1. refused \in SUBSET Records /\ written \in SUBSET Records
    BY <2>0 DEF Applying
  <2>2. /\ itemWrites' = itemWrites \cup written
        /\ handler' = [handler EXCEPT
              ![h] = [handler[h] EXCEPT !.at = "mark", !.applied = written, !.rejected = refused]]
    BY <1>11 DEF ApplyImportedKpiData
  <2> HIDE DEF refused, written
  <2>3. [handler[h] EXCEPT !.at = "mark", !.applied = written, !.rejected = refused] \in Applying
    BY <2>0, <2>1, ApplyWrites
  <2> QED BY <1>11, <2>1, <2>2, <2>3 DEF ApplyImportedKpiData, importVars, DataImportTypeOK
<1>12. ASSUME NEW h \in Handlers, MarkRecord(h) PROVE DataImportTypeOK'
  <2>1. PICK r : /\ recordStatus' = [recordStatus EXCEPT ![r] = OutcomeOf(h, r)]
                 /\ handler' = [handler EXCEPT ![h] = Marked(handler[h], r)]
    BY <1>12 DEF MarkRecord
  <2>2. Marked(handler[h], r) \in Applying
    BY <1>12, KindsOfWork, ApplyMarks DEF MarkRecord, At
  <2>3. OutcomeOf(h, r) \in RecordStatuses
    BY DEF OutcomeOf, RecordStatuses
  <2> QED BY <1>12, <2>1, <2>2, <2>3 DEF MarkRecord, DataImportTypeOK
<1>13. ASSUME NEW h \in Handlers, RejectChunk(h) PROVE DataImportTypeOK'
  BY <1>13, RejectChunkGoes DEF RejectChunk, DataImportTypeOK, RecordStatuses
<1>14. ASSUME NEW h \in Handlers, FinishApply(h) PROVE DataImportTypeOK'
  BY <1>14 DEF FinishApply, DataImportTypeOK, ImportStatuses
<1>15. ASSUME NEW h \in Handlers, HandlerFails(h) PROVE DataImportTypeOK'
  BY <1>15, AfterFailureIs, DataAssumption DEF HandlerFails, Fault, Works, importVars, DataImportTypeOK
<1>16. CASE DataRestart
  BY <1>16, DataAssumption DEF DataRestart, Fault, importVars, DataImportTypeOK
<1>17. CASE (\E k \in Subjects : CloseSubject(k)) \/ UNCHANGED dataVars
  BY <1>17 DEF CloseSubject, dataVars, importVars, DataImportTypeOK
<1> QED BY <1>1, <1>2, <1>2a, <1>2b, <1>3, <1>4, <1>5, <1>6, <1>7, <1>8, <1>9, <1>10, <1>11, <1>12,
           <1>13, <1>14, <1>15, <1>16, <1>17 DEF DataNext, HandlerStep

(* Every status stays one of evaluation_data_import, every record one of   *)
(* evaluation_data_import_record.                                          *)
THEOREM DataTypeCorrect == DataSpec => []DataImportTypeOK
BY InitDataTypeOK, StepDataTypeOK, PTL DEF DataSpec

-----------------------------------------------------------------------------
(* What the steps of a request make of it.                                 *)

RequestGoes(h) ==
    \/ handler'[h] = Resting
    \/ /\ UpdateRecordDraft(h) \/ CountRecords(h)
       /\ handler'[h].op = "review" /\ handler'[h].at \in {"count", "status"}
       /\ handler'[h].rec = handler[h].rec /\ handler'[h].status = handler[h].status
    \/ /\ handler[h].op = "apply" /\ handler'[h].op = "apply"
       /\ handler'[h].imp = handler[h].imp /\ handler'[h].at # "read"
       /\ handler'[h].at = "chunk" => ReadRecords(h)
       /\ handler'[h].at = "mark" => ApplyImportedKpiData(h) \/ MarkRecord(h)

LEMMA StepOfRequest ==
    ASSUME DataImportTypeOK, NEW h \in Handlers, HandlerStep(h) \/ HandlerFails(h)
    PROVE  /\ handler[h] # Resting
           /\ \A g \in Handlers \ {h} : handler'[g] = handler[g]
           /\ RequestGoes(h)
<1>0. handler \in [Handlers -> Works]
  BY DEF DataImportTypeOK, Works
<1>1. CASE ReviewCrawled(h) \/ UpdateImportStatus(h) \/ FinishApply(h) \/ CommitStaging(h)
  BY <1>0, <1>1 DEF ReviewCrawled, UpdateImportStatus, FinishApply, CommitStaging, At, RequestGoes, Resting
<1>2. CASE UpdateRecordDraft(h)
  <2> DEFINE w == [handler[h] EXCEPT !.at = "count"]
  <2>1. handler' = [handler EXCEPT ![h] = w]
    BY <1>2 DEF UpdateRecordDraft
  <2>2. w.op = "review" /\ w.at = "count" /\ w.rec = handler[h].rec /\ w.status = handler[h].status
    BY <1>2, KindsOfWork DEF UpdateRecordDraft, Reviewing
  <2> HIDE DEF w
  <2> QED BY <1>0, <1>2, <2>1, <2>2 DEF UpdateRecordDraft, RequestGoes, Resting
<1>3. CASE CountRecords(h)
  <2> DEFINE w == [handler[h] EXCEPT !.at = "status", !.sum = StatusOfRecords(ImportOf[handler[h].rec], recordStatus)]
  <2>1. handler' = [handler EXCEPT ![h] = w]
    BY <1>3 DEF CountRecords
  <2>2. w.op = "review" /\ w.at = "status" /\ w.rec = handler[h].rec /\ w.status = handler[h].status
    BY <1>3, KindsOfWork DEF CountRecords, Reviewing
  <2> HIDE DEF w
  <2> QED BY <1>0, <1>3, <2>1, <2>2 DEF CountRecords, RequestGoes, Resting
<1>4. CASE ReadRecords(h)
  <2> DEFINE rows == Having(handler[h].imp, "VALID") \cup Having(handler[h].imp, "CONFLICT")
             at == IF rows = {} THEN "final" ELSE "chunk"
             w == [handler[h] EXCEPT !.at = at, !.rows = rows]
  <2>1. handler' = [handler EXCEPT ![h] = w]
    BY <1>4 DEF ReadRecords
  <2>2. w.op = "apply" /\ w.at = at /\ at \in {"final", "chunk"} /\ w.imp = handler[h].imp
    BY <1>4, KindsOfWork DEF ReadRecords, At, Applying
  <2> HIDE DEF w, at, rows
  <2> QED BY <1>0, <1>4, <2>1, <2>2 DEF ReadRecords, At, RequestGoes, Resting
<1>5. CASE ApplyImportedKpiData(h)
  <2> DEFINE refused == {r \in handler[h].rows : SubjectOf[r] \in closed}
             w == [handler[h] EXCEPT !.at = "mark", !.applied = handler[h].rows \ refused,
                                     !.rejected = refused]
  <2>1. handler' = [handler EXCEPT ![h] = w]
    BY <1>5 DEF ApplyImportedKpiData
  <2>2. w.op = "apply" /\ w.at = "mark" /\ w.imp = handler[h].imp
    BY <1>5, KindsOfWork DEF ApplyImportedKpiData, At, Applying
  <2> HIDE DEF w
  <2>3. handler[h].op = "apply" /\ \A g \in Handlers \ {h} : handler'[g] = handler[g]
    BY <1>0, <1>5, <2>1 DEF ApplyImportedKpiData, At
  <2>4. handler'[h] = w
    BY <1>0, <2>1
  <2> QED BY <1>5, <2>2, <2>3, <2>4 DEF RequestGoes, Resting
<1>6. CASE MarkRecord(h)
  <2>1. PICK r : handler' = [handler EXCEPT ![h] = Marked(handler[h], r)]
    BY <1>6 DEF MarkRecord
  <2> DEFINE w == Marked(handler[h], r)
  <2>2. w.op = "apply" /\ w.at \in {"mark", "final"} /\ w.imp = handler[h].imp
    BY <1>6, KindsOfWork, ApplyMarks DEF MarkRecord, At
  <2>3. handler' = [handler EXCEPT ![h] = w]
    BY <2>1
  <2> HIDE DEF w
  <2>4. handler[h].op = "apply" /\ \A g \in Handlers \ {h} : handler'[g] = handler[g]
    BY <1>0, <1>6, <2>3 DEF MarkRecord, At
  <2>5. handler'[h] = w
    BY <1>0, <2>3
  <2> QED BY <1>6, <2>2, <2>4, <2>5 DEF RequestGoes, Resting
<1>7. CASE RejectChunk(h)
  <2>1. handler' = [handler EXCEPT ![h] = handler'[h]] /\ handler[h].op = "apply"
    BY <1>7, RejectChunkGoes DEF RejectChunk, At
  <2>2. handler'[h].op = "apply" /\ handler'[h].at \in {"undo", "final"} /\ handler'[h].imp = handler[h].imp
    BY <1>7, RejectChunkGoes
  <2>3. \A g \in Handlers \ {h} : handler'[g] = handler[g]
    BY <1>0, <2>1
  <2> QED BY <2>1, <2>2, <2>3 DEF RequestGoes, Resting
<1>8. CASE HandlerFails(h)
  BY <1>0, <1>8, AfterFailureIs DEF HandlerFails, RequestGoes
<1> QED BY <1>1, <1>2, <1>3, <1>4, <1>5, <1>6, <1>7, <1>8 DEF HandlerStep

-----------------------------------------------------------------------------
(* One applier.  The reviews that write the status of an import without a  *)
(* lock are never about a crawled one.                                     *)

Applies(h, i) == handler[h].op = "apply" /\ handler[h].imp = i
PlainReview ==
    \A h \in Handlers :
        handler[h].op = "review" /\ handler[h].at \in {"count", "status"} => ~IsCrawled(handler[h].rec)
ApplyInv == PlainReview /\ OneApplier

LEMMA InitApplyInv == DataInit => ApplyInv
BY DEF DataInit, ApplyInv, PlainReview, OneApplier, Resting

(* No request begins to apply, and an import that is being applied says so.*)
LEMMA NoNewApplier ==
    ASSUME OneApplier,
           \A h \in Handlers, i \in Crawled : Applies(h, i)' => Applies(h, i),
           \A h \in Handlers, i \in Crawled :
              Applies(h, i)' /\ Applies(h, i) => importStatus'[i] \in {"APPLYING", "REJECTED"}
    PROVE  OneApplier'
BY DEF OneApplier, Applies

(* The import a request applies. *)
LEMMA AppliedIsImport ==
    ASSUME OneApplier, NEW h \in Handlers, NEW i \in Crawled, Applies(h, i)
    PROVE  /\ importStatus[i] \in {"APPLYING", "REJECTED"}
           /\ \A g \in Handlers : Applies(g, i) => g = h
BY DEF OneApplier, Applies

LEMMA StepApplyInv == DataImportTypeOK /\ ApplyInv /\ [DataNext]_dataVars => ApplyInv'
<1> SUFFICES ASSUME DataImportTypeOK, ApplyInv, [DataNext]_dataVars PROVE ApplyInv'
  OBVIOUS
<1> USE DEF ApplyInv
<1>0. importStatus \in [Imports -> ImportStatuses] /\ Crawled \subseteq Imports
  BY DataAssumption DEF DataImportTypeOK
<1>1. ASSUME NEW i \in Imports, CreateImport(i) \/ RejectCrawlImport(i) PROVE ApplyInv'
  <2>1. UNCHANGED handler
    BY <1>1 DEF CreateImport, RejectCrawlImport
  <2>2. \A j \in Crawled : importStatus[j] \in {"APPLYING", "REJECTED"} => importStatus'[j] \in {"APPLYING", "REJECTED"}
    BY <1>0, <1>1 DEF CreateImport, RejectCrawlImport, New
  <2>3. OneApplier'
    BY <2>1, <2>2, NoNewApplier, AppliedIsImport DEF Applies
  <2> QED BY <2>1, <2>3 DEF PlainReview
<1>2. ASSUME NEW h \in Handlers, NEW r \in Records, ReadDraft(h, r) PROVE ApplyInv'
  <2>1. /\ UNCHANGED importStatus /\ handler'[h].op = "review" /\ handler'[h].at = "write"
        /\ \A g \in Handlers \ {h} : handler'[g] = handler[g]
    BY <1>2 DEF ReadDraft, importVars, DataImportTypeOK
  <2>2. OneApplier'
    BY <2>1, NoNewApplier, AppliedIsImport DEF Applies
  <2> QED BY <2>1, <2>2 DEF PlainReview
<1>2a. ASSUME NEW h \in Handlers, NEW i \in Imports, BeginStaging(h, i) PROVE ApplyInv'
  <2>1. /\ UNCHANGED importStatus /\ handler'[h].op = "stage"
        /\ \A g \in Handlers \ {h} : handler'[g] = handler[g]
    BY <1>2a DEF BeginStaging, DataImportTypeOK
  <2>2. OneApplier'
    BY <2>1, NoNewApplier, AppliedIsImport DEF Applies
  <2> QED BY <2>1, <2>2 DEF PlainReview
<1>3. ASSUME NEW h \in Handlers, NEW i \in Imports, BeginApply(h, i) PROVE ApplyInv'
  <2>1. /\ importStatus' = [importStatus EXCEPT ![i] = "APPLYING"]
        /\ handler'[h].op = "apply" /\ handler'[h].imp = i
        /\ \A g \in Handlers \ {h} : handler'[g] = handler[g]
        /\ importStatus[i] \notin {"APPLYING", "REJECTED"}
    BY <1>3 DEF BeginApply, DataImportTypeOK, ApplicableStatuses
  <2>2. i \in Crawled => \A g \in Handlers : ~Applies(g, i)
    BY <2>1, AppliedIsImport
  <2>3. OneApplier'
    <3> SUFFICES ASSUME NEW f \in Handlers, NEW g \in Handlers, NEW j \in Crawled, Applies(f, j)'
                 PROVE  /\ importStatus'[j] \in {"APPLYING", "REJECTED"}
                        /\ Applies(g, j)' => g = f
      BY DEF OneApplier, Applies
    <3>1. CASE j = i
      BY <1>0, <2>1, <2>2, <3>1 DEF Applies
    <3>2. CASE j # i
      BY <1>0, <2>1, <3>2, AppliedIsImport DEF Applies
    <3> QED BY <3>1, <3>2
  <2> QED BY <2>1, <2>3 DEF PlainReview
<1>4. ASSUME NEW h \in Handlers, HandlerStep(h) \/ HandlerFails(h) PROVE ApplyInv'
  <2>0. /\ \A g \in Handlers \ {h} : handler'[g] = handler[g]
        /\ RequestGoes(h)
    BY <1>4, StepOfRequest
  <2>1. \A g \in Handlers, j \in Crawled : Applies(g, j)' => Applies(g, j)
    BY <2>0 DEF Applies, RequestGoes, Resting
  <2>2. CASE UNCHANGED importStatus
    BY <2>1, <2>2, NoNewApplier, AppliedIsImport, <2>0
       DEF PlainReview, RequestGoes, UpdateRecordDraft, CountRecords, Resting
  <2>3. ASSUME NEW i, importStatus' = [importStatus EXCEPT ![i] = importStatus'[i]],
               handler'[h] = Resting,
               i \in Crawled => \A g \in Handlers \ {h} : ~Applies(g, i)
        PROVE  ApplyInv'
    <3>1. \A g \in Handlers, j \in Crawled : Applies(g, j)' => g # h /\ j # i
      BY <2>1, <2>3 DEF Applies, Resting
    <3>2. \A j \in Crawled : j # i => importStatus'[j] = importStatus[j]
      BY <1>0, <2>3
    <3>3. OneApplier'
      BY <2>1, <3>1, <3>2, NoNewApplier, AppliedIsImport
    <3>4. PlainReview'
      BY <2>0, <2>3 DEF PlainReview, Resting
    <3> QED BY <3>3, <3>4
  <2>4. CASE ReviewCrawled(h) /\ ~UNCHANGED importStatus
    <3> DEFINE i == ImportOf[handler[h].rec]
    <3>1. /\ importStatus[i] \in ReviewableStatuses /\ handler'[h] = Resting
          /\ importStatus' = [importStatus EXCEPT ![i] = StatusOfRecords(i, recordStatus')]
      BY <2>4 DEF ReviewCrawled, importVars, DataImportTypeOK
    <3>2. i \in Crawled => \A g \in Handlers : ~Applies(g, i)
      BY <3>1, AppliedIsImport DEF ReviewableStatuses
    <3> HIDE DEF i
    <3>3. importStatus' = [importStatus EXCEPT ![i] = importStatus'[i]]
      BY <1>0, <3>1
    <3> QED BY <3>1, <3>2, <3>3, <2>3
  <2>5. CASE UpdateImportStatus(h)
    <3> DEFINE i == ImportOf[handler[h].rec]
    <3>1. handler'[h] = Resting /\ importStatus' = [importStatus EXCEPT ![i] = handler[h].sum]
      BY <2>5 DEF UpdateImportStatus, DataImportTypeOK
    <3>2. i \notin Crawled
      BY <2>5 DEF UpdateImportStatus, PlainReview, IsCrawled
    <3> HIDE DEF i
    <3>3. importStatus' = [importStatus EXCEPT ![i] = importStatus'[i]]
      BY <1>0, <3>1
    <3> QED BY <3>1, <3>2, <3>3, <2>3
  <2>6. CASE FinishApply(h)
    <3> DEFINE i == handler[h].imp
    <3>1. \E s : handler'[h] = Resting /\ importStatus' = [importStatus EXCEPT ![i] = s]
      BY <2>6 DEF FinishApply, DataImportTypeOK
    <3>2. i \in Crawled => \A g \in Handlers \ {h} : ~Applies(g, i)
      BY <2>6, AppliedIsImport DEF FinishApply, At, Applies
    <3> HIDE DEF i
    <3>3. importStatus' = [importStatus EXCEPT ![i] = importStatus'[i]]
      BY <1>0, <3>1
    <3> QED BY <3>1, <3>2, <3>3, <2>3
  <2>6a. CASE CommitStaging(h)
    <3> DEFINE i == handler[h].imp
    <3>1. /\ handler'[h] = Resting /\ importStatus[i] = "NONE"
          /\ importStatus' = [importStatus EXCEPT ![i] = "PENDING_REVIEW"]
      BY <2>6a DEF CommitStaging, DataImportTypeOK
    <3>2. i \in Crawled => \A g \in Handlers : ~Applies(g, i)
      BY <3>1, AppliedIsImport
    <3> HIDE DEF i
    <3>3. importStatus' = [importStatus EXCEPT ![i] = importStatus'[i]]
      BY <1>0, <3>1
    <3> QED BY <3>1, <3>2, <3>3, <2>3
  <2>7. UNCHANGED importStatus \/ ReviewCrawled(h) \/ UpdateImportStatus(h) \/ FinishApply(h) \/ CommitStaging(h)
    BY <1>4 DEF HandlerStep, HandlerFails, UpdateRecordDraft, CountRecords, ReadRecords,
       ApplyImportedKpiData, MarkRecord, RejectChunk, importVars
  <2> QED BY <2>2, <2>4, <2>5, <2>6, <2>6a, <2>7
<1>5. CASE DataRestart
  <2>1. \A h \in Handlers : handler'[h] = Resting
    BY <1>5 DEF DataRestart
  <2> QED BY <2>1 DEF PlainReview, OneApplier, Resting
<1>6. CASE (\E k \in Subjects : CloseSubject(k)) \/ (\E r \in Records : ApplyScore(r)) \/ UNCHANGED dataVars
  BY <1>6 DEF CloseSubject, ApplyScore, dataVars, PlainReview, OneApplier
<1> HIDE DEF ApplyInv
<1> QED BY <1>1, <1>2, <1>2a, <1>3, <1>4, <1>5, <1>6 DEF DataNext

(* A crawled import is applied by one request at a time, because beginning *)
(* to apply takes its row from READY or PARTIALLY_APPLIED to APPLYING.     *)
THEOREM OneApplierEach == DataSpec => []OneApplier
<1>1. ApplyInv => OneApplier
  BY DEF ApplyInv
<1> QED BY <1>1, InitDataTypeOK, StepDataTypeOK, InitApplyInv, StepApplyInv, PTL DEF DataSpec

(* Whatever a request does next, a crawled import that was applied keeps   *)
(* that status.                                                            *)
THEOREM AppliedStaysFinal == DataSpec => AppliedIsFinal
<1>1. ASSUME DataImportTypeOK, ApplyInv, [DataNext]_dataVars,
             NEW i \in Crawled, importStatus[i] = "APPLIED"
      PROVE  importStatus'[i] = "APPLIED"
  <2>0. importStatus \in [Imports -> ImportStatuses] /\ i \in Imports
    BY <1>1, DataAssumption DEF DataImportTypeOK
  <2>1. ASSUME NEW j \in Imports, CreateImport(j) \/ RejectCrawlImport(j)
        PROVE  importStatus'[i] = "APPLIED"
    BY <1>1, <2>0, <2>1 DEF CreateImport, RejectCrawlImport, New
  <2>2. ASSUME NEW h \in Handlers, NEW j \in Imports, BeginApply(h, j)
        PROVE  importStatus'[i] = "APPLIED"
    BY <1>1, <2>0, <2>2 DEF BeginApply, ApplicableStatuses
  <2>3. ASSUME NEW h \in Handlers, ReviewCrawled(h) PROVE importStatus'[i] = "APPLIED"
    BY <1>1, <2>0, <2>3 DEF ReviewCrawled, ReviewableStatuses, importVars
  <2>4. ASSUME NEW h \in Handlers, UpdateImportStatus(h) PROVE importStatus'[i] = "APPLIED"
    BY <1>1, <2>0, <2>4 DEF UpdateImportStatus, ApplyInv, PlainReview, IsCrawled
  <2>5. ASSUME NEW h \in Handlers, FinishApply(h) PROVE importStatus'[i] = "APPLIED"
    <3>1. handler[h].imp # i
      BY <1>1, <2>5, AppliedIsImport DEF FinishApply, At, Applies, ApplyInv
    <3> QED BY <1>1, <2>0, <2>5, <3>1 DEF FinishApply
  <2>5a. ASSUME NEW h \in Handlers, CommitStaging(h) PROVE importStatus'[i] = "APPLIED"
    BY <1>1, <2>0, <2>5a DEF CommitStaging
  <2>6. ASSUME NEW h \in Handlers, HandlerStep(h) \/ HandlerFails(h),
               ~ReviewCrawled(h), ~UpdateImportStatus(h), ~FinishApply(h), ~CommitStaging(h)
        PROVE  importStatus'[i] = "APPLIED"
    BY <1>1, <2>6 DEF HandlerStep, HandlerFails, UpdateRecordDraft, CountRecords, ReadRecords,
       ApplyImportedKpiData, MarkRecord, RejectChunk, importVars
  <2>7. CASE UNCHANGED importStatus
    BY <1>1, <2>7
  <2>8. /\ \A h \in Handlers, r \in Records : ReadDraft(h, r) => UNCHANGED importStatus
        /\ \A h \in Handlers, j \in Imports : BeginStaging(h, j) => UNCHANGED importStatus
        /\ \A r \in Records : ApplyScore(r) => UNCHANGED importStatus
    BY DEF ReadDraft, BeginStaging, ApplyScore
  <2>9. DataRestart \/ (\E k \in Subjects : CloseSubject(k)) \/ UNCHANGED dataVars => UNCHANGED importStatus
    BY DEF DataRestart, CloseSubject, dataVars
  <2> QED BY <1>1, <2>1, <2>2, <2>3, <2>4, <2>5, <2>5a, <2>6, <2>7, <2>8, <2>9 DEF DataNext
<1>2. DataImportTypeOK /\ ApplyInv /\ [DataNext]_dataVars
        => [\A i \in Crawled : importStatus[i] = "APPLIED" => importStatus'[i] = "APPLIED"]_dataVars
  BY <1>1
<1> QED BY <1>2, InitDataTypeOK, StepDataTypeOK, InitApplyInv, StepApplyInv, PTL DEF DataSpec, AppliedIsFinal

-----------------------------------------------------------------------------
(* A record is APPLIED only when it was written or its score applied; what *)
(* an application is about to mark was written, and what a review has read *)
(* as APPLIED was one of the two.                                          *)

WrittenInv ==
    /\ AppliedWasWritten
    /\ \A h \in Handlers : At(h, "mark") => handler[h].applied \subseteq itemWrites
    /\ \A h \in Handlers :
          handler[h].op = "review" /\ handler[h].status = "APPLIED" => handler[h].rec \in itemWrites \cup scored

LEMMA InitWrittenInv == DataInit => WrittenInv
BY DEF DataInit, WrittenInv, AppliedWasWritten, At, Resting

LEMMA StepWrittenInv == DataImportTypeOK /\ WrittenInv /\ [DataNext]_dataVars => WrittenInv'
<1> SUFFICES ASSUME DataImportTypeOK, WrittenInv, [DataNext]_dataVars PROVE WrittenInv'
  OBVIOUS
<1> USE DEF WrittenInv
<1>0. recordStatus \in [Records -> RecordStatuses]
  BY DEF DataImportTypeOK
<1>1. ASSUME NEW i \in Imports, CreateImport(i) \/ RejectCrawlImport(i)
      PROVE  WrittenInv'
  <2>1. UNCHANGED <<handler, itemWrites, scored>>
    BY <1>1 DEF CreateImport, RejectCrawlImport
  <2>2. \A r \in Records : recordStatus'[r] = "APPLIED" => recordStatus[r] = "APPLIED"
    BY <1>1 DEF CreateImport, RejectCrawlImport
  <2> QED BY <2>1, <2>2 DEF AppliedWasWritten, At
<1>1a. ASSUME NEW r \in Records, ApplyScore(r) PROVE WrittenInv'
  <2>1. UNCHANGED <<handler, itemWrites>> /\ scored' = scored \cup {r}
    BY <1>1a DEF ApplyScore
  <2>2. \A s \in Records : recordStatus'[s] = "APPLIED" => recordStatus[s] = "APPLIED" \/ s = r
    BY <1>0, <1>1a DEF ApplyScore
  <2> QED BY <2>1, <2>2 DEF AppliedWasWritten, At
<1>2. ASSUME NEW h \in Handlers, NEW r \in Records, ReadDraft(h, r) PROVE WrittenInv'
  <2>1. /\ UNCHANGED <<recordStatus, itemWrites, scored>>
        /\ handler'[h].op = "review" /\ handler'[h].rec = r /\ handler'[h].status = recordStatus[r]
        /\ \A g \in Handlers \ {h} : handler'[g] = handler[g]
    BY <1>2 DEF ReadDraft, importVars, DataImportTypeOK
  <2> QED BY <2>1 DEF AppliedWasWritten, At
<1>3. ASSUME NEW h \in Handlers, NEW i \in Imports, BeginApply(h, i) PROVE WrittenInv'
  <2>1. /\ UNCHANGED <<recordStatus, itemWrites, scored>>
        /\ handler'[h].op = "apply" /\ handler'[h].at = "read"
        /\ \A g \in Handlers \ {h} : handler'[g] = handler[g]
    BY <1>3 DEF BeginApply, DataImportTypeOK
  <2> QED BY <2>1 DEF AppliedWasWritten, At
<1>3a. ASSUME NEW h \in Handlers, NEW i \in Imports, BeginStaging(h, i) PROVE WrittenInv'
  <2>1. /\ UNCHANGED <<recordStatus, itemWrites, scored>>
        /\ handler'[h].op = "stage"
        /\ \A g \in Handlers \ {h} : handler'[g] = handler[g]
    BY <1>3a DEF BeginStaging, DataImportTypeOK
  <2> QED BY <2>1 DEF AppliedWasWritten, At
<1>4. ASSUME NEW h \in Handlers, HandlerStep(h) \/ HandlerFails(h) PROVE WrittenInv'
  <2>0. /\ \A g \in Handlers \ {h} : handler'[g] = handler[g]
        /\ RequestGoes(h)
    BY <1>4, StepOfRequest
  <2>1. itemWrites \subseteq itemWrites' /\ UNCHANGED scored
    BY <1>4 DEF HandlerStep, HandlerFails, ReviewCrawled, UpdateRecordDraft, CountRecords,
       UpdateImportStatus, ReadRecords, ApplyImportedKpiData, MarkRecord, RejectChunk, FinishApply, CommitStaging
  <2>2. At(h, "mark")' => handler'[h].applied \subseteq itemWrites'
    <3>1. ASSUME At(h, "mark")' PROVE ApplyImportedKpiData(h) \/ MarkRecord(h)
      BY <2>0, <3>1 DEF RequestGoes, At, Resting
    <3>2. CASE ApplyImportedKpiData(h)
      <4> DEFINE refused == {r \in handler[h].rows : SubjectOf[r] \in closed}
                 w == [handler[h] EXCEPT !.at = "mark", !.applied = handler[h].rows \ refused,
                                         !.rejected = refused]
      <4>1. handler' = [handler EXCEPT ![h] = w] /\ itemWrites' = itemWrites \cup (handler[h].rows \ refused)
        BY <3>2 DEF ApplyImportedKpiData
      <4>2. w.applied = handler[h].rows \ refused
        BY <3>2, KindsOfWork DEF ApplyImportedKpiData, At, Applying
      <4>3. handler'[h] = w
        BY <4>1 DEF DataImportTypeOK
      <4> QED BY <4>1, <4>2, <4>3
    <3>3. CASE MarkRecord(h)
      <4>1. PICK r : handler' = [handler EXCEPT ![h] = Marked(handler[h], r)]
        BY <3>3 DEF MarkRecord
      <4>2. handler'[h] = Marked(handler[h], r)
        BY <4>1 DEF DataImportTypeOK
      <4>3. handler'[h].applied \subseteq handler[h].applied
        BY <3>3, <4>2, KindsOfWork, ApplyMarks DEF MarkRecord, At
      <4> QED BY <2>1, <3>3, <4>3 DEF MarkRecord
    <3> QED BY <3>1, <3>2, <3>3
  <2>3. \A r \in Records : recordStatus'[r] = "APPLIED" => r \in itemWrites' \cup scored'
    <3>1. CASE UNCHANGED recordStatus
      BY <2>1, <3>1 DEF AppliedWasWritten
    <3>2. CASE WriteRecord(h) /\ handler[h].op = "review"
      <4>1. PICK resolution \in {"none", "accept", "reject"}, comment \in BOOLEAN :
               recordStatus' = [recordStatus EXCEPT ![handler[h].rec] =
                                  ReviewedStatus(handler[h], resolution, comment)]
        BY <3>2 DEF WriteRecord
      <4>2. ReviewedStatus(handler[h], resolution, comment) = "APPLIED" => handler[h].status = "APPLIED"
        BY DEF ReviewedStatus
      <4> QED BY <1>0, <2>1, <3>2, <4>1, <4>2 DEF AppliedWasWritten
    <3>3. CASE MarkRecord(h)
      <4>1. PICK r : recordStatus' = [recordStatus EXCEPT ![r] = OutcomeOf(h, r)]
        BY <3>3 DEF MarkRecord
      <4>2. OutcomeOf(h, r) = "APPLIED" => r \in itemWrites
        BY <3>3 DEF OutcomeOf, MarkRecord
      <4> QED BY <1>0, <2>1, <4>1, <4>2 DEF AppliedWasWritten
    <3>4. CASE RejectChunk(h)
      <4>1. PICK r \in Records : recordStatus' = [recordStatus EXCEPT ![r] = "REJECTED"]
        BY <3>4, RejectChunkGoes
      <4> QED BY <1>0, <2>1, <4>1 DEF AppliedWasWritten
    <3>5. CASE CommitStaging(h)
      <4>1. PICK output \in [RecordsOf(handler[h].imp) -> {"INVALID", "PENDING_REVIEW", "CONFLICT"}] :
               recordStatus' = [r \in Records |-> StagedStatus(handler[h], output, r)]
        BY <3>5 DEF CommitStaging
      <4>2. \A r \in Records : ImportOf[r] = handler[h].imp => output[r] # "APPLIED"
        BY DEF RecordsOf
      <4> QED BY <2>1, <4>1, <4>2 DEF StagedStatus, AppliedWasWritten
    <3> QED BY <1>4, <3>1, <3>2, <3>3, <3>4, <3>5
            DEF HandlerStep, HandlerFails, ReviewCrawled, UpdateRecordDraft, CountRecords,
                UpdateImportStatus, ReadRecords, ApplyImportedKpiData, FinishApply, importVars
  <2>4. handler'[h].op = "review" => handler[h].op = "review" /\ handler'[h].status = handler[h].status
                                     /\ handler'[h].rec = handler[h].rec
    BY <2>0 DEF RequestGoes, Resting, UpdateRecordDraft, CountRecords
  <2> QED BY <2>0, <2>1, <2>2, <2>3, <2>4 DEF AppliedWasWritten, At
<1>5. CASE DataRestart
  <2>1. UNCHANGED <<recordStatus, itemWrites, scored>> /\ \A h \in Handlers : handler'[h] = Resting
    BY <1>5 DEF DataRestart, importVars
  <2> QED BY <2>1 DEF AppliedWasWritten, At, Resting
<1>6. CASE (\E k \in Subjects : CloseSubject(k)) \/ UNCHANGED dataVars
  BY <1>6 DEF CloseSubject, dataVars, importVars, AppliedWasWritten, At
<1> HIDE DEF WrittenInv
<1> QED BY <1>1, <1>1a, <1>2, <1>3, <1>3a, <1>4, <1>5, <1>6 DEF DataNext

(* No record says APPLIED whose value has not reached an item, but for     *)
(* those a score was applied to.                                           *)
THEOREM AppliedRecordsWereWritten == DataSpec => []AppliedWasWritten
<1>1. WrittenInv => AppliedWasWritten
  BY DEF WrittenInv
<1> QED BY <1>1, InitDataTypeOK, StepDataTypeOK, InitWrittenInv, StepWrittenInv, PTL DEF DataSpec

-----------------------------------------------------------------------------
(* Between the check of an application and its read, a record of its       *)
(* import that it will take up has a comment or comes from a staging.      *)

Taken == {"VALID", "CONFLICT"}
CheckedRows ==
    \A h \in Handlers, r \in Records :
        At(h, "read") /\ handler[h].imp = ImportOf[r] /\ IsCrawled(r) /\ recordStatus[r] \in Taken
            => commented[r] \/ r \in mergedLate
ReviewInv == ReviewedBeforeApplied /\ CheckedRows

LEMMA InitReviewInv == DataInit => ReviewInv
BY DEF DataInit, ReviewInv, ReviewedBeforeApplied, CheckedRows, At, Resting

(* What a staging makes of the records of other imports. *)
LEMMA StagedOthers ==
    ASSUME DataImportTypeOK, NEW h \in Handlers, CommitStaging(h), NEW r \in Records,
           ImportOf[r] # handler[h].imp, recordStatus'[r] # recordStatus[r]
    PROVE  /\ recordStatus'[r] = "VALID"
           /\ (\E g \in Handlers : At(g, "read") /\ handler[g].imp = ImportOf[r]) => r \in mergedLate'
<1>1. PICK output \in [RecordsOf(handler[h].imp) -> {"INVALID", "PENDING_REVIEW", "CONFLICT"}] :
         /\ recordStatus' = [s \in Records |-> StagedStatus(handler[h], output, s)]
         /\ mergedLate' = mergedLate \cup
               {s \in Merged(handler[h], output) :
                   \E g \in Handlers : At(g, "read") /\ handler[g].imp = ImportOf[s]}
  BY DEF CommitStaging
<1>2. recordStatus'[r] = StagedStatus(handler[h], output, r)
  BY <1>1
<1> DEFINE merged == r \in Merged(handler[h], output)
<1>3. StagedStatus(handler[h], output, r) = IF merged THEN "VALID" ELSE recordStatus[r]
  <2> DEFINE known == r \in Known(handler[h], output)
             merges == \E s \in Merged(handler[h], output) : SubjectOf[s] = SubjectOf[r]
             others == ImportOf[r] # handler[h].imp
  <2>1. StagedStatus(handler[h], output, r) =
          CASE others -> IF merged THEN "VALID" ELSE recordStatus[r]
            [] known -> IF merges THEN "VALID" ELSE "CONFLICT"
            [] OTHER -> output[r]
    BY DEF StagedStatus
  <2>2. others /\ ~known
    BY DEF Known, RecordsOf
  <2> HIDE DEF merged, known, merges, others
  <2> QED BY <2>1, <2>2
<1>4. recordStatus'[r] = "VALID" /\ r \in Merged(handler[h], output)
  BY <1>2, <1>3
<1> QED BY <1>1, <1>4

LEMMA StepReviewInv == DataImportTypeOK /\ ApplyInv /\ ReviewInv /\ [DataNext]_dataVars => ReviewInv'
<1> SUFFICES ASSUME DataImportTypeOK, ApplyInv, ReviewInv, [DataNext]_dataVars PROVE ReviewInv'
  OBVIOUS
<1> USE DEF ReviewInv
<1>0. /\ importStatus \in [Imports -> ImportStatuses] /\ recordStatus \in [Records -> RecordStatuses]
      /\ commented \in [Records -> BOOLEAN] /\ handler \in [Handlers -> Works]
      /\ ImportOf \in [Records -> Imports] /\ Crawled \subseteq Imports
  BY DataAssumption DEF DataImportTypeOK, Works
<1>a. ASSUME UNCHANGED <<uncommented, mergedLate>> PROVE ReviewedBeforeApplied'
  BY <1>a DEF ReviewedBeforeApplied
(* Nothing that would be taken up turns up, nor does a reader. *)
<1>b. ASSUME \A h \in Handlers : At(h, "read")' => At(h, "read") /\ handler'[h].imp = handler[h].imp,
             mergedLate \subseteq mergedLate',
             \A r \in Records : IsCrawled(r) /\ recordStatus'[r] \in Taken =>
                \/ recordStatus[r] \in Taken /\ (commented[r] => commented'[r])
                \/ \A h \in Handlers : ~(At(h, "read") /\ handler[h].imp = ImportOf[r])
                \/ r \in mergedLate'
      PROVE  CheckedRows'
  BY <1>b DEF CheckedRows, IsCrawled
<1>1. ASSUME NEW i \in Imports, CreateImport(i) PROVE ReviewInv'
  <2>1. /\ UNCHANGED <<handler, commented, uncommented, mergedLate>>
        /\ \A r \in Records : IsCrawled(r) => recordStatus'[r] = recordStatus[r]
    BY <1>0, <1>1 DEF CreateImport, IsCrawled
  <2>2. CheckedRows'
    BY <1>b, <2>1 DEF At
  <2> QED BY <1>a, <2>1, <2>2
<1>2. ASSUME NEW i \in Imports, RejectCrawlImport(i) PROVE ReviewInv'
  <2>1. UNCHANGED <<handler, uncommented, mergedLate>>
    BY <1>2 DEF RejectCrawlImport
  <2>2. \A r \in Records : /\ recordStatus'[r] \in Taken => recordStatus[r] \in Taken
                           /\ commented[r] => commented'[r]
    BY <1>2 DEF RejectCrawlImport, Taken
  <2>3. CheckedRows'
    BY <1>b, <2>1, <2>2 DEF At
  <2> QED BY <1>a, <2>1, <2>3
<1>3. ASSUME NEW r \in Records, ApplyScore(r) PROVE ReviewInv'
  <2>1. UNCHANGED <<handler, uncommented, mergedLate>>
    BY <1>3 DEF ApplyScore
  <2>2. \A s \in Records : recordStatus'[s] \in Taken => /\ recordStatus[s] \in Taken
                                                       /\ commented'[s] = commented[s]
    BY <1>0, <1>3 DEF ApplyScore, Taken
  <2>3. CheckedRows'
    BY <1>b, <2>1, <2>2 DEF At
  <2> QED BY <1>a, <2>1, <2>3
<1>4. ASSUME NEW h \in Handlers,
             (\E r \in Records : ReadDraft(h, r)) \/ (\E i \in Imports : BeginStaging(h, i))
      PROVE  ReviewInv'
  <2>1. /\ UNCHANGED <<recordStatus, commented, uncommented, mergedLate>> /\ ~At(h, "read")'
        /\ \A g \in Handlers \ {h} : handler'[g] = handler[g]
    BY <1>0, <1>4 DEF ReadDraft, BeginStaging, At
  <2>2. CheckedRows'
    BY <1>b, <2>1 DEF At
  <2> QED BY <1>a, <2>1, <2>2
<1>5. ASSUME NEW h \in Handlers, NEW i \in Imports, BeginApply(h, i) PROVE ReviewInv'
  <2>1. /\ UNCHANGED <<recordStatus, commented, uncommented, mergedLate>>
        /\ handler'[h].imp = i
        /\ \A g \in Handlers \ {h} : handler'[g] = handler[g]
    BY <1>0, <1>5 DEF BeginApply
  <2>2. CheckedRows'
    <3> SUFFICES ASSUME NEW g \in Handlers, NEW r \in Records, At(g, "read")', handler'[g].imp = ImportOf[r],
                        IsCrawled(r), recordStatus[r] \in Taken
                 PROVE  commented[r] \/ r \in mergedLate
      BY <2>1 DEF CheckedRows, IsCrawled
    <3>1. CASE g = h
      BY <1>5, <2>1, <3>1 DEF BeginApply, Reviewed, Having, RecordsOf, IsCrawled, Taken
    <3>2. CASE g # h
      BY <2>1, <3>2 DEF CheckedRows, At
    <3> QED BY <3>1, <3>2
  <2> QED BY <1>a, <2>1, <2>2
<1>6. ASSUME NEW h \in Handlers, HandlerStep(h) \/ HandlerFails(h) PROVE ReviewInv'
  <2>0. /\ \A g \in Handlers \ {h} : handler'[g] = handler[g]
        /\ RequestGoes(h)
    BY <1>6, StepOfRequest
  <2>1. \A g \in Handlers : At(g, "read")' => At(g, "read") /\ handler'[g].imp = handler[g].imp
    BY <2>0 DEF RequestGoes, At, Resting
  <2>2. ReviewedBeforeApplied'
    <3>1. CASE ReadRecords(h)
      <4>1. /\ uncommented' = uncommented \cup
                  {r \in Having(handler[h].imp, "VALID") \cup Having(handler[h].imp, "CONFLICT") :
                      IsCrawled(r) /\ ~commented[r]}
            /\ At(h, "read") /\ UNCHANGED mergedLate
        BY <3>1 DEF ReadRecords
      <4> QED BY <4>1 DEF ReviewedBeforeApplied, CheckedRows, Having, RecordsOf, Taken
    <3>2. CASE UNCHANGED uncommented /\ mergedLate \subseteq mergedLate'
      BY <3>2 DEF ReviewedBeforeApplied
    <3> QED BY <1>6, <3>1, <3>2
            DEF HandlerStep, HandlerFails, ReviewCrawled, UpdateRecordDraft, CountRecords, UpdateImportStatus,
                ApplyImportedKpiData, MarkRecord, RejectChunk, FinishApply, CommitStaging
  <2>3. CheckedRows'
    <3>1. mergedLate \subseteq mergedLate'
      BY <1>6 DEF HandlerStep, HandlerFails, ReviewCrawled, UpdateRecordDraft, CountRecords, UpdateImportStatus,
         ReadRecords, ApplyImportedKpiData, MarkRecord, RejectChunk, FinishApply, CommitStaging
    <3>2. CASE UNCHANGED <<recordStatus, commented>>
      BY <1>b, <2>1, <3>1, <3>2
    <3>3. CASE ReviewCrawled(h) /\ ~UNCHANGED <<recordStatus, commented>>
      <4> DEFINE i == ImportOf[handler[h].rec]
      <4>1. importStatus[i] \in ReviewableStatuses /\ WriteRecord(h) /\ IsCrawled(handler[h].rec)
            /\ handler[h].op = "review"
        BY <3>3 DEF ReviewCrawled
      <4>2. \A g \in Handlers : ~Applies(g, i)
        BY <4>1, AppliedIsImport DEF ReviewableStatuses, IsCrawled, ApplyInv
      <4>3. \A r \in Records : ImportOf[r] # i => recordStatus'[r] = recordStatus[r] /\ (commented[r] => commented'[r])
        BY <1>0, <4>1, WriteRecordTypes
      <4> QED BY <1>b, <2>1, <3>1, <4>2, <4>3 DEF Applies, At
    <3>4. CASE UpdateRecordDraft(h)
      <4>1. \A r \in Records : IsCrawled(r) => recordStatus'[r] = recordStatus[r] /\ (commented[r] => commented'[r])
        BY <1>0, <3>4, WriteRecordTypes DEF UpdateRecordDraft
      <4> QED BY <1>b, <2>1, <3>1, <4>1
    <3>5. CASE MarkRecord(h)
      <4>1. PICK r : recordStatus' = [recordStatus EXCEPT ![r] = OutcomeOf(h, r)]
        BY <3>5 DEF MarkRecord
      <4>2. OutcomeOf(h, r) \notin Taken
        BY DEF OutcomeOf, Taken
      <4>3. UNCHANGED commented /\ \A s \in Records : recordStatus'[s] \in Taken => recordStatus[s] \in Taken
        BY <1>0, <3>5, <4>1, <4>2 DEF MarkRecord
      <4> QED BY <1>b, <2>1, <3>1, <4>3
    <3>6. CASE RejectChunk(h)
      <4>1. PICK r \in Records : recordStatus' = [recordStatus EXCEPT ![r] = "REJECTED"]
        BY <3>6, RejectChunkGoes
      <4>2. UNCHANGED commented /\ \A s \in Records : recordStatus'[s] \in Taken => recordStatus[s] \in Taken
        BY <1>0, <3>6, <4>1 DEF RejectChunk, Taken
      <4> QED BY <1>b, <2>1, <3>1, <4>2
    <3>7. CASE CommitStaging(h)
      <4>1. UNCHANGED commented /\ importStatus[handler[h].imp] = "NONE"
        BY <3>7 DEF CommitStaging
      <4>2. ASSUME NEW r \in Records, IsCrawled(r), recordStatus'[r] \in Taken
            PROVE  \/ recordStatus[r] \in Taken
                   \/ \A g \in Handlers : ~(At(g, "read") /\ handler[g].imp = ImportOf[r])
                   \/ r \in mergedLate'
        <5>1. CASE ImportOf[r] = handler[h].imp
          BY <4>1, <4>2, <5>1, AppliedIsImport DEF At, Applies, IsCrawled, ApplyInv
        <5>2. CASE ImportOf[r] # handler[h].imp
          BY <3>7, <4>2, <5>2, StagedOthers
        <5> QED BY <5>1, <5>2
      <4> QED BY <1>b, <2>1, <3>1, <4>1, <4>2
    <3> QED BY <1>6, <3>2, <3>3, <3>4, <3>5, <3>6, <3>7
            DEF HandlerStep, HandlerFails, CountRecords, UpdateImportStatus, ReadRecords,
                ApplyImportedKpiData, FinishApply
  <2> QED BY <2>2, <2>3
<1>7. CASE DataRestart
  <2>1. /\ UNCHANGED <<recordStatus, commented, uncommented, mergedLate>>
        /\ \A h \in Handlers : handler'[h] = Resting
    BY <1>7 DEF DataRestart
  <2>2. CheckedRows'
    BY <2>1 DEF CheckedRows, At, Resting
  <2> QED BY <1>a, <2>1, <2>2
<1>8. CASE (\E k \in Subjects : CloseSubject(k)) \/ UNCHANGED dataVars
  <2>1. UNCHANGED <<recordStatus, commented, uncommented, mergedLate, handler>>
    BY <1>8 DEF CloseSubject, dataVars
  <2> QED BY <1>a, <1>b, <2>1 DEF At
<1> HIDE DEF ReviewInv
<1> QED BY <1>1, <1>2, <1>3, <1>4, <1>5, <1>6, <1>7, <1>8 DEF DataNext

(* No application takes up a crawled record without the comment of a       *)
(* reviewer, but for those merged between its check and its read.          *)
THEOREM AppliedWasReviewed == DataSpec => []ReviewedBeforeApplied
<1>1. ReviewInv => ReviewedBeforeApplied
  BY DEF ReviewInv
<1> QED BY <1>1, InitDataTypeOK, StepDataTypeOK, InitApplyInv, StepApplyInv, InitReviewInv, StepReviewInv,
           PTL DEF DataSpec

-----------------------------------------------------------------------------
(* Only a review makes a crawled import READY, from the statuses of its    *)
(* records, and nothing gives one of them back to the reviewer afterwards. *)

Unresolved == {"PENDING_REVIEW", "CONFLICT"}
ReadyRecords ==
    \A r \in Records :
        IsCrawled(r) /\ importStatus[ImportOf[r]] = "READY" => recordStatus[r] \notin Unresolved

LEMMA InitReadyRecords == DataInit => ReadyRecords
BY DEF DataInit, ReadyRecords, Unresolved

LEMMA StepReadyRecords == DataImportTypeOK /\ ApplyInv /\ ReadyRecords /\ [DataNext]_dataVars => ReadyRecords'
<1> SUFFICES ASSUME DataImportTypeOK, ApplyInv, ReadyRecords, [DataNext]_dataVars PROVE ReadyRecords'
  OBVIOUS
<1>0. /\ importStatus \in [Imports -> ImportStatuses] /\ recordStatus \in [Records -> RecordStatuses]
      /\ ImportOf \in [Records -> Imports] /\ Crawled \subseteq Imports
  BY DataAssumption DEF DataImportTypeOK
<1>a. ASSUME \A i \in Crawled : importStatus'[i] = "READY" => importStatus[i] = "READY",
             \A r \in Records : IsCrawled(r) /\ importStatus'[ImportOf[r]] = "READY"
                /\ recordStatus'[r] \in Unresolved => recordStatus[r] \in Unresolved
      PROVE  ReadyRecords'
  BY <1>a DEF ReadyRecords, IsCrawled
<1>1. ASSUME NEW i \in Imports, CreateImport(i) PROVE ReadyRecords'
  <2>1. /\ \A j \in Crawled : importStatus'[j] = importStatus[j]
        /\ \A r \in Records : IsCrawled(r) => recordStatus'[r] = recordStatus[r]
    BY <1>0, <1>1 DEF CreateImport, IsCrawled
  <2> QED BY <1>a, <2>1
<1>2. ASSUME NEW h \in Handlers, CommitStaging(h) PROVE ReadyRecords'
  <2>1. importStatus' = [importStatus EXCEPT ![handler[h].imp] = "PENDING_REVIEW"]
        /\ handler[h].imp \in Imports
    BY <1>2, KindsOfWork DEF CommitStaging
  <2>2. \A j \in Crawled : importStatus'[j] = "READY" => j # handler[h].imp /\ importStatus[j] = "READY"
    BY <1>0, <2>1
  <2>3. ASSUME NEW r \in Records, ImportOf[r] # handler[h].imp, recordStatus'[r] \in Unresolved
        PROVE  recordStatus[r] \in Unresolved
    BY <1>2, <2>3, StagedOthers DEF Unresolved
  <2> QED BY <1>a, <2>2, <2>3 DEF IsCrawled
<1>2a. ASSUME NEW r \in Records, ApplyScore(r) PROVE ReadyRecords'
  <2>1. UNCHANGED importStatus /\ \A s \in Records : recordStatus'[s] \in Unresolved => recordStatus[s] \in Unresolved
    BY <1>0, <1>2a DEF ApplyScore, Unresolved
  <2> QED BY <1>a, <2>1
<1>3. ASSUME NEW i \in Imports, RejectCrawlImport(i) PROVE ReadyRecords'
  <2>1. \A j \in Crawled : importStatus'[j] = "READY" => importStatus[j] = "READY"
    BY <1>0, <1>3 DEF RejectCrawlImport
  <2>2. \A r \in Records : recordStatus'[r] \in Unresolved => recordStatus[r] \in Unresolved
    BY <1>3 DEF RejectCrawlImport, Unresolved
  <2> QED BY <1>a, <2>1, <2>2
<1>4. ASSUME NEW h \in Handlers, NEW i \in Imports, BeginApply(h, i) PROVE ReadyRecords'
  <2>1. importStatus' = [importStatus EXCEPT ![i] = "APPLYING"] /\ UNCHANGED recordStatus
    BY <1>4 DEF BeginApply
  <2>2. \A j \in Crawled : importStatus'[j] = "READY" => importStatus[j] = "READY"
    BY <1>0, <2>1
  <2> QED BY <1>a, <2>1, <2>2
<1>5. ASSUME NEW h \in Handlers, ReviewCrawled(h) PROVE ReadyRecords'
  <2> DEFINE i == ImportOf[handler[h].rec]
  <2>1. CASE UNCHANGED importVars
    BY <1>a, <2>1 DEF importVars
  <2>2. CASE importStatus' = [importStatus EXCEPT ![i] = StatusOfRecords(i, recordStatus')] /\ WriteRecord(h)
    <3>1. i \in Imports
      BY <1>0, <1>5, KindsOfWork DEF ReviewCrawled
    <3>2. importStatus'[i] = StatusOfRecords(i, recordStatus')
      BY <1>0, <2>2, <3>1
    <3>3. \A r \in RecordsOf(i) : importStatus'[i] = "READY" => recordStatus'[r] \notin Unresolved
      BY <3>2 DEF StatusOfRecords, Unresolved
    <3>4. \E s : recordStatus' = [recordStatus EXCEPT ![handler[h].rec] = s]
      BY <2>2 DEF WriteRecord
    <3>5. \A r \in Records : ImportOf[r] # i => recordStatus'[r] = recordStatus[r]
      BY <1>0, <3>4
    <3>6. \A j \in Imports : j # i => importStatus'[j] = importStatus[j]
      BY <1>0, <2>2
    <3> HIDE DEF i
    <3> QED BY <1>0, <3>3, <3>5, <3>6 DEF ReadyRecords, IsCrawled, RecordsOf
  <2> QED BY <1>5, <2>1, <2>2 DEF ReviewCrawled
<1>6. ASSUME NEW h \in Handlers, UpdateRecordDraft(h) PROVE ReadyRecords'
  <2>1. \E s : recordStatus' = [recordStatus EXCEPT ![handler[h].rec] = s]
    BY <1>6 DEF UpdateRecordDraft, WriteRecord
  <2>2. \A r \in Records : IsCrawled(r) => recordStatus'[r] = recordStatus[r]
    BY <1>0, <1>6, <2>1 DEF UpdateRecordDraft
  <2> QED BY <1>a, <1>6, <2>2 DEF UpdateRecordDraft
<1>7. ASSUME NEW h \in Handlers, UpdateImportStatus(h) PROVE ReadyRecords'
  <2>1. \A j \in Crawled : importStatus'[j] = importStatus[j]
    BY <1>0, <1>7 DEF UpdateImportStatus, ApplyInv, PlainReview, IsCrawled
  <2> QED BY <1>a, <1>7, <2>1 DEF UpdateImportStatus
<1>8. ASSUME NEW h \in Handlers, MarkRecord(h) PROVE ReadyRecords'
  <2>1. PICK r : recordStatus' = [recordStatus EXCEPT ![r] = OutcomeOf(h, r)]
    BY <1>8 DEF MarkRecord
  <2>2. OutcomeOf(h, r) \notin Unresolved
    BY DEF OutcomeOf, Unresolved
  <2>3. \A s \in Records : recordStatus'[s] \in Unresolved => recordStatus[s] \in Unresolved
    BY <1>0, <2>1, <2>2
  <2> QED BY <1>a, <1>8, <2>3 DEF MarkRecord
<1>9. ASSUME NEW h \in Handlers, RejectChunk(h) PROVE ReadyRecords'
  <2>0. PICK r \in Records : recordStatus' = [recordStatus EXCEPT ![r] = "REJECTED"]
    BY <1>9, RejectChunkGoes
  <2>1. \A s \in Records : recordStatus'[s] \in Unresolved => recordStatus[s] \in Unresolved
    BY <1>0, <2>0 DEF Unresolved
  <2> QED BY <1>a, <1>9, <2>1 DEF RejectChunk
<1>10. ASSUME NEW h \in Handlers, FinishApply(h) PROVE ReadyRecords'
  <2>1. \A j \in Crawled : importStatus'[j] = "READY" => importStatus[j] = "READY"
    BY <1>0, <1>10 DEF FinishApply
  <2> QED BY <1>a, <1>10, <2>1 DEF FinishApply
<1>11. CASE UNCHANGED <<importStatus, recordStatus>>
  BY <1>a, <1>11
<1>12. ASSUME NEW h \in Handlers, HandlerStep(h) \/ HandlerFails(h) PROVE ReadyRecords'
  BY <1>2, <1>5, <1>6, <1>7, <1>8, <1>9, <1>10, <1>11, <1>12
     DEF HandlerStep, HandlerFails, CountRecords, ReadRecords, ApplyImportedKpiData, importVars
<1>13. ASSUME NEW h \in Handlers,
              (\E r \in Records : ReadDraft(h, r)) \/ (\E i \in Imports : BeginStaging(h, i))
       PROVE  ReadyRecords'
  BY <1>11, <1>13 DEF ReadDraft, BeginStaging
<1>14. CASE DataRestart \/ (\E k \in Subjects : CloseSubject(k)) \/ UNCHANGED dataVars
  BY <1>11, <1>14 DEF DataRestart, CloseSubject, dataVars, importVars
<1> QED BY <1>1, <1>2a, <1>3, <1>4, <1>12, <1>13, <1>14 DEF DataNext

(* An import that says READY has nothing left for the reviewer, however    *)
(* other imports are merged into it.                                       *)
THEOREM ReadyImportsAreResolved == DataSpec => []ReadyIsResolved
<1>1. ReadyRecords => ReadyIsResolved
  BY DEF ReadyRecords, ReadyIsResolved, Having, RecordsOf, Unresolved, IsCrawled
<1> QED BY <1>1, InitDataTypeOK, StepDataTypeOK, InitApplyInv, StepApplyInv,
           InitReadyRecords, StepReadyRecords, PTL DEF DataSpec
=============================================================================
