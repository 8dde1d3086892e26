--------------------------- MODULE CsvImportProofs ---------------------------
(***************************************************************************)
(* What is true of the import of CSV files for any number of uploads,      *)
(* confirmations and rows, whatever the files and the faults are.          *)
(***************************************************************************)
EXTENDS CsvImport, FiniteSetTheorems, TLAPS

Working(c) == confirmation[c] # NotConfirming
Job(c) == confirmation[c].job

-----------------------------------------------------------------------------
(* Types                                                                   *)

LEMMA InitCsvTypeOK == CsvInit => CsvTypeOK
<1> SUFFICES ASSUME CsvInit PROVE CsvTypeOK
  OBVIOUS
<1>1. /\ jobStatus \in [Uploads -> JobStatuses] /\ upload \in [Uploads -> UploadSteps]
      /\ rowStatus \in [Uploads -> [RowNos -> RowStatuses]]
  BY DEF CsvInit, JobStatuses, RowStatuses, UploadSteps
<1>2. confirmation \in [Confirmations -> Confirming \cup {NotConfirming}]
  BY DEF CsvInit
<1>3. /\ starts \in [Uploads -> Nat] /\ written \subseteq Uploads \X RowNos
      /\ openItems \subseteq Items /\ cycleLocked \in BOOLEAN
  BY DEF CsvInit
<1>4. mishaps \in 0..MaxMishaps
  <2>1. mishaps = 0 /\ MaxMishaps \in Nat
    BY CsvAssumption DEF CsvInit
  <2> QED BY <2>1
<1> QED BY <1>1, <1>2, <1>3, <1>4 DEF CsvTypeOK

(* Records of confirmations whose place has changed. *)
LEMMA PlaceChanged ==
    ASSUME NEW w \in Confirming, NEW at \in ConfirmSteps
    PROVE  [w EXCEPT !.at = at] \in Confirming
BY DEF Confirming

LEMMA GoesToTypeOK ==
    ASSUME CsvTypeOK, NEW c \in Confirmations, Working(c), NEW at \in ConfirmSteps, GoesTo(c, at)
    PROVE  confirmation' \in [Confirmations -> Confirming \cup {NotConfirming}]
<1>1. confirmation[c] \in Confirming
  BY DEF CsvTypeOK, Working
<1>2. [confirmation[c] EXCEPT !.at = at] \in Confirming
  BY <1>1, PlaceChanged
<1> QED BY <1>2 DEF CsvTypeOK, GoesTo

LEMMA EndsTypeOK ==
    ASSUME CsvTypeOK, NEW c \in Confirmations, Ends(c)
    PROVE  confirmation' \in [Confirmations -> Confirming \cup {NotConfirming}]
BY DEF CsvTypeOK, Ends

LEMMA WorkingAt ==
    ASSUME CsvTypeOK, NEW c \in Confirmations, confirmation[c].at \in ConfirmSteps
    PROVE  Working(c) /\ confirmation[c] \in Confirming /\ Job(c) \in Uploads
BY DEF CsvTypeOK, Working, NotConfirming, ConfirmSteps, Confirming, Job

LEMMA BecomesTypeOK ==
    ASSUME CsvTypeOK, NEW c \in Confirmations, NEW s \in JobStatuses, Becomes(c, s)
    PROVE  jobStatus' \in [Uploads -> JobStatuses]
BY DEF CsvTypeOK, Becomes

(* What the end of a row leaves of the record of its confirmation. *)
LEMMA AfterRowFields ==
    ASSUME NEW w \in Confirming, NEW i \in RowNos, NEW error \in BOOLEAN
    PROVE  /\ AfterRow(w, i, error) \in Confirming
           /\ AfterRow(w, i, error).job = w.job
           /\ AfterRow(w, i, error).rows = w.rows \ {i}
           /\ AfterRow(w, i, error).errors = (w.errors \/ error)
           /\ AfterRow(w, i, error).at \in {"row", "fail", "fetch"}
<1> DEFINE left == w.rows \ {i}
           failed == w.errors \/ error
           at == IF left # {} THEN "row" ELSE IF w.strict /\ failed THEN "fail" ELSE "fetch"
           n == IF left = {} THEN w.offset + ImportBatch ELSE w.offset
<1>2. left \in SUBSET RowNos /\ failed \in BOOLEAN /\ at \in {"row", "fail", "fetch"}
  BY DEF Confirming
<1>3. n \in Nat
  BY CsvAssumption DEF Confirming
<1>4. AfterRow(w, i, error) = [w EXCEPT !.at = at, !.rows = left, !.errors = failed, !.offset = n]
  BY DEF AfterRow, Confirming
<1> HIDE DEF left, failed, at, n
<1>5. /\ AfterRow(w, i, error) \in Confirming /\ AfterRow(w, i, error).job = w.job
      /\ AfterRow(w, i, error).rows = left /\ AfterRow(w, i, error).errors = failed
      /\ AfterRow(w, i, error).at = at
  BY <1>2, <1>3, <1>4 DEF Confirming, ConfirmSteps
<1> QED BY <1>2, <1>5 DEF left, failed

LEMMA MarkRowTypeOK ==
    ASSUME CsvTypeOK, NEW c \in Confirmations, confirmation[c].at \in ConfirmSteps,
           NEW s \in RowStatuses, NEW error \in BOOLEAN, MarkRow(c, s, error)
    PROVE  /\ rowStatus' \in [Uploads -> [RowNos -> RowStatuses]]
           /\ confirmation' \in [Confirmations -> Confirming \cup {NotConfirming}]
<1>1. confirmation[c] \in Confirming /\ confirmation[c].job \in Uploads
  BY WorkingAt DEF Job
<1>2. PICK i \in RowNos :
         /\ rowStatus' = [rowStatus EXCEPT ![confirmation[c].job][i] = s]
         /\ confirmation' = [confirmation EXCEPT ![c] = AfterRow(confirmation[c], i, error)]
  BY DEF MarkRow
<1>3. rowStatus' \in [Uploads -> [RowNos -> RowStatuses]]
  BY <1>1, <1>2 DEF CsvTypeOK
<1>4. confirmation' \in [Confirmations -> Confirming \cup {NotConfirming}]
  BY <1>1, <1>2, AfterRowFields DEF CsvTypeOK
<1> QED BY <1>3, <1>4

LEMMA StepCsvTypeOK == CsvTypeOK /\ [CsvNext]_csvVars => CsvTypeOK'
<1> SUFFICES ASSUME CsvTypeOK, [CsvNext]_csvVars PROVE CsvTypeOK'
  OBVIOUS
<1>1. ASSUME NEW u \in Uploads, UploadStep(u) \/ UploadFails(u) PROVE CsvTypeOK'
  <2>1. CASE LookUp(u)
    BY <2>1 DEF LookUp, UploadMoves, CsvTypeOK, UploadSteps, jobVars, lockVars, traceVars
  <2>2. CASE CreateImportJob(u)
    BY <2>2 DEF CreateImportJob, UploadMoves, CsvTypeOK, UploadSteps, JobStatuses, lockVars, traceVars
  <2>3. CASE InsertRows(u)
    <3>1. upload' \in [Uploads -> UploadSteps]
      BY <2>3 DEF InsertRows, UploadMoves, CsvTypeOK, UploadSteps
    <3>2. ASSUME NEW n \in RowNos, NEW valid \in SUBSET RowNos
          PROVE  [i \in RowNos |-> IF i > n THEN "NONE" ELSE IF i \in valid THEN "VALID" ELSE "INVALID"]
                    \in [RowNos -> RowStatuses]
      BY DEF RowStatuses
    <3>3. \A n \in RowNos : {i \in 1..n : FirstOfItem(i)} \subseteq RowNos
      BY CsvAssumption, FS_CardinalityType
    <3>4. rowStatus' \in [Uploads -> [RowNos -> RowStatuses]]
      <4>1. CASE UNCHANGED rowStatus
        BY <4>1 DEF CsvTypeOK
      <4>2. ASSUME NEW n \in RowNos, NEW valid \in SUBSET {i \in 1..n : FirstOfItem(i)},
                   rowStatus' = [rowStatus EXCEPT ![u] = [i \in RowNos |->
                       IF i > n THEN "NONE" ELSE IF i \in valid THEN "VALID" ELSE "INVALID"]]
            PROVE  rowStatus' \in [Uploads -> [RowNos -> RowStatuses]]
        <5>1. valid \in SUBSET RowNos
          BY <3>3
        <5>2. [i \in RowNos |-> IF i > n THEN "NONE" ELSE IF i \in valid THEN "VALID" ELSE "INVALID"]
                 \in [RowNos -> RowStatuses]
          BY <5>1, <3>2
        <5> QED BY <4>2, <5>2 DEF CsvTypeOK
      <4> QED BY <2>3, <4>1, <4>2 DEF InsertRows, jobVars
    <3> QED BY <2>3, <3>1, <3>4 DEF InsertRows, CsvTypeOK, jobVars, lockVars, traceVars
  <2>4. CASE Preview(u)
    BY <2>4 DEF Preview, UploadMoves, CsvTypeOK, UploadSteps, JobStatuses, lockVars, traceVars
  <2>5. CASE UploadFails(u)
    BY <2>5, CsvAssumption DEF UploadFails, Mishap, CsvTypeOK, UploadSteps, jobVars, lockVars, traceVars
  <2> QED BY <1>1, <2>1, <2>2, <2>3, <2>4, <2>5 DEF UploadStep
<1>2. ASSUME NEW c \in Confirmations, NEW u \in Uploads, NEW strict \in BOOLEAN,
             ConfirmImport(c, u, strict)
      PROVE  CsvTypeOK'
  <2>1. [at |-> IF strict /\ ErrorRows(u) > 0 THEN "refuse" ELSE "check", job |-> u,
         strict |-> strict, offset |-> 0, rows |-> {}, open |-> {}, errors |-> FALSE] \in Confirming
    BY DEF Confirming, ConfirmSteps
  <2> QED BY <1>2, <2>1 DEF ConfirmImport, CsvTypeOK, jobVars, lockVars, traceVars
<1>3. ASSUME NEW c \in Confirmations, ConfirmStep(c) PROVE CsvTypeOK'
  <2>0. confirmation[c].at \in ConfirmSteps
    BY <1>3 DEF ConfirmStep, ConfirmSteps, RefuseStrict, CheckCycleLock, StartImport, FetchBatch,
                ReadEvaluations, WriteItem, NoActiveEvaluation, MarkImported, MarkSkipped, FinishJob,
                NotifyImporter, FailJob
  <2>1. Working(c) /\ confirmation[c] \in Confirming /\ Job(c) \in Uploads
    BY <2>0, WorkingAt
  <2>2. {"check", "start", "fetch", "mark", "skip", "fail", "notify"} \subseteq ConfirmSteps
        /\ {"COMPLETED", "PARTIALLY_COMPLETED", "IMPORTING", "FAILED"} \subseteq JobStatuses
    BY DEF ConfirmSteps, JobStatuses
  <2>3. CASE RefuseStrict(c) \/ FailJob(c)
    BY <2>3, <2>2, EndsTypeOK, BecomesTypeOK
       DEF RefuseStrict, FailJob, Failed, CsvTypeOK, lockVars, traceVars
  <2>4. CASE CheckCycleLock(c) \/ NoActiveEvaluation(c) \/ NotifyImporter(c)
    BY <2>4, <2>1, <2>2, EndsTypeOK, GoesToTypeOK
       DEF CheckCycleLock, NoActiveEvaluation, NotifyImporter, LockedRow, CsvTypeOK, jobVars, lockVars,
           traceVars
  <2>5. CASE StartImport(c)
    <3>1. confirmation' \in [Confirmations -> Confirming \cup {NotConfirming}]
      BY <2>5, <2>1, <2>2, EndsTypeOK, GoesToTypeOK DEF StartImport
    <3>2. jobStatus' \in [Uploads -> JobStatuses]
      BY <2>5, <2>2, BecomesTypeOK DEF StartImport
    <3>3. starts' \in [Uploads -> Nat]
      BY <2>5, <2>1 DEF StartImport, CsvTypeOK, Job
    <3> QED BY <2>5, <3>1, <3>2, <3>3 DEF StartImport, CsvTypeOK, lockVars
  <2>6. CASE FetchBatch(c)
    <3>1. Batch(c) \in SUBSET RowNos
      BY DEF Batch, Page, Lowest, Skipping, RowsIn
    <3>2. ASSUME NEW at \in ConfirmSteps, NEW rows \in SUBSET RowNos
          PROVE  [confirmation[c] EXCEPT !.at = at, !.rows = rows] \in Confirming
      BY <2>1 DEF Confirming
    <3>3. confirmation' \in [Confirmations -> Confirming \cup {NotConfirming}]
      BY <2>6, <3>1, <3>2 DEF FetchBatch, CsvTypeOK, ConfirmSteps
    <3> QED BY <2>6, <3>3 DEF FetchBatch, CsvTypeOK, jobVars, lockVars, traceVars
  <2>7. CASE ReadEvaluations(c)
    <3>1. [confirmation[c] EXCEPT !.at = "row", !.open = openItems] \in Confirming
      BY <2>1 DEF Confirming, ConfirmSteps, CsvTypeOK
    <3>2. confirmation' \in [Confirmations -> Confirming \cup {NotConfirming}]
      BY <2>7, <3>1 DEF ReadEvaluations, CsvTypeOK
    <3> QED BY <2>7, <3>2 DEF ReadEvaluations, CsvTypeOK, jobVars, lockVars, traceVars
  <2>8. CASE WriteItem(c)
    <3>1. confirmation' \in [Confirmations -> Confirming \cup {NotConfirming}]
      BY <2>8, <2>1, <2>2, GoesToTypeOK DEF WriteItem
    <3>2. written' \subseteq Uploads \X RowNos
      BY <2>8, <2>1 DEF WriteItem, CsvTypeOK, Job
    <3> QED BY <2>8, <3>1, <3>2 DEF WriteItem, CsvTypeOK, jobVars, lockVars
  <2>9. CASE MarkImported(c) \/ MarkSkipped(c)
    BY <2>9, <2>0, MarkRowTypeOK
       DEF MarkImported, MarkSkipped, RowStatuses, CsvTypeOK, lockVars, traceVars
  <2>10. CASE FinishJob(c)
    BY <2>10, <2>1, <2>2, BecomesTypeOK, EndsTypeOK, GoesToTypeOK
       DEF FinishJob, FinalStatus, CsvTypeOK, lockVars, traceVars
  <2> QED BY <1>3, <2>3, <2>4, <2>5, <2>6, <2>7, <2>8, <2>9, <2>10 DEF ConfirmStep
<1>4. ASSUME NEW c \in Confirmations, ConfirmationFails(c) PROVE CsvTypeOK'
  <2>1. confirmation' \in [Confirmations -> Confirming \cup {NotConfirming}]
    BY <1>4, EndsTypeOK, GoesToTypeOK DEF ConfirmationFails, Working, ConfirmSteps
  <2> QED BY <1>4, <2>1, CsvAssumption
          DEF ConfirmationFails, Mishap, CsvTypeOK, jobVars, lockVars, traceVars
<1>5. ASSUME NEW k \in Items, LockItem(k) PROVE CsvTypeOK'
  BY <1>5 DEF LockItem, CsvTypeOK, jobVars, traceVars
<1>6. CASE LockImportCycle
  BY <1>6 DEF LockImportCycle, CsvTypeOK, jobVars, traceVars
<1>7. CASE CsvRestart
  BY <1>7, CsvAssumption DEF CsvRestart, Mishap, CsvTypeOK, UploadSteps, jobVars, lockVars, traceVars
<1>8. CASE UNCHANGED csvVars
  BY <1>8 DEF csvVars, jobVars, lockVars, traceVars, CsvTypeOK
<1> QED BY <1>1, <1>2, <1>3, <1>4, <1>5, <1>6, <1>7, <1>8 DEF CsvNext

(* The columns of import_job and import_row keep their types. *)
THEOREM CsvTypeCorrect == CsvSpec => []CsvTypeOK
BY InitCsvTypeOK, StepCsvTypeOK, PTL DEF CsvSpec

-----------------------------------------------------------------------------
(* One job for a file.  A job is there as soon as something goes on with   *)
(* it, and never disappears.                                               *)

JobsAreThere ==
    /\ \A u \in Uploads : upload[u] \in {"parse", "preview"} => jobStatus[u] # "NONE"
    /\ \A c \in Confirmations : Working(c) => jobStatus[Job(c)] # "NONE"

JobInv == JobsAreThere /\ OneJobPerFile

LEMMA InitJobInv == CsvInit => JobInv
BY DEF CsvInit, JobInv, JobsAreThere, OneJobPerFile, Inserted, Working

(* While no job is inserted, OneJobPerFile stays what it is. *)
LEMMA SameInserted ==
    ASSUME OneJobPerFile, Inserted' = Inserted
    PROVE  OneJobPerFile'
BY DEF OneJobPerFile

(* A confirmation ends or goes on with the job it has. *)
KeepsJob(c) ==
    \E w : /\ confirmation' = [confirmation EXCEPT ![c] = w]
           /\ w = NotConfirming \/ w.job = Job(c)

(* What a step of a confirmation does to the jobs. *)
LEMMA ConfirmJobs ==
    ASSUME CsvTypeOK, NEW c \in Confirmations, ConfirmStep(c)
    PROVE  /\ Working(c)
           /\ \/ UNCHANGED jobStatus
              \/ \E s \in JobStatuses \ {"NONE"} : Becomes(c, s)
           /\ UNCHANGED upload
           /\ \A d \in Confirmations \ {c} : confirmation'[d] = confirmation[d]
           /\ Working(c)' => Job(c)' = Job(c)
<1>1. Working(c) /\ confirmation[c] \in Confirming
  <2>1. confirmation[c].at \in ConfirmSteps
    BY DEF ConfirmStep, ConfirmSteps, RefuseStrict, CheckCycleLock, StartImport, FetchBatch,
           ReadEvaluations, WriteItem, NoActiveEvaluation, MarkImported, MarkSkipped, FinishJob,
           NotifyImporter, FailJob
  <2> QED BY <2>1, WorkingAt
<1>2. UNCHANGED upload
  BY DEF ConfirmStep, RefuseStrict, CheckCycleLock, StartImport, FetchBatch, ReadEvaluations,
         WriteItem, NoActiveEvaluation, MarkImported, MarkSkipped, FinishJob, NotifyImporter, FailJob
<1>3. \/ UNCHANGED jobStatus
      \/ \E s \in JobStatuses \ {"NONE"} : Becomes(c, s)
  BY DEF ConfirmStep, RefuseStrict, CheckCycleLock, StartImport, FetchBatch, ReadEvaluations,
         WriteItem, NoActiveEvaluation, MarkImported, MarkSkipped, FinishJob, NotifyImporter, FailJob,
         Failed, FinalStatus, jobVars, JobStatuses
<1>4. KeepsJob(c)
  <2>1. ASSUME NEW at, GoesTo(c, at)
        PROVE  confirmation' = [confirmation EXCEPT ![c] = [confirmation[c] EXCEPT !.at = at]]
    BY <2>1 DEF GoesTo
  <2>2. CASE Ends(c)
    BY <2>2 DEF Ends, KeepsJob
  <2>3. CASE \E at \in ConfirmSteps : GoesTo(c, at)
    BY <2>1, <2>3, <1>1 DEF Confirming, Job, KeepsJob
  <2>4. CASE FetchBatch(c)
    <3>1. \E at, rows : confirmation' =
              [confirmation EXCEPT ![c] = [confirmation[c] EXCEPT !.at = at, !.rows = rows]]
      BY <2>4 DEF FetchBatch
    <3> QED BY <3>1, <1>1 DEF Confirming, Job, KeepsJob
  <2>5. CASE ReadEvaluations(c)
    <3> DEFINE w == [confirmation[c] EXCEPT !.at = "row", !.open = openItems]
    <3>1. confirmation' = [confirmation EXCEPT ![c] = w]
      BY <2>5 DEF ReadEvaluations
    <3>2. w.job = Job(c)
      BY <1>1 DEF Confirming, Job
    <3> QED BY <3>1, <3>2 DEF KeepsJob
  <2>6. ASSUME NEW s, NEW error \in BOOLEAN, MarkRow(c, s, error)
        PROVE  KeepsJob(c)
    <3>1. PICK i \in RowNos :
             confirmation' = [confirmation EXCEPT ![c] = AfterRow(confirmation[c], i, error)]
      BY <2>6 DEF MarkRow
    <3>2. AfterRow(confirmation[c], i, error).job = Job(c)
      BY <1>1, AfterRowFields DEF Job
    <3> QED BY <3>1, <3>2 DEF KeepsJob
  <2>7. RefuseStrict(c) \/ CheckCycleLock(c) \/ StartImport(c) \/ WriteItem(c) \/ NoActiveEvaluation(c)
          \/ FinishJob(c) \/ NotifyImporter(c) \/ FailJob(c)
        => Ends(c) \/ \E at \in ConfirmSteps : GoesTo(c, at)
    BY DEF RefuseStrict, CheckCycleLock, StartImport, WriteItem, NoActiveEvaluation, FinishJob,
           NotifyImporter, FailJob, LockedRow, ConfirmSteps
  <2> QED BY <2>2, <2>3, <2>4, <2>5, <2>6, <2>7 DEF ConfirmStep, MarkImported, MarkSkipped
<1>5. /\ \A d \in Confirmations \ {c} : confirmation'[d] = confirmation[d]
      /\ Working(c)' => Job(c)' = Job(c)
  BY <1>4 DEF CsvTypeOK, Working, Job, KeepsJob
<1> QED BY <1>1, <1>2, <1>3, <1>5

LEMMA StepJobInv == CsvTypeOK /\ JobInv /\ [CsvNext]_csvVars => JobInv'
<1> SUFFICES ASSUME CsvTypeOK, JobInv, [CsvNext]_csvVars PROVE JobInv'
  OBVIOUS
<1> USE DEF JobInv
<1>0. jobStatus \in [Uploads -> JobStatuses] /\ upload \in [Uploads -> UploadSteps]
  BY DEF CsvTypeOK
<1>1. ASSUME NEW u \in Uploads, CreateImportJob(u) PROVE JobInv'
  <2>1. CASE Unique(u)
    <3>1. jobStatus' = [jobStatus EXCEPT ![u] = "UPLOADED"] /\ Inserted' = Inserted \cup {u}
      BY <1>0, <1>1, <2>1 DEF CreateImportJob, Inserted
    <3>2. JobsAreThere'
      BY <1>0, <1>1, <3>1 DEF CreateImportJob, UploadMoves, JobsAreThere, Working, Job
    <3>3. \A v \in Inserted : FileOf[v] # FileOf[u] /\ ~(KeyOf[v] = KeyOf[u] /\ KeyOf[u] # NoKey)
      BY <2>1 DEF Unique, SameFile, SameKey
    <3>4. OneJobPerFile'
      BY <3>1, <3>3 DEF OneJobPerFile
    <3> QED BY <3>2, <3>4
  <2>2. CASE ~Unique(u)
    <3>1. UNCHANGED jobStatus
      BY <1>0, <1>1, <2>2 DEF CreateImportJob
    <3>2. JobsAreThere'
      BY <1>0, <1>1, <2>2, <3>1 DEF CreateImportJob, UploadMoves, JobsAreThere, Working, Job
    <3> QED BY <3>1, <3>2, SameInserted DEF Inserted
  <2> QED BY <2>1, <2>2
<1>2. ASSUME NEW u \in Uploads, LookUp(u) \/ InsertRows(u) \/ UploadFails(u) PROVE JobInv'
  <2>1. UNCHANGED <<jobStatus, confirmation>>
    BY <1>2 DEF LookUp, InsertRows, UploadFails, jobVars
  <2>2. \A v \in Uploads : upload'[v] \in {"parse", "preview"} => upload[v] \in {"parse", "preview"}
    BY <1>0, <1>2 DEF LookUp, InsertRows, UploadFails, UploadMoves
  <2> QED BY <2>1, <2>2, SameInserted DEF JobsAreThere, Working, Job, Inserted
<1>3. ASSUME NEW u \in Uploads, Preview(u) PROVE JobInv'
  <2>1. Inserted' = Inserted
    BY <1>0, <1>3 DEF Preview, UploadMoves, JobsAreThere, Inserted
  <2>2. JobsAreThere'
    BY <1>0, <1>3 DEF Preview, UploadMoves, JobsAreThere, Working, Job
  <2> QED BY <2>1, <2>2, SameInserted
<1>4. ASSUME NEW c \in Confirmations, NEW u \in Uploads, NEW strict \in BOOLEAN,
             ConfirmImport(c, u, strict)
      PROVE  JobInv'
  <2>1. UNCHANGED <<jobStatus, upload>> /\ jobStatus[u] = "PREVIEW"
    BY <1>4 DEF ConfirmImport, jobVars
  <2>2. /\ \A d \in Confirmations \ {c} : confirmation'[d] = confirmation[d]
        /\ Job(c)' = u
    BY <1>4 DEF ConfirmImport, CsvTypeOK, Job
  <2>3. JobsAreThere'
    BY <2>1, <2>2 DEF JobsAreThere, Working, Job
  <2> QED BY <2>1, <2>3, SameInserted DEF Inserted
<1>5. ASSUME NEW c \in Confirmations, ConfirmStep(c) PROVE JobInv'
  <2>1. /\ Working(c)
        /\ \/ UNCHANGED jobStatus
           \/ \E s \in JobStatuses \ {"NONE"} : Becomes(c, s)
        /\ UNCHANGED upload
        /\ \A d \in Confirmations \ {c} : confirmation'[d] = confirmation[d]
        /\ Working(c)' => Job(c)' = Job(c)
    BY <1>5, ConfirmJobs
  <2>2. \A u \in Uploads : jobStatus'[u] # "NONE" <=> jobStatus[u] # "NONE"
    BY <1>0, <2>1 DEF Becomes, JobsAreThere, Job
  <2>3. JobsAreThere'
    <3>1. \A d \in Confirmations : Working(d)' => Working(d) /\ Job(d)' = Job(d) /\ Job(d) \in Uploads
      BY <2>1 DEF Working, Job, CsvTypeOK, Confirming
    <3> QED BY <2>1, <2>2, <3>1 DEF JobsAreThere
  <2> QED BY <2>2, <2>3, SameInserted DEF Inserted
<1>6. ASSUME UNCHANGED <<jobStatus, upload>>,
             \A d \in Confirmations : Working(d)' => Working(d) /\ Job(d)' = Job(d)
      PROVE  JobInv'
  BY <1>6, SameInserted DEF JobsAreThere, Inserted
<1>7. ASSUME NEW c \in Confirmations, ConfirmationFails(c) PROVE JobInv'
  <2>1. UNCHANGED <<jobStatus, upload>> /\ Working(c)
    BY <1>7 DEF ConfirmationFails, jobVars, Working
  <2>2. Ends(c) \/ \E at \in ConfirmSteps : GoesTo(c, at)
    BY <1>7 DEF ConfirmationFails, ConfirmSteps
  <2>3. confirmation[c] \in Confirming
    BY <2>1 DEF CsvTypeOK, Working
  <2>4. \A d \in Confirmations : Working(d)' => Working(d) /\ Job(d)' = Job(d)
    BY <2>1, <2>2, <2>3 DEF Ends, GoesTo, Working, Job, CsvTypeOK, Confirming
  <2> QED BY <2>1, <2>4, <1>6
<1>8. CASE CsvRestart
  <2>1. UNCHANGED jobStatus
    BY <1>8 DEF CsvRestart, jobVars
  <2>2. \A v \in Uploads : upload'[v] \notin {"parse", "preview"}
    BY <1>8 DEF CsvRestart
  <2>3. \A d \in Confirmations : ~Working(d)'
    BY <1>8 DEF CsvRestart, Working
  <2> QED BY <2>1, <2>2, <2>3, SameInserted DEF JobsAreThere, Inserted
<1>9. CASE LockImportCycle \/ (\E k \in Items : LockItem(k)) \/ UNCHANGED csvVars
  BY <1>9, <1>6 DEF LockImportCycle, LockItem, csvVars, jobVars, Working, Job
<1> HIDE DEF JobInv
<1> QED BY <1>1, <1>2, <1>3, <1>4, <1>5, <1>7, <1>8, <1>9 DEF CsvNext, UploadStep

(* The unique constraints stand in for the look-ups two uploads make at the *)
(* same time: a file has one job and a key has one job.                     *)
THEOREM OneJobForEachFile == CsvSpec => []OneJobPerFile
<1>1. JobInv => OneJobPerFile
  BY DEF JobInv
<1> QED BY <1>1, InitCsvTypeOK, StepCsvTypeOK, InitJobInv, StepJobInv, PTL DEF CsvSpec

-----------------------------------------------------------------------------
(* What the steps of a confirmation leave in its record.                   *)

LEMMA GoesToFields ==
    ASSUME CsvTypeOK, NEW c \in Confirmations, confirmation[c] \in Confirming, NEW at, GoesTo(c, at)
    PROVE  /\ confirmation'[c].at = at
           /\ confirmation'[c].job = confirmation[c].job
           /\ confirmation'[c].rows = confirmation[c].rows
           /\ confirmation'[c].offset = confirmation[c].offset
           /\ confirmation'[c].errors = confirmation[c].errors
BY DEF CsvTypeOK, GoesTo, Confirming

LEMMA FetchFields ==
    ASSUME CsvTypeOK, NEW c \in Confirmations, confirmation[c] \in Confirming, FetchBatch(c)
    PROVE  /\ confirmation'[c].at \in {"finish", "evaluations"}
           /\ confirmation'[c].job = confirmation[c].job
           /\ confirmation'[c].rows = Batch(c)
           /\ confirmation'[c].offset = confirmation[c].offset
           /\ confirmation'[c].errors = confirmation[c].errors
<1>1. PICK at \in {"finish", "evaluations"} :
         confirmation' = [confirmation EXCEPT ![c] = [confirmation[c] EXCEPT !.at = at, !.rows = Batch(c)]]
  BY DEF FetchBatch
<1>2. confirmation'[c] = [confirmation[c] EXCEPT !.at = at, !.rows = Batch(c)]
  BY <1>1 DEF CsvTypeOK
<1> QED BY <1>2 DEF Confirming

LEMMA ReadFields ==
    ASSUME CsvTypeOK, NEW c \in Confirmations, confirmation[c] \in Confirming, ReadEvaluations(c)
    PROVE  /\ confirmation'[c].at = "row"
           /\ confirmation'[c].job = confirmation[c].job
           /\ confirmation'[c].rows = confirmation[c].rows
           /\ confirmation'[c].offset = confirmation[c].offset
           /\ confirmation'[c].errors = confirmation[c].errors
<1>1. confirmation'[c] = [confirmation[c] EXCEPT !.at = "row", !.open = openItems]
  BY DEF ReadEvaluations, CsvTypeOK
<1> QED BY <1>1 DEF Confirming

(* The steps of a confirmation, one by one, in the form the proofs use.    *)
Marking(c) == MarkImported(c) \/ MarkSkipped(c)
Ending(c) == Ends(c) /\ UNCHANGED <<rowStatus, written>>
Going(c, at) == GoesTo(c, at) /\ UNCHANGED <<rowStatus, written>>

LEMMA ConfirmKinds ==
    ASSUME NEW c \in Confirmations, ConfirmStep(c), ~Marking(c)
    PROVE  /\ UNCHANGED rowStatus
           /\ \/ Ending(c)
              \/ \E at \in {"start", "fetch", "skip", "notify"} : Going(c, at)
              \/ FetchBatch(c) /\ UNCHANGED written
              \/ ReadEvaluations(c) /\ UNCHANGED written
              \/ WriteItem(c)
BY DEF ConfirmStep, Marking, Ending, Going, RefuseStrict, CheckCycleLock, StartImport, FetchBatch,
       ReadEvaluations, WriteItem, NoActiveEvaluation, LockedRow, FinishJob, NotifyImporter, FailJob,
       jobVars, traceVars

(* What a mishap of a confirmation does. *)
LEMMA FailureKinds ==
    ASSUME NEW c \in Confirmations, ConfirmationFails(c)
    PROVE  /\ Working(c)
           /\ Ending(c) \/ \E at \in {"skip", "fail"} : Going(c, at)
BY DEF ConfirmationFails, Working, Ending, Going, jobVars, traceVars

LEMMA NextRowIsOne ==
    ASSUME NEW c \in Confirmations, NEW i \in RowNos, NEW j \in RowNos, IsNext(c, i), IsNext(c, j)
    PROVE  i = j
<1>1. RowNos \subseteq Nat
  BY CsvAssumption, FS_CardinalityType
<1> QED BY <1>1 DEF IsNext

-----------------------------------------------------------------------------
(* A row that is about to be marked as imported has been written.          *)

MarkedIsWritten ==
    \A c \in Confirmations, i \in RowNos :
        confirmation[c].at = "mark" /\ IsNext(c, i) => <<Job(c), i>> \in written

RowInv == MarkedIsWritten /\ ImportedWasWritten

LEMMA InitRowInv == CsvInit => RowInv
BY DEF CsvInit, RowInv, MarkedIsWritten, ImportedWasWritten, NotConfirming

(* A confirmation that is not about to mark a row keeps the invariant.     *)
LEMMA NotMarking ==
    ASSUME CsvTypeOK, MarkedIsWritten, NEW c \in Confirmations, NEW w, w.at # "mark",
           confirmation' = [confirmation EXCEPT ![c] = w], written \subseteq written'
    PROVE  MarkedIsWritten'
<1>1. confirmation'[c].at # "mark" /\ \A d \in Confirmations \ {c} : confirmation'[d] = confirmation[d]
  BY DEF CsvTypeOK
<1> QED BY <1>1 DEF MarkedIsWritten, IsNext, Job

LEMMA EndsOrGoesNotMarking ==
    ASSUME CsvTypeOK, MarkedIsWritten, NEW c \in Confirmations, Working(c),
           Ending(c) \/ \E at \in ConfirmSteps \ {"mark"} : Going(c, at)
    PROVE  MarkedIsWritten'
<1>1. confirmation[c] \in Confirming /\ written \subseteq written'
  BY DEF CsvTypeOK, Working, Ending, Going
<1>2. CASE Ending(c)
  BY <1>1, <1>2, NotMarking DEF Ending, Ends, NotConfirming
<1>3. ASSUME NEW at \in ConfirmSteps \ {"mark"}, Going(c, at) PROVE MarkedIsWritten'
  <2>1. [confirmation[c] EXCEPT !.at = at].at # "mark"
    BY <1>1 DEF Confirming
  <2> QED BY <1>1, <1>3, <2>1, NotMarking DEF Going, GoesTo
<1> QED BY <1>2, <1>3

LEMMA StepRowInv == CsvTypeOK /\ RowInv /\ [CsvNext]_csvVars => RowInv'
<1> SUFFICES ASSUME CsvTypeOK, RowInv, [CsvNext]_csvVars PROVE RowInv'
  OBVIOUS
<1> USE DEF RowInv
<1>1. ASSUME NEW u \in Uploads, UploadStep(u) \/ UploadFails(u) PROVE RowInv'
  <2>1. UNCHANGED <<confirmation, written>>
    BY <1>1 DEF UploadStep, UploadFails, LookUp, CreateImportJob, InsertRows, Preview, traceVars
  <2>2. \A v \in Uploads, i \in RowNos : rowStatus'[v][i] = "IMPORTED" => rowStatus[v][i] = "IMPORTED"
    BY <1>1 DEF UploadStep, UploadFails, LookUp, CreateImportJob, InsertRows, Preview, jobVars, CsvTypeOK
  <2> QED BY <2>1, <2>2 DEF MarkedIsWritten, ImportedWasWritten, IsNext, Job
<1>2. ASSUME NEW c \in Confirmations, NEW u \in Uploads, NEW strict \in BOOLEAN,
             ConfirmImport(c, u, strict)
      PROVE  RowInv'
  <2>1. UNCHANGED <<rowStatus, written>>
    BY <1>2 DEF ConfirmImport, jobVars, traceVars
  <2>2. MarkedIsWritten'
    <3> DEFINE w == [at |-> IF strict /\ ErrorRows(u) > 0 THEN "refuse" ELSE "check", job |-> u,
                     strict |-> strict, offset |-> 0, rows |-> {}, open |-> {}, errors |-> FALSE]
    <3>1. w.at # "mark"
      OBVIOUS
    <3>2. confirmation' = [confirmation EXCEPT ![c] = w]
      BY <1>2 DEF ConfirmImport
    <3> HIDE DEF w
    <3> QED BY <2>1, <3>1, <3>2, NotMarking
  <2> QED BY <2>1, <2>2 DEF ImportedWasWritten
<1>3. ASSUME NEW c \in Confirmations, ConfirmStep(c), ~Marking(c) PROVE RowInv'
  <2>0. Working(c) /\ confirmation[c] \in Confirming /\ Job(c) \in Uploads
    BY <1>3, ConfirmJobs DEF CsvTypeOK, Working, Confirming, Job
  <2>1. UNCHANGED rowStatus /\ written \subseteq written'
    BY <1>3, ConfirmKinds DEF Ending, Going, WriteItem
  <2>2. CASE Ending(c) \/ \E at \in {"start", "fetch", "skip", "notify"} : Going(c, at)
    BY <2>0, <2>1, <2>2, EndsOrGoesNotMarking DEF ConfirmSteps, ImportedWasWritten
  <2>3. CASE FetchBatch(c) \/ ReadEvaluations(c)
    <3>1. /\ confirmation'[c].at # "mark"
          /\ \A d \in Confirmations \ {c} : confirmation'[d] = confirmation[d]
      BY <1>3, <2>0, <2>3, FetchFields, ReadFields, ConfirmJobs
    <3> QED BY <2>1, <3>1 DEF MarkedIsWritten, IsNext, Job, ImportedWasWritten
  <2>4. CASE WriteItem(c)
    <3>1. PICK i \in RowNos : IsNext(c, i) /\ written' = written \cup {<<Job(c), i>>}
      BY <2>4 DEF WriteItem, Job
    <3>2. \A j \in RowNos : IsNext(c, j)' => j = i
      BY <2>0, <2>4, <3>1, NextRowIsOne, GoesToFields DEF WriteItem, IsNext
    <3>3. Job(c)' = Job(c)
      BY <2>0, <2>4, GoesToFields DEF WriteItem, Job
    <3>4. \A d \in Confirmations \ {c} : confirmation'[d] = confirmation[d]
      BY <1>3, ConfirmJobs
    <3> QED BY <2>1, <3>1, <3>2, <3>3, <3>4 DEF MarkedIsWritten, IsNext, Job, ImportedWasWritten
  <2> QED BY <1>3, <2>2, <2>3, <2>4, ConfirmKinds
<1>4. ASSUME NEW c \in Confirmations, Marking(c) PROVE RowInv'
  <2>0. Working(c) /\ confirmation[c] \in Confirming /\ Job(c) \in Uploads
    BY <1>4, ConfirmJobs DEF Marking, ConfirmStep, CsvTypeOK, Working, Confirming, Job
  <2>1. PICK i \in RowNos, s \in {"IMPORTED", "SKIPPED"}, error \in BOOLEAN :
           /\ IsNext(c, i) /\ rowStatus' = [rowStatus EXCEPT ![Job(c)][i] = s]
           /\ confirmation' = [confirmation EXCEPT ![c] = AfterRow(confirmation[c], i, error)]
           /\ s = "IMPORTED" => confirmation[c].at = "mark"
    BY <1>4 DEF Marking, MarkImported, MarkSkipped, MarkRow, Job
  <2>2. UNCHANGED written
    BY <1>4 DEF Marking, MarkImported, MarkSkipped, traceVars
  <2>3. AfterRow(confirmation[c], i, error).at # "mark"
    BY <2>0, AfterRowFields
  <2>4. MarkedIsWritten'
    BY <2>1, <2>2, <2>3, NotMarking
  <2>5. s = "IMPORTED" => <<Job(c), i>> \in written
    BY <2>1 DEF MarkedIsWritten
  <2>6. ImportedWasWritten'
    BY <2>0, <2>1, <2>2, <2>5 DEF ImportedWasWritten, CsvTypeOK
  <2> QED BY <2>4, <2>6
<1>5. ASSUME NEW c \in Confirmations, ConfirmationFails(c) PROVE RowInv'
  <2>1. MarkedIsWritten'
    BY <1>5, FailureKinds, EndsOrGoesNotMarking DEF ConfirmSteps
  <2> QED BY <1>5, <2>1 DEF ConfirmationFails, jobVars, traceVars, ImportedWasWritten
<1>6. CASE CsvRestart
  <2>1. UNCHANGED <<rowStatus, written>> /\ \A c \in Confirmations : confirmation'[c].at = "idle"
    BY <1>6 DEF CsvRestart, jobVars, traceVars, NotConfirming
  <2> QED BY <2>1 DEF MarkedIsWritten, ImportedWasWritten
<1>7. CASE LockImportCycle \/ (\E k \in Items : LockItem(k)) \/ UNCHANGED csvVars
  BY <1>7 DEF LockImportCycle, LockItem, csvVars, jobVars, traceVars, MarkedIsWritten, IsNext, Job,
              ImportedWasWritten
<1> HIDE DEF RowInv
<1> QED BY <1>1, <1>2, <1>3, <1>4, <1>5, <1>6, <1>7 DEF CsvNext

(* IMPORTED is never said of a row whose value did not reach its item,     *)
(* although nothing runs in a transaction.                                 *)
THEOREM ImportedRowsWereWritten == CsvSpec => []ImportedWasWritten
<1>1. RowInv => ImportedWasWritten
  BY DEF RowInv
<1> QED BY <1>1, InitCsvTypeOK, StepCsvTypeOK, InitRowInv, StepRowInv, PTL DEF CsvSpec

-----------------------------------------------------------------------------
(* Only the first row of an item is ever valid, taken into a batch and     *)
(* written.                                                                *)

FirstRows ==
    /\ \A u \in Uploads, i \in RowNos :
          rowStatus[u][i] \in {"VALID", "IMPORTED", "SKIPPED"} => FirstOfItem(i)
    /\ \A c \in Confirmations : Working(c) => \A i \in confirmation[c].rows : FirstOfItem(i)
    /\ \A u \in Uploads, i \in RowNos : <<u, i>> \in written => FirstOfItem(i)

LEMMA InitFirstRows == CsvInit => FirstRows
BY DEF CsvInit, FirstRows, Working

LEMMA StepFirstRows == CsvTypeOK /\ FirstRows /\ [CsvNext]_csvVars => FirstRows'
<1> SUFFICES ASSUME CsvTypeOK, FirstRows, [CsvNext]_csvVars PROVE FirstRows'
  OBVIOUS
<1>0. ASSUME UNCHANGED written,
             \A u \in Uploads, i \in RowNos :
                rowStatus'[u][i] \in {"VALID", "IMPORTED", "SKIPPED"} => FirstOfItem(i),
             \A c \in Confirmations : Working(c)' => \A i \in confirmation'[c].rows : FirstOfItem(i)
      PROVE  FirstRows'
  BY <1>0 DEF FirstRows, FirstOfItem
<1>1. ASSUME NEW u \in Uploads, UploadStep(u) \/ UploadFails(u) PROVE FirstRows'
  <2>1. UNCHANGED <<confirmation, written>>
    BY <1>1 DEF UploadStep, UploadFails, LookUp, CreateImportJob, InsertRows, Preview, traceVars
  <2>2. CASE UNCHANGED rowStatus
    BY <2>1, <2>2, <1>0 DEF FirstRows, Working
  <2>3. ASSUME NEW n \in RowNos, NEW valid \in SUBSET {i \in 1..n : FirstOfItem(i)},
               rowStatus' = [rowStatus EXCEPT ![u] = [i \in RowNos |->
                  IF i > n THEN "NONE" ELSE IF i \in valid THEN "VALID" ELSE "INVALID"]]
        PROVE  FirstRows'
    <3>1. \A i \in RowNos : rowStatus'[u][i] \in {"VALID", "IMPORTED", "SKIPPED"} => i \in valid
      BY <2>3 DEF CsvTypeOK
    <3>2. \A v \in Uploads \ {u} : rowStatus'[v] = rowStatus[v]
      BY <2>3 DEF CsvTypeOK
    <3>3. \A v \in Uploads, i \in RowNos :
             rowStatus'[v][i] \in {"VALID", "IMPORTED", "SKIPPED"} => FirstOfItem(i)
      BY <3>1, <3>2 DEF FirstRows
    <3> QED BY <2>1, <3>3, <1>0 DEF FirstRows, Working
  <2>4. UNCHANGED rowStatus \/ InsertRows(u)
    BY <1>1 DEF UploadStep, UploadFails, LookUp, CreateImportJob, Preview, jobVars
  <2> QED BY <2>2, <2>3, <2>4 DEF InsertRows, jobVars
<1>2. ASSUME NEW c \in Confirmations, NEW u \in Uploads, NEW strict \in BOOLEAN,
             ConfirmImport(c, u, strict)
      PROVE  FirstRows'
  <2>1. UNCHANGED <<rowStatus, written>>
    BY <1>2 DEF ConfirmImport, jobVars, traceVars
  <2>2. confirmation'[c].rows = {} /\ \A d \in Confirmations \ {c} : confirmation'[d] = confirmation[d]
    BY <1>2 DEF ConfirmImport, CsvTypeOK
  <2> QED BY <1>0, <2>1, <2>2 DEF FirstRows, Working
<1>3. ASSUME NEW c \in Confirmations, Working(c), UNCHANGED rowStatus,
             \A d \in Confirmations \ {c} : confirmation'[d] = confirmation[d],
             Working(c)' => confirmation'[c].rows \subseteq confirmation[c].rows,
             \A u \in Uploads, i \in RowNos :
                <<u, i>> \in written' => <<u, i>> \in written \/ i \in confirmation[c].rows
      PROVE  FirstRows'
  BY <1>3 DEF FirstRows, Working, FirstOfItem
<1>4. ASSUME NEW c \in Confirmations, ConfirmStep(c), ~Marking(c) PROVE FirstRows'
  <2>0. /\ Working(c) /\ confirmation[c] \in Confirming /\ Job(c) \in Uploads /\ UNCHANGED rowStatus
        /\ \A d \in Confirmations \ {c} : confirmation'[d] = confirmation[d]
    BY <1>4, ConfirmJobs, ConfirmKinds DEF CsvTypeOK, Working, Confirming, Job
  <2>1. CASE Ending(c)
    BY <2>0, <2>1, <1>3 DEF Ending, Ends, Working, CsvTypeOK
  <2>2. CASE \E at \in {"start", "fetch", "skip", "notify"} : Going(c, at)
    BY <2>0, <2>2, <1>3, GoesToFields DEF Going
  <2>3. CASE ReadEvaluations(c) /\ UNCHANGED written
    BY <2>0, <2>3, <1>3, ReadFields
  <2>4. CASE WriteItem(c)
    <3>1. \A u \in Uploads, i \in RowNos :
             <<u, i>> \in written' => <<u, i>> \in written \/ i \in confirmation[c].rows
      BY <2>4 DEF WriteItem, IsNext
    <3>2. confirmation'[c].rows = confirmation[c].rows
      BY <2>0, <2>4, GoesToFields DEF WriteItem
    <3> QED BY <2>0, <3>1, <3>2, <1>3
  <2>5. CASE FetchBatch(c) /\ UNCHANGED written
    <3>1. \A i \in Batch(c) : i \in RowNos /\ rowStatus[Job(c)][i] = "VALID"
      BY DEF Batch, Page, Lowest, Skipping, RowsIn, Job
    <3>2. \A i \in confirmation'[c].rows : FirstOfItem(i)
      BY <2>0, <2>5, <3>1, FetchFields DEF FirstRows
    <3> QED BY <2>0, <2>5, <3>2, <1>0 DEF FirstRows, Working
  <2> QED BY <1>4, <2>1, <2>2, <2>3, <2>4, <2>5, ConfirmKinds
<1>5. ASSUME NEW c \in Confirmations, Marking(c) PROVE FirstRows'
  <2>0. /\ Working(c) /\ confirmation[c] \in Confirming /\ Job(c) \in Uploads
        /\ \A d \in Confirmations \ {c} : confirmation'[d] = confirmation[d]
    BY <1>5, ConfirmJobs DEF Marking, ConfirmStep, CsvTypeOK, Working, Confirming, Job
  <2>1. PICK i \in RowNos, s \in {"IMPORTED", "SKIPPED"}, error \in BOOLEAN :
           /\ IsNext(c, i) /\ rowStatus' = [rowStatus EXCEPT ![Job(c)][i] = s]
           /\ confirmation' = [confirmation EXCEPT ![c] = AfterRow(confirmation[c], i, error)]
    BY <1>5 DEF Marking, MarkImported, MarkSkipped, MarkRow, Job
  <2>2. UNCHANGED written
    BY <1>5 DEF Marking, MarkImported, MarkSkipped, traceVars
  <2>3. confirmation'[c].rows \subseteq confirmation[c].rows
    BY <2>0, <2>1, AfterRowFields DEF CsvTypeOK
  <2>4. FirstOfItem(i)
    BY <2>0, <2>1 DEF IsNext, FirstRows
  <2>5. \A u \in Uploads, j \in RowNos :
           rowStatus'[u][j] \in {"VALID", "IMPORTED", "SKIPPED"} => FirstOfItem(j)
    BY <2>0, <2>1, <2>4 DEF FirstRows, CsvTypeOK
  <2> QED BY <2>0, <2>2, <2>3, <2>5, <1>0 DEF FirstRows, Working
<1>6. ASSUME NEW c \in Confirmations, ConfirmationFails(c) PROVE FirstRows'
  <2>1. Working(c) /\ (Ending(c) \/ \E at \in {"skip", "fail"} : Going(c, at))
    BY <1>6, FailureKinds
  <2>2. confirmation[c] \in Confirming
    BY <2>1 DEF CsvTypeOK, Working
  <2>3. /\ UNCHANGED <<rowStatus, written>>
        /\ \A d \in Confirmations \ {c} : confirmation'[d] = confirmation[d]
    BY <2>1 DEF Ending, Going, Ends, GoesTo, CsvTypeOK
  <2>4. Working(c)' => confirmation'[c].rows \subseteq confirmation[c].rows
    BY <2>1, <2>2, GoesToFields DEF Ending, Ends, Going, Working, CsvTypeOK
  <2> QED BY <2>1, <2>3, <2>4, <1>3
<1>7. CASE CsvRestart
  <2>1. UNCHANGED <<rowStatus, written>> /\ \A c \in Confirmations : ~Working(c)'
    BY <1>7 DEF CsvRestart, jobVars, traceVars, Working
  <2> QED BY <2>1, <1>0 DEF FirstRows
<1>8. CASE LockImportCycle \/ (\E k \in Items : LockItem(k)) \/ UNCHANGED csvVars
  BY <1>8, <1>0 DEF LockImportCycle, LockItem, csvVars, jobVars, traceVars, FirstRows, Working
<1> QED BY <1>1, <1>2, <1>4, <1>5, <1>6, <1>7, <1>8 DEF CsvNext

(* No two rows of a file ever write the same item, whoever imports them    *)
(* and however often.                                                      *)
THEOREM EachItemFromOneRow == CsvSpec => []ItemWrittenByOneRow
<1>1. FirstRows => ItemWrittenByOneRow
  <2> SUFFICES ASSUME FirstRows, NEW u \in Uploads, NEW i \in RowNos, NEW j \in RowNos,
                      {<<u, i>>, <<u, j>>} \subseteq written, ItemOf[i] = ItemOf[j]
               PROVE  i = j
    BY DEF ItemWrittenByOneRow
  <2>1. FirstOfItem(i) /\ FirstOfItem(j)
    BY DEF FirstRows
  <2>2. ~(i < j) /\ ~(j < i)
    BY <2>1 DEF FirstOfItem
  <2>3. i \in Nat /\ j \in Nat
    BY CsvAssumption, FS_CardinalityType
  <2> QED BY <2>2, <2>3
<1> QED BY <1>1, InitCsvTypeOK, StepCsvTypeOK, InitFirstRows, StepFirstRows, PTL DEF CsvSpec

-----------------------------------------------------------------------------
(* What a job that was started once says of its rows.  Until it is started *)
(* nobody runs on it and none of its rows is skipped; once it was started  *)
(* one confirmation runs on it, which knows of every row it has skipped,   *)
(* and which has nothing left to do but to notify when the job says        *)
(* COMPLETED.                                                              *)

RunningSteps == {"fetch", "evaluations", "row", "mark", "skip", "finish", "notify", "fail"}
Running(c, u) == confirmation[c].at \in RunningSteps /\ Job(c) = u
HasSkipped(u) == \E i \in RowNos : rowStatus[u][i] = "SKIPPED"

NeverStarted(u) ==
    starts[u] = 0 =>
        /\ jobStatus[u] # "COMPLETED" /\ ~HasSkipped(u)
        /\ \A c \in Confirmations : ~Running(c, u)
StartedOnce(u) ==
    starts[u] = 1 =>
        /\ \A c, d \in Confirmations : Running(c, u) /\ Running(d, u) => c = d
        /\ HasSkipped(u) => /\ jobStatus[u] # "COMPLETED"
                            /\ \A c \in Confirmations : Running(c, u) => confirmation[c].errors
        /\ jobStatus[u] = "COMPLETED" =>
              \A c \in Confirmations : Running(c, u) => confirmation[c].at \in {"notify", "fail"}

SkipInv == \A u \in Uploads : NeverStarted(u) /\ StartedOnce(u)

LEMMA InitSkipInv == CsvInit => SkipInv
BY DEF CsvInit, SkipInv, NeverStarted, StartedOnce, HasSkipped, Running, RunningSteps, NotConfirming

(* Steps that complete no job, skip no row, and let no confirmation run    *)
(* that did not.                                                           *)
LEMMA NoMoreSkipped ==
    ASSUME SkipInv, UNCHANGED starts,
           \A u \in Uploads : jobStatus'[u] = "COMPLETED" => jobStatus[u] = "COMPLETED",
           \A u \in Uploads : HasSkipped(u)' => HasSkipped(u),
           \A c \in Confirmations, u \in Uploads : Running(c, u)' =>
              /\ Running(c, u) /\ confirmation'[c].errors = confirmation[c].errors
              /\ confirmation[c].at \in {"notify", "fail"} => confirmation'[c].at \in {"notify", "fail"}
    PROVE  SkipInv'
<1> SUFFICES ASSUME NEW u \in Uploads PROVE (NeverStarted(u) /\ StartedOnce(u))'
  BY DEF SkipInv
<1>1. NeverStarted(u) /\ StartedOnce(u)
  BY DEF SkipInv
<1>2. NeverStarted(u)'
  BY <1>1 DEF NeverStarted
<1>3. StartedOnce(u)'
  BY <1>1 DEF StartedOnce
<1> QED BY <1>2, <1>3

(* The confirmation c alone changes and goes from one running step to      *)
(* another, or ends.                                                       *)
LEMMA RunsOn ==
    ASSUME CsvTypeOK, NEW c \in Confirmations, confirmation[c] \in Confirming,
           confirmation[c].at \in RunningSteps,
           \A d \in Confirmations \ {c} : confirmation'[d] = confirmation[d],
           \/ confirmation'[c] = NotConfirming
           \/ /\ confirmation'[c].job = confirmation[c].job
              /\ confirmation'[c].errors = confirmation[c].errors
              /\ confirmation[c].at \in {"notify", "fail"} => confirmation'[c].at \in {"notify", "fail"}
    PROVE  \A d \in Confirmations, u \in Uploads : Running(d, u)' =>
              /\ Running(d, u) /\ confirmation'[d].errors = confirmation[d].errors
              /\ confirmation[d].at \in {"notify", "fail"} => confirmation'[d].at \in {"notify", "fail"}
BY DEF Running, RunningSteps, Job, NotConfirming

LEMMA StepSkipInv == CsvTypeOK /\ SkipInv /\ [CsvNext]_csvVars => SkipInv'
<1> SUFFICES ASSUME CsvTypeOK, SkipInv, [CsvNext]_csvVars PROVE SkipInv'
  OBVIOUS
<1>1. ASSUME NEW u \in Uploads, UploadStep(u) \/ UploadFails(u) PROVE SkipInv'
  <2>1. UNCHANGED <<confirmation, starts>>
    BY <1>1 DEF UploadStep, UploadFails, LookUp, CreateImportJob, InsertRows, Preview, traceVars
  <2>2. \A v \in Uploads : jobStatus'[v] = "COMPLETED" => jobStatus[v] = "COMPLETED"
    BY <1>1 DEF UploadStep, UploadFails, LookUp, CreateImportJob, InsertRows, Preview, jobVars, CsvTypeOK
  <2>3. \A v \in Uploads, i \in RowNos : rowStatus'[v][i] = "SKIPPED" => rowStatus[v][i] = "SKIPPED"
    BY <1>1 DEF UploadStep, UploadFails, LookUp, CreateImportJob, InsertRows, Preview, jobVars, CsvTypeOK
  <2> QED BY <2>1, <2>2, <2>3, NoMoreSkipped DEF HasSkipped, Running, Job
<1>2. ASSUME NEW c \in Confirmations, NEW u \in Uploads, NEW strict \in BOOLEAN,
             ConfirmImport(c, u, strict)
      PROVE  SkipInv'
  <2>1. UNCHANGED <<jobStatus, rowStatus, starts>>
    BY <1>2 DEF ConfirmImport, jobVars, traceVars
  <2>2. /\ confirmation'[c].at \in {"refuse", "check"}
        /\ \A d \in Confirmations \ {c} : confirmation'[d] = confirmation[d]
    BY <1>2 DEF ConfirmImport, CsvTypeOK
  <2> QED BY <2>1, <2>2, NoMoreSkipped DEF HasSkipped, Running, RunningSteps, Job
<1>3. ASSUME NEW c \in Confirmations, RefuseStrict(c) \/ CheckCycleLock(c) PROVE SkipInv'
  <2>0. /\ confirmation[c] \in Confirming /\ Job(c) \in Uploads
        /\ \A d \in Confirmations \ {c} : confirmation'[d] = confirmation[d]
    BY <1>3, ConfirmJobs DEF ConfirmStep, CsvTypeOK, Working, Confirming, Job
  <2>1. UNCHANGED <<rowStatus, starts>>
        /\ \A u \in Uploads : jobStatus'[u] = "COMPLETED" => jobStatus[u] = "COMPLETED"
    BY <1>3, <2>0 DEF RefuseStrict, CheckCycleLock, Becomes, Job, jobVars, traceVars, CsvTypeOK
  <2>2. confirmation'[c].at \notin RunningSteps
    BY <1>3, <2>0, GoesToFields
       DEF RefuseStrict, CheckCycleLock, Ends, NotConfirming, RunningSteps, CsvTypeOK
  <2> QED BY <2>0, <2>1, <2>2, NoMoreSkipped DEF HasSkipped, Running, Job
<1>4. ASSUME NEW c \in Confirmations, StartImport(c) PROVE SkipInv'
  <2>0. /\ confirmation[c] \in Confirming /\ Job(c) \in Uploads
        /\ \A d \in Confirmations \ {c} : confirmation'[d] = confirmation[d]
    BY <1>4, ConfirmJobs DEF ConfirmStep, CsvTypeOK, Working, Confirming, Job
  <2>1. /\ UNCHANGED rowStatus /\ starts' = [starts EXCEPT ![Job(c)] = @ + 1]
        /\ \/ jobStatus' = [jobStatus EXCEPT ![Job(c)] = "COMPLETED"] /\ confirmation'[c] = NotConfirming
           \/ /\ jobStatus' = [jobStatus EXCEPT ![Job(c)] = "IMPORTING"]
              /\ confirmation'[c].job = Job(c)
    BY <1>4, <2>0, GoesToFields DEF StartImport, Becomes, Ends, Job, CsvTypeOK
  <2>2. ASSUME NEW u \in Uploads, u # Job(c) PROVE (NeverStarted(u) /\ StartedOnce(u))'
    <3>1. starts'[u] = starts[u] /\ jobStatus'[u] = jobStatus[u] /\ rowStatus'[u] = rowStatus[u]
      BY <2>0, <2>1, <2>2 DEF CsvTypeOK
    <3>2. \A d \in Confirmations : Running(d, u)' => d # c
      BY <2>1, <2>2 DEF Running, RunningSteps, Job, NotConfirming
    <3>3. \A d \in Confirmations \ {c} : confirmation'[d] = confirmation[d] /\ (Running(d, u)' <=> Running(d, u))
      BY <2>0 DEF Running, Job
    <3>4. NeverStarted(u) /\ StartedOnce(u)
      BY DEF SkipInv
    <3>5. NeverStarted(u)'
      BY <3>1, <3>2, <3>3, <3>4 DEF NeverStarted, HasSkipped
    <3>6. StartedOnce(u)'
      BY <3>1, <3>2, <3>3, <3>4 DEF StartedOnce, HasSkipped
    <3> QED BY <3>5, <3>6
  <2>3. ASSUME NEW u \in Uploads, u = Job(c) PROVE (NeverStarted(u) /\ StartedOnce(u))'
    <3>0. starts[u] \in Nat /\ starts'[u] = starts[u] + 1 /\ rowStatus'[u] = rowStatus[u]
      BY <2>0, <2>1, <2>3 DEF CsvTypeOK
    <3>1. starts'[u] = 1 => ~HasSkipped(u) /\ \A d \in Confirmations : ~Running(d, u)
      BY <3>0 DEF SkipInv, NeverStarted
    <3>2. starts'[u] = 1 => ~HasSkipped(u)'
      BY <3>0, <3>1 DEF HasSkipped
    <3>3. starts'[u] = 1 => \A d \in Confirmations : Running(d, u)' => d = c
      BY <2>0, <3>1 DEF Running, Job
    <3>4. jobStatus'[u] = "COMPLETED" => confirmation'[c].at \notin RunningSteps
      BY <2>0, <2>1, <2>3 DEF CsvTypeOK, NotConfirming, RunningSteps
    <3>5. NeverStarted(u)'
      BY <3>0 DEF NeverStarted
    <3>6. StartedOnce(u)'
      BY <3>2, <3>3, <3>4 DEF StartedOnce, Running
    <3> QED BY <3>5, <3>6
  <2> QED BY <2>2, <2>3 DEF SkipInv
<1>5. ASSUME NEW c \in Confirmations, ConfirmStep(c),
             FetchBatch(c) \/ ReadEvaluations(c) \/ WriteItem(c) \/ NoActiveEvaluation(c)
               \/ NotifyImporter(c) \/ FailJob(c)
      PROVE  SkipInv'
  <2>0. /\ confirmation[c] \in Confirming /\ Job(c) \in Uploads /\ confirmation[c].at \in RunningSteps
        /\ \A d \in Confirmations \ {c} : confirmation'[d] = confirmation[d]
    BY <1>5, ConfirmJobs DEF CsvTypeOK, Working, Confirming, Job, FetchBatch, ReadEvaluations, WriteItem,
       NoActiveEvaluation, NotifyImporter, FailJob, RunningSteps
  <2>1. UNCHANGED <<rowStatus, starts>>
        /\ \A u \in Uploads : jobStatus'[u] = "COMPLETED" => jobStatus[u] = "COMPLETED"
    BY <1>5, <2>0 DEF FetchBatch, ReadEvaluations, WriteItem, NoActiveEvaluation, NotifyImporter, FailJob,
       Failed, Becomes, Job, jobVars, traceVars, CsvTypeOK
  <2>2. \/ confirmation'[c] = NotConfirming
        \/ /\ confirmation'[c].job = confirmation[c].job
           /\ confirmation'[c].errors = confirmation[c].errors
           /\ confirmation[c].at \notin {"notify", "fail"}
    <3>1. CASE FetchBatch(c) \/ ReadEvaluations(c)
      BY <2>0, <3>1, FetchFields, ReadFields DEF FetchBatch, ReadEvaluations
    <3>2. CASE WriteItem(c) \/ NoActiveEvaluation(c)
      BY <2>0, <3>2, GoesToFields DEF WriteItem, NoActiveEvaluation
    <3>3. CASE NotifyImporter(c) \/ FailJob(c)
      BY <3>3 DEF NotifyImporter, FailJob, Ends, CsvTypeOK
    <3> QED BY <1>5, <3>1, <3>2, <3>3
  <2>3. \A d \in Confirmations, u \in Uploads : Running(d, u)' =>
              /\ Running(d, u) /\ confirmation'[d].errors = confirmation[d].errors
              /\ confirmation[d].at \in {"notify", "fail"} => confirmation'[d].at \in {"notify", "fail"}
    BY <2>0, <2>2, RunsOn
  <2> QED BY <2>1, <2>3, NoMoreSkipped DEF HasSkipped
<1>6. ASSUME NEW c \in Confirmations, Marking(c) PROVE SkipInv'
  <2>0. /\ confirmation[c] \in Confirming /\ Job(c) \in Uploads
        /\ confirmation[c].at \in {"mark", "skip"}
        /\ \A d \in Confirmations \ {c} : confirmation'[d] = confirmation[d]
    BY <1>6, ConfirmJobs
       DEF Marking, MarkImported, MarkSkipped, ConfirmStep, CsvTypeOK, Working, Confirming, Job
  <2>1. PICK i \in RowNos, s \in {"IMPORTED", "SKIPPED"}, error \in BOOLEAN :
           /\ rowStatus' = [rowStatus EXCEPT ![Job(c)][i] = s]
           /\ confirmation' = [confirmation EXCEPT ![c] = AfterRow(confirmation[c], i, error)]
           /\ s = "SKIPPED" => error
    BY <1>6 DEF Marking, MarkImported, MarkSkipped, MarkRow, Job
  <2>2. UNCHANGED <<jobStatus, starts>>
    BY <1>6 DEF Marking, MarkImported, MarkSkipped, traceVars
  <2>3. /\ confirmation'[c].job = Job(c) /\ confirmation'[c].errors = (confirmation[c].errors \/ error)
        /\ confirmation'[c].at \in RunningSteps
    BY <2>0, <2>1, AfterRowFields DEF CsvTypeOK, RunningSteps, Job
  <2>4. SUFFICES ASSUME NEW u \in Uploads PROVE NeverStarted(u)' /\ StartedOnce(u)'
    BY DEF SkipInv
  <2>5. NeverStarted(u) /\ StartedOnce(u)
    BY DEF SkipInv
  <2>6. \A d \in Confirmations : Running(d, u)' <=> Running(d, u)
    BY <2>0, <2>3 DEF Running, Job, RunningSteps
  <2>7. CASE u # Job(c)
    <3>1. rowStatus'[u] = rowStatus[u] /\ \A d \in Confirmations : Running(d, u) => confirmation'[d] = confirmation[d]
      BY <2>0, <2>1, <2>7 DEF CsvTypeOK, Running
    <3>2. NeverStarted(u)'
      BY <2>2, <2>5, <2>6, <3>1 DEF NeverStarted, HasSkipped
    <3>3. StartedOnce(u)'
      BY <2>2, <2>5, <2>6, <3>1 DEF StartedOnce, HasSkipped
    <3> QED BY <3>2, <3>3
  <2>8. CASE u = Job(c)
    <3>1. Running(c, u)
      BY <2>0, <2>8 DEF Running, RunningSteps
    <3>2. starts[u] # 0
      BY <2>5, <3>1 DEF NeverStarted
    <3>3. starts[u] = 1 => jobStatus[u] # "COMPLETED" /\ \A d \in Confirmations : Running(d, u) => d = c
      BY <2>0, <2>5, <3>1 DEF StartedOnce
    <3>4. starts[u] = 1 /\ HasSkipped(u)' => confirmation'[c].errors
      <4>1. HasSkipped(u)' => HasSkipped(u) \/ s = "SKIPPED"
        BY <2>0, <2>1, <2>8 DEF HasSkipped, CsvTypeOK
      <4>2. starts[u] = 1 /\ HasSkipped(u) => confirmation[c].errors
        BY <2>5, <3>1 DEF StartedOnce
      <4> QED BY <2>1, <2>3, <4>1, <4>2
    <3>5. NeverStarted(u)'
      BY <2>2, <3>2 DEF NeverStarted
    <3>6. StartedOnce(u)'
      BY <2>2, <2>6, <3>3, <3>4 DEF StartedOnce
    <3> QED BY <3>5, <3>6
  <2> QED BY <2>7, <2>8
<1>7. ASSUME NEW c \in Confirmations, FinishJob(c) PROVE SkipInv'
  <2>0. /\ confirmation[c] \in Confirming /\ Job(c) \in Uploads /\ confirmation[c].at = "finish"
        /\ \A d \in Confirmations \ {c} : confirmation'[d] = confirmation[d]
    BY <1>7, ConfirmJobs DEF FinishJob, ConfirmStep, CsvTypeOK, Working, Confirming, Job
  <2>1. /\ UNCHANGED <<rowStatus, starts>>
        /\ jobStatus' = [jobStatus EXCEPT ![Job(c)] = FinalStatus(c)]
        /\ FinalStatus(c) = "COMPLETED" => ~confirmation[c].errors
        /\ \/ confirmation'[c] = NotConfirming
           \/ /\ confirmation'[c].at = "notify" /\ confirmation'[c].job = Job(c)
              /\ confirmation'[c].errors = confirmation[c].errors
    BY <1>7, <2>0, GoesToFields DEF FinishJob, FinalStatus, Becomes, Ends, Job, CsvTypeOK, traceVars
  <2>4. SUFFICES ASSUME NEW u \in Uploads PROVE NeverStarted(u)' /\ StartedOnce(u)'
    BY DEF SkipInv
  <2>5. NeverStarted(u) /\ StartedOnce(u)
    BY DEF SkipInv
  <2>6. /\ \A d \in Confirmations : Running(d, u)' => Running(d, u)
        /\ \A d \in Confirmations : Running(d, u)' => confirmation'[d].errors = confirmation[d].errors
    BY <2>0, <2>1 DEF Running, Job, RunningSteps, NotConfirming
  <2>7. CASE u # Job(c)
    <3>1. jobStatus'[u] = jobStatus[u] /\ \A d \in Confirmations : Running(d, u) => confirmation'[d] = confirmation[d]
      BY <2>0, <2>1, <2>7 DEF CsvTypeOK, Running
    <3>2. NeverStarted(u)'
      BY <2>1, <2>5, <2>6, <3>1 DEF NeverStarted, HasSkipped
    <3>3. StartedOnce(u)'
      BY <2>1, <2>5, <2>6, <3>1 DEF StartedOnce, HasSkipped
    <3> QED BY <3>2, <3>3
  <2>8. CASE u = Job(c)
    <3>1. Running(c, u) /\ jobStatus'[u] = FinalStatus(c)
      BY <2>0, <2>1, <2>8 DEF Running, RunningSteps, CsvTypeOK
    <3>2. starts[u] # 0
      BY <2>5, <3>1 DEF NeverStarted
    <3>3. /\ starts[u] = 1 => \A d \in Confirmations : Running(d, u) => d = c
          /\ starts[u] = 1 /\ HasSkipped(u) => confirmation[c].errors
      BY <2>5, <3>1 DEF StartedOnce
    <3>4. \A d \in Confirmations : Running(d, u)' /\ d = c => confirmation'[d].at = "notify"
      BY <2>1 DEF Running, RunningSteps, NotConfirming
    <3>5. NeverStarted(u)'
      BY <2>1, <3>2 DEF NeverStarted
    <3>6. starts[u] = 1 /\ HasSkipped(u) => jobStatus'[u] # "COMPLETED"
      BY <2>1, <3>1, <3>3
    <3>7. StartedOnce(u)'
      BY <2>1, <2>6, <3>3, <3>4, <3>6 DEF StartedOnce, HasSkipped
    <3> QED BY <3>5, <3>7
  <2> QED BY <2>7, <2>8
<1>8. ASSUME NEW c \in Confirmations, ConfirmationFails(c) PROVE SkipInv'
  <2>0. Working(c) /\ confirmation[c] \in Confirming /\ Job(c) \in Uploads
    BY <1>8, FailureKinds DEF CsvTypeOK, Working, Confirming, Job
  <2>1. UNCHANGED <<jobStatus, rowStatus, starts>>
    BY <1>8 DEF ConfirmationFails, jobVars, traceVars
  <2>2. Ends(c) \/ (confirmation[c].at \in {"row", "mark"} /\ GoesTo(c, "skip"))
                \/ (confirmation[c].at \in RunningSteps /\ GoesTo(c, "fail"))
    BY <1>8 DEF ConfirmationFails, RunningSteps
  <2>3. \A d \in Confirmations \ {c} : confirmation'[d] = confirmation[d]
    BY <2>2 DEF Ends, GoesTo, CsvTypeOK
  <2>4. \/ confirmation'[c] = NotConfirming
        \/ /\ confirmation'[c].job = confirmation[c].job
           /\ confirmation'[c].errors = confirmation[c].errors
           /\ confirmation[c].at \in {"notify", "fail"} => confirmation'[c].at \in {"notify", "fail"}
           /\ confirmation[c].at \in RunningSteps
    BY <2>0, <2>2, GoesToFields DEF Ends, CsvTypeOK, RunningSteps
  <2>5. CASE confirmation'[c] = NotConfirming
    BY <2>1, <2>3, <2>5, NoMoreSkipped DEF HasSkipped, Running, RunningSteps, NotConfirming, Job
  <2>6. CASE confirmation'[c] # NotConfirming
    BY <2>0, <2>1, <2>3, <2>4, <2>6, RunsOn, NoMoreSkipped DEF HasSkipped
  <2> QED BY <2>5, <2>6
<1>9. CASE CsvRestart
  <2>1. UNCHANGED <<jobStatus, rowStatus, starts>> /\ \A c \in Confirmations : confirmation'[c].at = "idle"
    BY <1>9 DEF CsvRestart, jobVars, traceVars, NotConfirming
  <2> QED BY <2>1, NoMoreSkipped DEF HasSkipped, Running, RunningSteps
<1>10. CASE LockImportCycle \/ (\E k \in Items : LockItem(k)) \/ UNCHANGED csvVars
  BY <1>10, NoMoreSkipped DEF LockImportCycle, LockItem, csvVars, jobVars, traceVars, HasSkipped, Running, Job
<1> QED BY <1>1, <1>2, <1>3, <1>4, <1>5, <1>6, <1>7, <1>8, <1>9, <1>10
        DEF CsvNext, ConfirmStep, Marking

(* A job that was imported by one confirmation does not say COMPLETED of a *)
(* row it had to skip, whatever failed on the way.                         *)
THEOREM SkippedRowsAreReported == CsvSpec => []SkippedIsReported
<1>1. CsvTypeOK /\ SkipInv => SkippedIsReported
  BY DEF SkipInv, StartedOnce, HasSkipped, SkippedIsReported, RowsIn
<1> QED BY <1>1, InitCsvTypeOK, StepCsvTypeOK, InitSkipInv, StepSkipInv, PTL DEF CsvSpec

-----------------------------------------------------------------------------
(* What is left of a job that fits in one batch.  Its first page holds all *)
(* the rows that are valid; a row leaves the list once it is marked; so    *)
(* the rows that are valid are always among those a confirmation still has *)
(* to go through, and there are none of them when it fetches once more.    *)

Valid(u) == RowsIn(u, "VALID")
Fits(u) == TotalRows(u) - ErrorRows(u) <= ImportBatch

(* The rows of a job are inserted before anyone can confirm it.            *)
NotYetPreviewed ==
    \A u \in Uploads : upload[u] # "over" =>
        /\ jobStatus[u] \in {"NONE", "UPLOADED"}
        /\ \A c \in Confirmations : Working(c) => Job(c) # u

RowsWereValid(c) == \A s \in {"NONE", "INVALID"} : confirmation[c].rows \cap RowsIn(Job(c), s) = {}
FirstPageIsFirst(c) == confirmation[c].at \in {"check", "start"} => confirmation[c].offset = 0
ValidAreToCome(c) ==
    Fits(Job(c)) =>
        /\ confirmation[c].at \in {"evaluations", "row", "mark", "skip"} => Valid(Job(c)) \subseteq confirmation[c].rows
        /\ confirmation[c].at = "fetch" /\ confirmation[c].offset # 0 => Valid(Job(c)) = {}
        /\ confirmation[c].at \in {"finish", "notify"} => Valid(Job(c)) = {}

OneBatch(c) == RowsWereValid(c) /\ FirstPageIsFirst(c) /\ ValidAreToCome(c)
BatchInv ==
    NotYetPreviewed /\ OneBatchLeavesNone /\ \A c \in Confirmations : Working(c) => OneBatch(c)

LEMMA InitBatchInv == CsvInit => BatchInv
BY DEF CsvInit, BatchInv, NotYetPreviewed, OneBatchLeavesNone, Working

(* The first page of a list that is not longer than a page is the list.    *)
LEMMA OnePage ==
    ASSUME NEW S \in SUBSET Nat, IsFiniteSet(S), NEW n \in Nat, Cardinality(S) <= n
    PROVE  Lowest(Skipping(S, 0), n) = S
<1>1. ASSUME NEW i \in S
      PROVE  /\ Cardinality({j \in S : j < i}) \in Nat
             /\ Cardinality({j \in S : j < i}) < n
  <2> DEFINE before == {j \in S : j < i}
  <2>1. before \in SUBSET S /\ before # S
    BY <1>1
  <2>2. Cardinality(S) \in Nat /\ IsFiniteSet(before) /\ Cardinality(before) <= Cardinality(S)
        /\ Cardinality(before) # Cardinality(S)
    BY <2>1, FS_CardinalityType, FS_Subset
  <2>3. Cardinality(before) \in Nat
    BY <2>2, FS_CardinalityType
  <2> QED BY <2>2, <2>3
<1>2. Skipping(S, 0) = S
  <2>1. \A i \in S : Cardinality({j \in S : j < i}) >= 0
    <3> TAKE i \in S
    <3> HIDE DEF Skipping
    <3> QED BY <1>1
  <2> QED BY <2>1, Zenon DEF Skipping
<1>3. \A i \in S : Cardinality({j \in S : j < i}) < n
  BY <1>1
<1> QED BY <1>2, <1>3, Zenon DEF Lowest

LEMMA RowsInFinite ==
    ASSUME NEW u, NEW s
    PROVE  /\ RowsIn(u, s) \in SUBSET RowNos /\ IsFiniteSet(RowsIn(u, s))
           /\ Cardinality(RowsIn(u, s)) \in Nat
<1>1. RowsIn(u, s) \in SUBSET RowNos
  BY DEF RowsIn
<1> QED BY <1>1, CsvAssumption, FS_Subset, FS_CardinalityType

(* No more rows are valid than validation has left, and it left no less    *)
(* than none.                                                              *)
LEMMA ValidAtMost ==
    ASSUME NEW u
    PROVE  /\ TotalRows(u) - ErrorRows(u) \in Int
           /\ Cardinality(Valid(u)) <= TotalRows(u) - ErrorRows(u)
           /\ Cardinality(Valid(u)) <= TotalRows(u)
<1> DEFINE V == RowsIn(u, "VALID")
           E == RowsIn(u, "INVALID")
           N == RowsIn(u, "NONE")
<1>1. /\ IsFiniteSet(V) /\ Cardinality(V) \in Nat /\ IsFiniteSet(E) /\ Cardinality(E) \in Nat
      /\ IsFiniteSet(N) /\ Cardinality(N) \in Nat
      /\ IsFiniteSet(RowNos) /\ Cardinality(RowNos) \in Nat
  BY RowsInFinite, CsvAssumption, FS_CardinalityType
<1>2. /\ V \cap E = {} /\ (V \cup E) \cap N = {} /\ (V \cup E) \cup N \in SUBSET RowNos
  BY DEF RowsIn
<1> HIDE DEF V, E, N
<1>3. IsFiniteSet(V \cup E) /\ Cardinality(V \cup E) = Cardinality(V) + Cardinality(E)
  <2>1. Cardinality(V \cap E) = 0
    BY <1>2, FS_EmptySet
  <2>2. /\ IsFiniteSet(V \cup E)
        /\ Cardinality(V \cup E) = Cardinality(V) + Cardinality(E) - Cardinality(V \cap E)
    BY <1>1, FS_Union, Zenon
  <2> QED BY <1>1, <2>1, <2>2
<1>4. Cardinality((V \cup E) \cup N) = Cardinality(V) + Cardinality(E) + Cardinality(N)
  <2>1. Cardinality((V \cup E) \cap N) = 0
    BY <1>2, FS_EmptySet
  <2>2. Cardinality((V \cup E) \cup N) = Cardinality(V \cup E) + Cardinality(N) - Cardinality((V \cup E) \cap N)
    BY <1>1, <1>3, FS_Union, Zenon
  <2> QED BY <1>1, <1>3, <2>1, <2>2
<1>5. Cardinality((V \cup E) \cup N) <= Cardinality(RowNos)
  BY <1>1, <1>2, FS_Subset
<1>6. TotalRows(u) = Cardinality(RowNos) - Cardinality(N) /\ ErrorRows(u) = Cardinality(E) /\ Valid(u) = V
  BY DEF TotalRows, ErrorRows, Valid, V, E, N
<1> QED BY <1>1, <1>4, <1>5, <1>6

LEMMA NoneToImport ==
    ASSUME NEW u, TotalRows(u) - ErrorRows(u) = 0 \/ TotalRows(u) = 0
    PROVE  Valid(u) = {}
<1>1. IsFiniteSet(Valid(u)) /\ Cardinality(Valid(u)) \in Nat
  BY RowsInFinite DEF Valid
<1>2. Cardinality(Valid(u)) <= 0
  BY <1>1, ValidAtMost
<1> QED BY <1>1, <1>2, FS_EmptySet

(* Whatever the offset, the next batch has all that is valid.              *)
LEMMA BatchHasValid ==
    ASSUME CsvTypeOK, NEW c \in Confirmations, confirmation[c] \in Confirming, ValidAreToCome(c),
           confirmation[c].at = "fetch", Fits(Job(c))
    PROVE  Valid(Job(c)) \subseteq Batch(c)
<1> DEFINE S == Valid(Job(c))
<1>1. S \in SUBSET Nat /\ IsFiniteSet(S) /\ Cardinality(S) \in Nat
  <2>1. RowNos \subseteq Nat
    BY CsvAssumption, FS_CardinalityType
  <2> QED BY <2>1, RowsInFinite DEF Valid
<1>2. CASE confirmation[c].offset = 0
  <2>1. Cardinality(S) <= ImportBatch
    BY <1>1, ValidAtMost, CsvAssumption DEF Fits
  <2>2. Lowest(Skipping(S, 0), ImportBatch) = S
    BY <1>1, <2>1, OnePage, CsvAssumption
  <2> QED BY <1>2, <2>2 DEF Batch, Page, Valid, Job
<1>3. CASE confirmation[c].offset # 0
  BY <1>3 DEF ValidAreToCome
<1> QED BY <1>2, <1>3

-----------------------------------------------------------------------------
(* Rows that are processed leave the others what they are.                 *)
RowsAdvance ==
    \A u \in Uploads : /\ Valid(u)' \subseteq Valid(u)
                       /\ \A s \in {"NONE", "INVALID"} : RowsIn(u, s)' = RowsIn(u, s)

LEMMA FitsAsBefore ==
    ASSUME RowsAdvance, NEW u \in Uploads
    PROVE  Fits(u)' <=> Fits(u)
BY DEF RowsAdvance, Fits, TotalRows, ErrorRows

LEMMA SameRowsAdvance == UNCHANGED rowStatus => RowsAdvance
BY DEF RowsAdvance, Valid, RowsIn

(* A confirmation that takes no step keeps what is known of it.            *)
LEMMA OneBatchStays ==
    ASSUME RowsAdvance, NEW c \in Confirmations, Job(c) \in Uploads, OneBatch(c),
           confirmation'[c] = confirmation[c]
    PROVE  OneBatch(c)'
<1>1. Job(c)' = Job(c) /\ (Fits(Job(c))' <=> Fits(Job(c)))
  BY FitsAsBefore DEF Job
<1>2. Valid(Job(c))' \subseteq Valid(Job(c))
  BY <1>1 DEF RowsAdvance, Valid, RowsIn, Job
<1>3. \A s \in {"NONE", "INVALID"} : RowsIn(Job(c), s)' = RowsIn(Job(c), s)
  BY <1>1 DEF RowsAdvance, RowsIn, Job
<1>4. RowsWereValid(c)' /\ FirstPageIsFirst(c)'
  BY <1>3 DEF OneBatch, RowsWereValid, FirstPageIsFirst
<1>5. ValidAreToCome(c)'
  BY <1>1, <1>2 DEF OneBatch, ValidAreToCome
<1> QED BY <1>4, <1>5 DEF OneBatch

(* A confirmation that took a step without moving a job to its end.        *)
LEMMA OneBatchMoves ==
    ASSUME CsvTypeOK, BatchInv, NEW c \in Confirmations, Working(c), UNCHANGED upload, RowsAdvance,
           \A u \in Uploads : jobStatus'[u] \in {"COMPLETED", "PARTIALLY_COMPLETED"} =>
               jobStatus[u] = jobStatus'[u] \/ (Fits(u) => Valid(u) = {}),
           \A u \in Uploads : upload[u] # "over" => jobStatus'[u] = jobStatus[u],
           \A d \in Confirmations \ {c} : confirmation'[d] = confirmation[d],
           Working(c)' => Job(c)' = Job(c) /\ OneBatch(c)'
    PROVE  BatchInv'
<1>1. NotYetPreviewed'
  <2>1. \A d \in Confirmations : Working(d)' => Working(d) /\ Job(d)' = Job(d)
    BY DEF Working, Job
  <2> QED BY <2>1 DEF BatchInv, NotYetPreviewed
<1>2. \A d \in Confirmations : Working(d)' => OneBatch(d)'
  <2>1. ASSUME NEW d \in Confirmations \ {c}, Working(d)' PROVE OneBatch(d)'
    <3>1. Working(d) /\ OneBatch(d)
      BY <2>1 DEF Working, BatchInv
    <3>2. Job(d) \in Uploads
      BY <3>1 DEF CsvTypeOK, Working, Confirming, Job
    <3> QED BY <3>1, <3>2, OneBatchStays
  <2> QED BY <2>1
<1>3. OneBatchLeavesNone'
  <2> SUFFICES ASSUME NEW u \in Uploads, jobStatus'[u] \in {"COMPLETED", "PARTIALLY_COMPLETED"}, Fits(u)'
               PROVE  Valid(u)' = {}
    BY DEF OneBatchLeavesNone, Fits, Valid
  <2>1. Fits(u)
    BY FitsAsBefore
  <2>2. Valid(u) = {}
    BY <2>1 DEF BatchInv, OneBatchLeavesNone, Fits, Valid
  <2> QED BY <2>2 DEF RowsAdvance
<1> QED BY <1>1, <1>2, <1>3 DEF BatchInv

LEMMA StepBatchInv == CsvTypeOK /\ BatchInv /\ [CsvNext]_csvVars => BatchInv'
<1> SUFFICES ASSUME CsvTypeOK, BatchInv, [CsvNext]_csvVars PROVE BatchInv'
  OBVIOUS
<1>1. ASSUME NEW u \in Uploads, UploadStep(u) \/ UploadFails(u) PROVE BatchInv'
  <2>1. UNCHANGED confirmation /\ upload[u] # "over"
    BY <1>1 DEF UploadStep, UploadFails, LookUp, CreateImportJob, InsertRows, Preview, UploadMoves
  <2>2. /\ \A v \in Uploads \ {u} : /\ upload'[v] = upload[v] /\ jobStatus'[v] = jobStatus[v]
                                    /\ rowStatus'[v] = rowStatus[v]
        /\ upload'[u] # "over" => jobStatus'[u] \in {"NONE", "UPLOADED"}
        /\ jobStatus'[u] \in {"NONE", "UPLOADED", "PREVIEW"}
    <3>1. jobStatus[u] \in {"NONE", "UPLOADED"}
      BY <2>1 DEF BatchInv, NotYetPreviewed
    <3>2. CASE LookUp(u) \/ UploadFails(u)
      BY <3>1, <3>2 DEF LookUp, UploadFails, UploadMoves, jobVars, CsvTypeOK
    <3>3. CASE CreateImportJob(u)
      BY <3>1, <3>3 DEF CreateImportJob, UploadMoves, CsvTypeOK
    <3>4. CASE InsertRows(u)
      BY <3>1, <3>4 DEF InsertRows, UploadMoves, jobVars, CsvTypeOK
    <3>5. CASE Preview(u)
      BY <3>1, <3>5 DEF Preview, UploadMoves, CsvTypeOK
    <3> QED BY <1>1, <3>2, <3>3, <3>4, <3>5 DEF UploadStep
  <2>3. \A c \in Confirmations : Working(c) => Job(c) \in Uploads \ {u}
    BY <2>1 DEF BatchInv, NotYetPreviewed, CsvTypeOK, Working, Confirming, Job
  <2>4. NotYetPreviewed'
    BY <2>1, <2>2, <2>3 DEF BatchInv, NotYetPreviewed, Working, Job
  <2>5. \A v \in Uploads \ {u} : /\ Fits(v)' <=> Fits(v)
                                 /\ \A s : RowsIn(v, s)' = RowsIn(v, s)
    BY <2>2 DEF Fits, TotalRows, ErrorRows, RowsIn
  <2>6. OneBatchLeavesNone'
    BY <2>2, <2>5 DEF BatchInv, OneBatchLeavesNone, Fits
  <2>7. ASSUME NEW c \in Confirmations, Working(c)' PROVE OneBatch(c)'
    <3>1. Working(c) /\ Job(c)' = Job(c) /\ Job(c) \in Uploads \ {u} /\ OneBatch(c)
      BY <2>1, <2>3, <2>7 DEF Working, Job, BatchInv
    <3>2. (Fits(Job(c))' <=> Fits(Job(c))) /\ \A s : RowsIn(Job(c), s)' = RowsIn(Job(c), s)
      BY <2>2, <3>1 DEF Fits, TotalRows, ErrorRows, RowsIn, Job
    <3> QED BY <2>1, <3>1, <3>2 DEF OneBatch, RowsWereValid, FirstPageIsFirst, ValidAreToCome, Valid
  <2> QED BY <2>4, <2>6, <2>7 DEF BatchInv
<1>2. ASSUME NEW c \in Confirmations, NEW u \in Uploads, NEW strict \in BOOLEAN,
             ConfirmImport(c, u, strict)
      PROVE  BatchInv'
  <2>1. UNCHANGED <<jobStatus, rowStatus, upload>> /\ jobStatus[u] = "PREVIEW"
    BY <1>2 DEF ConfirmImport, jobVars
  <2>2. /\ \A d \in Confirmations \ {c} : confirmation'[d] = confirmation[d]
        /\ confirmation'[c].at \in {"refuse", "check"} /\ confirmation'[c].job = u
        /\ confirmation'[c].offset = 0 /\ confirmation'[c].rows = {}
    BY <1>2 DEF ConfirmImport, CsvTypeOK
  <2>3. RowsAdvance
    BY <2>1, SameRowsAdvance
  <2>4. OneBatch(c)'
    BY <2>2 DEF OneBatch, RowsWereValid, FirstPageIsFirst, ValidAreToCome
  <2>5. NotYetPreviewed'
    BY <2>1, <2>2 DEF BatchInv, NotYetPreviewed, Working, Job
  <2>6. OneBatchLeavesNone'
    BY <2>1 DEF BatchInv, OneBatchLeavesNone, RowsIn, TotalRows, ErrorRows
  <2>7. ASSUME NEW d \in Confirmations \ {c}, Working(d)' PROVE OneBatch(d)'
    <3>1. Working(d) /\ OneBatch(d)
      BY <2>2, <2>7 DEF Working, BatchInv
    <3>2. Job(d) \in Uploads
      BY <3>1 DEF CsvTypeOK, Working, Confirming, Job
    <3> QED BY <2>2, <2>3, <3>1, <3>2, OneBatchStays
  <2> QED BY <2>4, <2>5, <2>6, <2>7 DEF BatchInv
<1>3. ASSUME NEW c \in Confirmations, ConfirmStep(c) PROVE BatchInv'
  <2>0. /\ Working(c) /\ confirmation[c] \in Confirming /\ Job(c) \in Uploads
        /\ OneBatch(c) /\ UNCHANGED upload
        /\ upload[Job(c)] = "over"
        /\ \A d \in Confirmations \ {c} : confirmation'[d] = confirmation[d]
        /\ Working(c)' => Job(c)' = Job(c)
    BY <1>3, ConfirmJobs DEF CsvTypeOK, Working, Confirming, Job, BatchInv, NotYetPreviewed
  <2>1. ASSUME NEW s, Becomes(c, s)
        PROVE  jobStatus'[Job(c)] = s /\ \A u \in Uploads \ {Job(c)} : jobStatus'[u] = jobStatus[u]
    BY <2>0, <2>1 DEF Becomes, Job, CsvTypeOK
  <2>2. ASSUME RowsAdvance, Working(c)' => OneBatch(c)',
               UNCHANGED jobStatus \/ \E s : /\ Becomes(c, s)
                                             /\ s \in {"COMPLETED", "PARTIALLY_COMPLETED"} /\ Fits(Job(c)) =>
                                                   Valid(Job(c)) = {}
        PROVE  BatchInv'
    <3>1. \A u \in Uploads : jobStatus'[u] \in {"COMPLETED", "PARTIALLY_COMPLETED"} =>
               jobStatus[u] = jobStatus'[u] \/ (Fits(u) => Valid(u) = {})
      BY <2>1, <2>2
    <3>2. \A u \in Uploads : upload[u] # "over" => jobStatus'[u] = jobStatus[u]
      BY <2>0, <2>1, <2>2
    <3> QED BY <2>0, <2>2, <3>1, <3>2, OneBatchMoves
  <2>3. ASSUME Ends(c) PROVE ~Working(c)'
    BY <2>3 DEF Ends, Working, CsvTypeOK
  <2>4. UNCHANGED rowStatus => RowsAdvance
    BY SameRowsAdvance
  <2>5. ASSUME UNCHANGED rowStatus, NEW at, GoesTo(c, at), confirmation[c].at \notin {"check", "start"} => at # "start",
               at \notin {"check", "evaluations", "finish"},
               at \in {"row", "mark", "skip"} => confirmation[c].at \in {"row", "mark"},
               at = "fetch" => confirmation[c].at = "start",
               at = "notify" => confirmation[c].at = "finish"
        PROVE  OneBatch(c)'
    <3>1. /\ confirmation'[c].at = at /\ confirmation'[c].rows = confirmation[c].rows
          /\ confirmation'[c].offset = confirmation[c].offset /\ Job(c)' = Job(c)
      BY <2>0, <2>5, GoesToFields DEF Job
    <3>2. (Fits(Job(c))' <=> Fits(Job(c))) /\ \A s : RowsIn(Job(c), s)' = RowsIn(Job(c), s)
      BY <2>5, <3>1 DEF Fits, TotalRows, ErrorRows, RowsIn, Job
    <3>3. RowsWereValid(c)' /\ FirstPageIsFirst(c)'
      BY <2>0, <2>5, <3>1, <3>2 DEF OneBatch, RowsWereValid, FirstPageIsFirst
    <3>4. ValidAreToCome(c)'
      BY <2>0, <2>5, <3>1, <3>2 DEF OneBatch, ValidAreToCome, FirstPageIsFirst, Valid
    <3> QED BY <3>3, <3>4 DEF OneBatch
  <2>6. CASE RefuseStrict(c) \/ FailJob(c)
    BY <2>2, <2>3, <2>4, <2>6 DEF RefuseStrict, FailJob, Failed
  <2>7. CASE CheckCycleLock(c)
    BY <2>2, <2>3, <2>4, <2>5, <2>7 DEF CheckCycleLock, jobVars
  <2>8. CASE StartImport(c)
    <3>1. CASE TargetRows(c) = 0
      <4>1. Valid(Job(c)) = {}
        BY <3>1, NoneToImport DEF TargetRows, Job
      <4> QED BY <2>2, <2>3, <2>4, <2>8, <3>1, <4>1 DEF StartImport
    <3>2. CASE TargetRows(c) # 0
      <4>1. UNCHANGED rowStatus /\ Becomes(c, "IMPORTING") /\ GoesTo(c, "fetch") /\ confirmation[c].at = "start"
        BY <2>8, <3>2 DEF StartImport
      <4> QED BY <2>2, <2>4, <2>5, <4>1
    <3> QED BY <3>1, <3>2
  <2>9. CASE FetchBatch(c)
    <3>1. /\ confirmation'[c].at = IF Batch(c) = {} THEN "finish" ELSE "evaluations"
          /\ confirmation'[c].rows = Batch(c) /\ Job(c)' = Job(c) /\ UNCHANGED <<jobStatus, rowStatus>>
      <4> DEFINE next == IF Batch(c) = {} THEN "finish" ELSE "evaluations"
      <4>1. confirmation'[c].at = next
        <5>1. \A b, n : [confirmation[c] EXCEPT !.at = n, !.rows = b].at = n
          BY <2>0 DEF Confirming
        <5>2. confirmation'[c] = [confirmation[c] EXCEPT !.at = next, !.rows = Batch(c)]
          BY <2>9 DEF FetchBatch, CsvTypeOK
        <5> QED BY <5>1, <5>2
      <4> QED BY <2>0, <2>9, <4>1, FetchFields DEF FetchBatch, jobVars, Job
    <3>2. (Fits(Job(c))' <=> Fits(Job(c))) /\ \A s : RowsIn(Job(c), s)' = RowsIn(Job(c), s)
      BY <3>1 DEF Fits, TotalRows, ErrorRows, RowsIn, Job
    <3>3. Batch(c) \subseteq Valid(Job(c))
      BY DEF Batch, Page, Lowest, Skipping, Valid, Job
    <3>4. Fits(Job(c)) => Valid(Job(c)) \subseteq Batch(c)
      BY <2>0, <2>9, BatchHasValid DEF FetchBatch, OneBatch
    <3>5. RowsWereValid(c)'
      <4>1. \A s \in {"NONE", "INVALID"} : Valid(Job(c)) \cap RowsIn(Job(c), s) = {}
        BY DEF Valid, RowsIn
      <4> QED BY <3>1, <3>2, <3>3, <4>1 DEF RowsWereValid
    <3>6. ValidAreToCome(c)'
      BY <3>1, <3>2, <3>4 DEF ValidAreToCome, Valid
    <3>7. OneBatch(c)'
      BY <3>1, <3>5, <3>6 DEF OneBatch, FirstPageIsFirst
    <3> QED BY <2>2, <2>4, <3>1, <3>7
  <2>10. CASE ReadEvaluations(c)
    <3>1. /\ confirmation[c].at = "evaluations" /\ confirmation'[c].at = "row"
          /\ confirmation'[c].rows = confirmation[c].rows /\ Job(c)' = Job(c)
          /\ UNCHANGED <<jobStatus, rowStatus>>
      BY <2>0, <2>10, ReadFields DEF ReadEvaluations, jobVars, Job
    <3>2. (Fits(Job(c))' <=> Fits(Job(c))) /\ \A s : RowsIn(Job(c), s)' = RowsIn(Job(c), s)
      BY <3>1 DEF Fits, TotalRows, ErrorRows, RowsIn, Job
    <3>3. OneBatch(c)'
      BY <2>0, <3>1, <3>2 DEF OneBatch, RowsWereValid, FirstPageIsFirst, ValidAreToCome, Valid
    <3> QED BY <2>2, <2>4, <3>1, <3>3
  <2>11. CASE WriteItem(c) \/ NoActiveEvaluation(c)
    <3>1. /\ GoesTo(c, "mark") \/ GoesTo(c, "skip")
          /\ confirmation[c].at = "row" /\ UNCHANGED <<jobStatus, rowStatus>>
      BY <2>11 DEF WriteItem, NoActiveEvaluation, LockedRow, jobVars
    <3>2. OneBatch(c)'
      BY <2>5, <3>1
    <3> QED BY <2>2, <2>4, <3>1, <3>2
  <2>12. CASE Marking(c)
    <3>1. PICK i \in RowNos, s \in {"IMPORTED", "SKIPPED"}, error \in BOOLEAN :
             /\ i \in confirmation[c].rows
             /\ rowStatus' = [rowStatus EXCEPT ![Job(c)][i] = s]
             /\ confirmation' = [confirmation EXCEPT ![c] = AfterRow(confirmation[c], i, error)]
      BY <2>12 DEF Marking, MarkImported, MarkSkipped, MarkRow, IsNext, Job
    <3>2. confirmation[c].at \in {"mark", "skip"} /\ UNCHANGED jobStatus
      BY <2>12 DEF Marking, MarkImported, MarkSkipped
    <3>3. /\ Job(c)' = Job(c) /\ confirmation'[c].rows = confirmation[c].rows \ {i}
          /\ confirmation'[c].at \in {"row", "fail", "fetch"}
          /\ confirmation'[c].at = "fetch" => confirmation'[c].rows = {}
      <4>1. confirmation'[c] = AfterRow(confirmation[c], i, error)
        BY <3>1 DEF CsvTypeOK
      <4>2. AfterRow(confirmation[c], i, error).at = "fetch" => confirmation[c].rows \ {i} = {}
        BY <2>0 DEF AfterRow, Confirming
      <4> QED BY <2>0, <4>1, <4>2, AfterRowFields DEF Job
    <3>4. /\ \A u \in Uploads \ {Job(c)} : rowStatus'[u] = rowStatus[u]
          /\ \A j \in RowNos : rowStatus'[Job(c)][j] = IF j = i THEN s ELSE rowStatus[Job(c)][j]
      BY <2>0, <3>1 DEF CsvTypeOK
    <3>5. rowStatus[Job(c)][i] \notin {"NONE", "INVALID"}
      BY <2>0, <3>1 DEF OneBatch, RowsWereValid, RowsIn
    <3>6. \A u \in Uploads \ {Job(c)} : \A t : RowsIn(u, t)' = RowsIn(u, t)
      BY <3>4 DEF RowsIn
    <3>7. /\ RowsIn(Job(c), "VALID")' = RowsIn(Job(c), "VALID") \ {i}
          /\ RowsIn(Job(c), "NONE")' = RowsIn(Job(c), "NONE")
          /\ RowsIn(Job(c), "INVALID")' = RowsIn(Job(c), "INVALID")
      BY <3>3, <3>4, <3>5 DEF RowsIn
    <3>8. RowsAdvance
      <4>1. ASSUME NEW u \in Uploads
            PROVE  /\ Valid(u)' \subseteq Valid(u)
                   /\ \A t \in {"NONE", "INVALID"} : RowsIn(u, t)' = RowsIn(u, t)
        <5>1. CASE u = Job(c)
          <6>1. \A t : RowsIn(u, t)' = RowsIn(Job(c), t)'
            BY <3>3, <5>1 DEF RowsIn
          <6> QED BY <3>7, <5>1, <6>1 DEF Valid
        <5> QED BY <3>6, <5>1 DEF Valid
      <4> QED BY <4>1 DEF RowsAdvance
    <3>9. Fits(Job(c))' <=> Fits(Job(c))
      BY <3>3, <3>7 DEF Fits, TotalRows, ErrorRows
    <3>10. OneBatch(c)'
      <4>1. RowsWereValid(c)'
        BY <2>0, <3>3, <3>7 DEF OneBatch, RowsWereValid
      <4>2. ValidAreToCome(c)'
        BY <2>0, <3>2, <3>3, <3>7, <3>9 DEF OneBatch, ValidAreToCome, Valid
      <4> QED BY <3>3, <4>1, <4>2 DEF OneBatch, FirstPageIsFirst
    <3> QED BY <2>2, <3>2, <3>8, <3>10
  <2>13. CASE FinishJob(c)
    <3>1. confirmation[c].at = "finish" /\ Becomes(c, FinalStatus(c)) /\ UNCHANGED rowStatus
          /\ (GoesTo(c, "notify") \/ Ends(c))
      BY <2>13 DEF FinishJob
    <3>2. Fits(Job(c)) => Valid(Job(c)) = {}
      BY <2>0, <3>1 DEF OneBatch, ValidAreToCome
    <3>3. Working(c)' => OneBatch(c)'
      BY <2>3, <2>5, <3>1
    <3> QED BY <2>2, <2>4, <3>1, <3>2, <3>3
  <2>14. CASE NotifyImporter(c)
    BY <2>2, <2>3, <2>4, <2>14 DEF NotifyImporter, jobVars
  <2> QED BY <1>3, <2>6, <2>7, <2>8, <2>9, <2>10, <2>11, <2>12, <2>13, <2>14 DEF ConfirmStep, Marking
<1>4. ASSUME NEW c \in Confirmations, ConfirmationFails(c) PROVE BatchInv'
  <2>0. /\ Working(c) /\ confirmation[c] \in Confirming /\ Job(c) \in Uploads /\ OneBatch(c)
        /\ UNCHANGED <<jobStatus, rowStatus, upload>>
    BY <1>4 DEF ConfirmationFails, jobVars, CsvTypeOK, Working, Confirming, Job, BatchInv
  <2>1. Ends(c) \/ GoesTo(c, "fail") \/ (confirmation[c].at \in {"row", "mark"} /\ GoesTo(c, "skip"))
    BY <1>4 DEF ConfirmationFails
  <2>2. \A d \in Confirmations \ {c} : confirmation'[d] = confirmation[d]
    BY <2>1 DEF Ends, GoesTo, CsvTypeOK
  <2>3. ASSUME NEW at \in {"skip", "fail"}, GoesTo(c, at), at = "skip" => confirmation[c].at \in {"row", "mark"}
        PROVE  Job(c)' = Job(c) /\ OneBatch(c)'
    <3>1. /\ confirmation'[c].at = at /\ confirmation'[c].rows = confirmation[c].rows /\ Job(c)' = Job(c)
      BY <2>0, <2>3, GoesToFields DEF Job
    <3>2. (Fits(Job(c))' <=> Fits(Job(c))) /\ \A s : RowsIn(Job(c), s)' = RowsIn(Job(c), s)
      BY <2>0, <3>1 DEF Fits, TotalRows, ErrorRows, RowsIn, Job
    <3> QED BY <2>0, <2>3, <3>1, <3>2
            DEF OneBatch, RowsWereValid, FirstPageIsFirst, ValidAreToCome, Valid
  <2>4. Working(c)' => Job(c)' = Job(c) /\ OneBatch(c)'
    BY <2>1, <2>3 DEF Ends, Working, CsvTypeOK
  <2>5. RowsAdvance
    BY <2>0, SameRowsAdvance
  <2> QED BY <2>0, <2>2, <2>4, <2>5, OneBatchMoves
<1>5. CASE CsvRestart
  <2>1. UNCHANGED <<jobStatus, rowStatus>> /\ \A c \in Confirmations : ~Working(c)'
    BY <1>5 DEF CsvRestart, jobVars, Working
  <2>2. \A u \in Uploads : upload'[u] # "over" => upload[u] # "over"
    BY <1>5 DEF CsvRestart
  <2>3. OneBatchLeavesNone'
    BY <2>1 DEF BatchInv, OneBatchLeavesNone, RowsIn, TotalRows, ErrorRows
  <2> QED BY <2>1, <2>2, <2>3 DEF BatchInv, NotYetPreviewed
<1>6. CASE LockImportCycle \/ (\E k \in Items : LockItem(k)) \/ UNCHANGED csvVars
  <2>1. UNCHANGED <<jobStatus, rowStatus, upload, confirmation>>
    BY <1>6 DEF LockImportCycle, LockItem, csvVars, jobVars
  <2>2. NotYetPreviewed' /\ OneBatchLeavesNone'
    BY <2>1 DEF BatchInv, NotYetPreviewed, OneBatchLeavesNone, RowsIn, TotalRows, ErrorRows, Working, Job
  <2>3. ASSUME NEW c \in Confirmations, Working(c)' PROVE OneBatch(c)'
    <3>1. Working(c) /\ OneBatch(c) /\ Job(c) \in Uploads
      BY <2>1, <2>3 DEF BatchInv, Working, CsvTypeOK, Confirming, Job
    <3> QED BY <2>1, <3>1, SameRowsAdvance, OneBatchStays
  <2> QED BY <2>2, <2>3 DEF BatchInv
<1> QED BY <1>1, <1>2, <1>3, <1>4, <1>5, <1>6 DEF CsvNext

(* A job that fits in one batch leaves no valid row behind when it ends,   *)
(* although the offset of the batches counts in a list that shrinks, and   *)
(* however many confirmations go through the rows at the same time.        *)
THEOREM OneBatchLeavesNoneBehind == CsvSpec => []OneBatchLeavesNone
<1>1. BatchInv => OneBatchLeavesNone
  BY DEF BatchInv
<1> QED BY <1>1, InitCsvTypeOK, StepCsvTypeOK, InitBatchInv, StepBatchInv, PTL DEF CsvSpec
=============================================================================
