------------------------- MODULE CalibrationProofs -------------------------
(***************************************************************************)
(* Theorems of the workflow with calibration sessions beside it, for every *)
(* choice of sessions, scopes and operators.                               *)
(***************************************************************************)
EXTENDS Calibration, EvaluationWorkflowProofs

(* calibration.service.ts writes columns of the workflow too; they keep    *)
(* their types, and so do the sessions and the requests in flight.         *)
LEMMA StepCalibrationTypeOK ==
    TypeOK /\ CalibrationTypeOK /\ [CalibrationNext]_allVars => TypeOK' /\ CalibrationTypeOK'
<1> SUFFICES ASSUME TypeOK, CalibrationTypeOK, [CalibrationNext]_allVars
             PROVE  TypeOK' /\ CalibrationTypeOK'
  OBVIOUS
<1> USE WorkflowAssumption, CalibrationAssumption DEF Free
<1>1. ASSUME WorkflowStep \/ UNCHANGED allVars PROVE TypeOK' /\ CalibrationTypeOK'
  <2>1. [Next]_workflowVars /\ UNCHANGED calibrationVars
    BY <1>1 DEF WorkflowStep, allVars
  <2> QED BY <2>1, StepTypeOK DEF CalibrationTypeOK, calibrationVars
<1>2. ASSUME NEW o \in Operators, NEW s \in Sessions, CheckCreate(o, s)
      PROVE  TypeOK' /\ CalibrationTypeOK'
  <2>1. UNCHANGED workflowVars
    BY <1>2 DEF CheckCreate
  <2> QED BY <1>2, <2>1, StepTypeOK DEF CheckCreate, CalibrationTypeOK, Working
<1>3. ASSUME NEW o \in Operators, NEW s \in Sessions, BeginFinalize(o, s)
      PROVE  TypeOK' /\ CalibrationTypeOK'
  <2>1. UNCHANGED workflowVars
    BY <1>3 DEF BeginFinalize
  <2>2. EvaluationsForSession(s) \in SUBSET Evaluations
    BY DEF EvaluationsForSession
  <2> QED BY <1>3, <2>1, <2>2, StepTypeOK DEF BeginFinalize, CalibrationTypeOK, Working
<1>4. ASSUME NEW o \in Operators, NEW s \in Sessions, NEW e \in Evaluations, ReadScore(o, s, e)
      PROVE  TypeOK' /\ CalibrationTypeOK'
  <2>1. UNCHANGED workflowVars
    BY <1>4 DEF ReadScore
  <2>2. finalScore[e] \in Scores \cup {NoScore} /\ Len(adjustments[e]) \in Nat
    BY DEF TypeOK, CalibrationTypeOK
  <2> QED BY <1>4, <2>1, <2>2, StepTypeOK DEF ReadScore, CalibrationTypeOK, Working
<1>5. ASSUME NEW o \in Operators, InsertSession(o) PROVE TypeOK' /\ CalibrationTypeOK'
  <2>1. UNCHANGED workflowVars
    BY <1>5 DEF InsertSession
  <2>2. work[o].session \in Sessions
    BY <1>5 DEF InsertSession, CalibrationTypeOK, Working
  <2> QED BY <1>5, <2>1, <2>2, StepTypeOK DEF InsertSession, CalibrationTypeOK
<1>6. ASSUME NEW o \in Operators, AdjustScore(o) PROVE TypeOK' /\ CalibrationTypeOK'
  <2> DEFINE e == work[o].eval
  <2>1. /\ work[o].session \in Sessions /\ e \in Evaluations
        /\ work[o].old \in Scores \cup {NoScore} /\ work[o].seen \in Nat
    BY <1>6 DEF AdjustScore, CalibrationTypeOK, Working
  <2>2. PICK new \in Scores :
           /\ adjustments' = [adjustments EXCEPT ![e] =
                  Append(@, [session |-> work[o].session, old |-> work[o].old,
                             new |-> new, seen |-> work[o].seen])]
           /\ finalScore' = [finalScore EXCEPT ![e] = new]
    BY <1>6 DEF AdjustScore
  <2>3. finalScore' \in [Evaluations -> Scores \cup {NoScore}]
    BY <2>1, <2>2 DEF TypeOK
  <2>4. adjustments' \in [Evaluations -> Seq(Adjustment)]
    <3> DEFINE entry == [session |-> work[o].session, old |-> work[o].old,
                         new |-> new, seen |-> work[o].seen]
    <3>1. entry \in Adjustment
      BY <2>1 DEF Adjustment
    <3>2. Append(adjustments[e], entry) \in Seq(Adjustment)
      BY <2>1, <3>1 DEF CalibrationTypeOK
    <3>3. adjustments' = [adjustments EXCEPT ![e] = Append(adjustments[e], entry)]
      BY <2>2
    <3> HIDE DEF entry
    <3> QED BY <2>1, <3>2, <3>3 DEF CalibrationTypeOK
  <2>5. TypeOK'
    BY <1>6, <2>3 DEF AdjustScore, TypeOK, rowVars, historyVars
  <2> QED BY <1>6, <2>4, <2>5 DEF AdjustScore, CalibrationTypeOK
<1>7. ASSUME NEW o \in Operators, CommitFinalize(o) PROVE TypeOK' /\ CalibrationTypeOK'
  <2>1. work[o].session \in Sessions /\ work[o].rows \in SUBSET Evaluations
    BY <1>7 DEF CommitFinalize, CalibrationTypeOK, Working
  <2>2. TypeOK'
    BY <1>7, <2>1 DEF CommitFinalize, CompleteReviews, TypeOK, Statuses, contentVars
  <2> QED BY <1>7, <2>1, <2>2 DEF CommitFinalize, CalibrationTypeOK
<1> QED
  BY <1>1, <1>2, <1>3, <1>4, <1>5, <1>6, <1>7 DEF CalibrationNext, CalibrationStep

(* The columns of calibration_session and calibration_adjustment, and the  *)
(* locals of the handlers, keep their types.                               *)
THEOREM CalibrationTypeCorrect == CalibrationSpec => [](TypeOK /\ CalibrationTypeOK)
<1>1. CalibrationInit => TypeOK /\ CalibrationTypeOK
  BY InitTypeOK DEF CalibrationInit, CalibrationTypeOK
<1> QED
  BY <1>1, StepCalibrationTypeOK, PTL DEF CalibrationSpec

-----------------------------------------------------------------------------
(* What calibration adds to the invariant of the workflow: a session is    *)
(* inserted and finalized by one request each, a finalization holds its    *)
(* cycle open, and the rows it has read exist.                             *)

OneWriterPerSession ==
    \A o, p \in Operators :
        /\ work[o].op = "create" => sessionStatus[work[o].session] = "NONE"
        /\ /\ work[o].op \in {"create", "finalize"} /\ work[p].op = work[o].op
           /\ work[o].session = work[p].session
           => o = p

FinalizedRowsExist ==
    \A o \in Operators : work[o].op = "finalize" => \A e \in work[o].rows : Exists(e)

CalibrationInv ==
    WorkflowInv /\ OneWriterPerSession /\ CycleHeldOpen /\ FinalizedRowsExist /\ FinalizedScopeIsClosed

(* A step of the workflow alone never takes a row out of its table, and    *)
(* never takes a published or locked one back to work.                     *)
LEMMA StatusAdvances ==
    ASSUME TypeOK, WorkflowInv, Next, NEW e \in Evaluations
    PROVE  /\ Exists(e) => Exists(e)'
           /\ status[e] \in {"PUBLISHED", "LOCKED"} => status'[e] \in {"PUBLISHED", "LOCKED"}
<1> USE WorkflowAssumption DEF TypeOK, Exists
<1>1. CASE UNCHANGED <<cycleStatus, rowVars, historyVars>>
  BY <1>1 DEF rowVars
<1>2. CASE CycleStep
  BY <1>2 DEF CycleStep, CreateCycle, LockCycle, RowsOfCycle, OpenCycle, TransitionCycle,
              CreateIndividualCycles, GenerateEvaluations, rowVars
<1>3. CASE HandlerStep
  BY <1>3 DEF HandlerStep, SubmitEvaluation, ReviewEvaluation, ApproveEvaluation, RejectEvaluation,
     Rejectable, RequestCorrection, CorrectableStatuses, PublishEvaluation, LockEvaluation, Unlocked
<1>4. ASSUME NEW r \in Requests, WriteJira(r) PROVE status' = [status EXCEPT ![request[r].eval] =
                                                                ImportedStatus(request[r].eval)]
  BY <1>4 DEF WriteJira
<1>5. CASE \E r \in Requests : WriteJira(r)
  BY <1>4, <1>5 DEF ImportedStatus
<1> QED
  BY <1>1, <1>2, <1>3, <1>5, ContentSteps DEF Next

(* Without a session the invariant holds of the empty tables.              *)
LEMMA InitCalibrationInv == CalibrationInit => CalibrationInv
BY InitInv DEF CalibrationInit, CalibrationInv, OneWriterPerSession, CycleHeldOpen, FinalizedRowsExist,
               FinalizedScopeIsClosed, Free

(* Each request of calibration, and each handler beside it, preserves the  *)
(* invariant: the cycle of a finalization stays open, its scope ends closed. *)
LEMMA StepCalibrationInv ==
    TypeOK /\ CalibrationTypeOK /\ CalibrationInv /\ [CalibrationNext]_allVars => CalibrationInv'
<1> SUFFICES ASSUME TypeOK, CalibrationTypeOK, CalibrationInv, [CalibrationNext]_allVars
             PROVE  CalibrationInv'
  OBVIOUS
<1> USE WorkflowAssumption, CalibrationAssumption DEF Free
<1>1. ASSUME UNCHANGED workflowVars PROVE WorkflowInv'
  BY <1>1, StepInv DEF CalibrationInv
<1>2. ASSUME UNCHANGED allVars PROVE CalibrationInv'
  <2>1. UNCHANGED workflowVars /\ UNCHANGED calibrationVars
    BY <1>2 DEF allVars
  <2> QED BY <1>1, <2>1 DEF CalibrationInv, OneWriterPerSession, CycleHeldOpen, SessionCycleNotLocked,
         FinalizedRowsExist, FinalizedScopeIsClosed, Exists, calibrationVars, workflowVars, rowVars
<1>3. ASSUME WorkflowStep PROVE CalibrationInv'
  <2>1. Next /\ UNCHANGED calibrationVars
    BY <1>3 DEF WorkflowStep
  <2>2. WorkflowInv'
    BY <2>1, StepInv DEF CalibrationInv
  <2>3. OneWriterPerSession'
    BY <2>1 DEF CalibrationInv, OneWriterPerSession, calibrationVars
  <2>4. CycleHeldOpen'
    BY <1>3, <2>1 DEF WorkflowStep, CycleShared, CalibrationInv, CycleHeldOpen, SessionCycleNotLocked,
           calibrationVars, CalibrationTypeOK, Working
  <2>5. FinalizedRowsExist' /\ FinalizedScopeIsClosed'
    BY <2>1, StatusAdvances DEF CalibrationInv, FinalizedRowsExist, FinalizedScopeIsClosed,
           calibrationVars, CalibrationTypeOK, Working
  <2> QED BY <2>2, <2>3, <2>4, <2>5 DEF CalibrationInv
<1>4. ASSUME NEW o \in Operators, NEW s \in Sessions, CheckCreate(o, s) PROVE CalibrationInv'
  <2>1. UNCHANGED workflowVars
    BY <1>4 DEF CheckCreate
  <2> QED BY <1>1, <1>4, <2>1 DEF CheckCreate, SessionPlanned, CalibrationInv, OneWriterPerSession, CycleHeldOpen,
         SessionCycleNotLocked, FinalizedRowsExist, FinalizedScopeIsClosed, Exists, CalibrationTypeOK,
         workflowVars, rowVars
<1>5. ASSUME NEW o \in Operators, InsertSession(o) PROVE CalibrationInv'
  <2>1. UNCHANGED workflowVars
    BY <1>5 DEF InsertSession
  <2> QED BY <1>1, <1>5, <2>1 DEF InsertSession, CalibrationInv, OneWriterPerSession, CycleHeldOpen,
         SessionCycleNotLocked, FinalizedRowsExist, FinalizedScopeIsClosed, Exists, CalibrationTypeOK, Working,
         workflowVars, rowVars
<1>6. ASSUME NEW o \in Operators, NEW s \in Sessions, NEW e \in Evaluations, ReadScore(o, s, e)
      PROVE  CalibrationInv'
  <2>1. UNCHANGED workflowVars
    BY <1>6 DEF ReadScore
  <2> QED BY <1>1, <1>6, <2>1 DEF ReadScore, CalibrationInv, OneWriterPerSession, CycleHeldOpen,
         SessionCycleNotLocked, FinalizedRowsExist, FinalizedScopeIsClosed, Exists, CalibrationTypeOK,
         workflowVars, rowVars
<1>7. ASSUME NEW o \in Operators, AdjustScore(o) PROVE CalibrationInv'
  <2>1. UNCHANGED <<cycleStatus, rowVars, historyVars, sessionStatus, finalized>>
    BY <1>7 DEF AdjustScore
  <2>2. WorkflowInv'
    BY <2>1 DEF CalibrationInv, WorkflowInv, LockCoversCycle, StampsAgree, ReviewCompletedOnce, Exists,
                rowVars, historyVars
  <2> QED BY <1>7, <2>1, <2>2 DEF AdjustScore, CalibrationInv, OneWriterPerSession, CycleHeldOpen,
         SessionCycleNotLocked, FinalizedRowsExist, FinalizedScopeIsClosed, Exists, CalibrationTypeOK, rowVars
<1>8. ASSUME NEW o \in Operators, NEW s \in Sessions, BeginFinalize(o, s) PROVE CalibrationInv'
  <2>1. UNCHANGED workflowVars
    BY <1>8 DEF BeginFinalize
  <2> QED BY <1>1, <1>8, <2>1 DEF BeginFinalize, SessionHeld, EvaluationsForSession, CalibrationInv,
         OneWriterPerSession, CycleHeldOpen, SessionCycleNotLocked, FinalizedRowsExist, FinalizedScopeIsClosed,
         Exists, CalibrationTypeOK, workflowVars, rowVars
<1>9. ASSUME NEW o \in Operators, CommitFinalize(o) PROVE CalibrationInv'
  <2>1. work[o].session \in Sessions /\ work[o].rows \in SUBSET Evaluations
    BY <1>9 DEF CommitFinalize, CalibrationTypeOK, Working
  <2>2. \A e \in work[o].rows : Exists(e)
    BY <1>9 DEF CommitFinalize, CalibrationInv, FinalizedRowsExist
  <2> DEFINE rows == RowsToPublish(work[o].rows)
  <2>3. /\ rows \in SUBSET Evaluations
        /\ \A e \in rows : Exists(e) /\ ~isLocked[e]
        /\ UNCHANGED <<cycleStatus, isLocked, submittedAt>>
        /\ status' = [e \in Evaluations |-> IF e \in rows THEN "PUBLISHED" ELSE status[e]]
        /\ approvedAt' = [e \in Evaluations |-> e \in rows \/ approvedAt[e]]
        /\ publishedAt' = [e \in Evaluations |-> e \in rows \/ publishedAt[e]]
        /\ completions' = [e \in Evaluations |->
              IF e \in rows /\ status[e] # "PUBLISHED" THEN completions[e] + 1 ELSE completions[e]]
    BY <1>9, <2>1, <2>2 DEF CommitFinalize, RowsToPublish, NewlyPublished, CompleteReviews
  <2> HIDE DEF rows
  <2>4. LockCoversCycle'
    BY <2>3 DEF CalibrationInv, WorkflowInv, LockCoversCycle, Exists, TypeOK
  <2>5. StampsAgree'
    BY <2>3 DEF CalibrationInv, WorkflowInv, StampsAgree, TypeOK
  <2>6. ReviewCompletedOnce'
    <3>1. ASSUME NEW e \in rows PROVE completions'[e] = 1 /\ publishedAt'[e] /\ status'[e] = "PUBLISHED"
      <4>1. status[e] # "LOCKED" /\ completions[e] = IF publishedAt[e] THEN 1 ELSE 0
        BY <2>3 DEF CalibrationInv, WorkflowInv, LockCoversCycle, ReviewCompletedOnce, TypeOK
      <4>2. status[e] = "PUBLISHED" <=> publishedAt[e]
        BY <2>3, <4>1 DEF CalibrationInv, WorkflowInv, ReviewCompletedOnce
      <4>3. publishedAt'[e] /\ status'[e] = "PUBLISHED"
        BY <2>3
      <4>4. completions'[e] = IF status[e] # "PUBLISHED" THEN completions[e] + 1 ELSE completions[e]
        BY <2>3
      <4>5. CASE publishedAt[e]
        BY <4>1, <4>2, <4>3, <4>4, <4>5
      <4>6. CASE ~publishedAt[e]
        BY <4>1, <4>2, <4>3, <4>4, <4>6
      <4> QED BY <4>5, <4>6
    <3>2. ASSUME NEW e \in Evaluations \ rows
          PROVE  completions'[e] = completions[e] /\ publishedAt'[e] = publishedAt[e] /\ status'[e] = status[e]
      BY <2>3 DEF TypeOK
    <3> QED BY <2>3, <3>1, <3>2 DEF CalibrationInv, WorkflowInv, ReviewCompletedOnce
  <2>7. \A e \in Evaluations : Exists(e) => Exists(e)'
    BY <2>3 DEF Exists
  <2>8. OneWriterPerSession' /\ CycleHeldOpen'
    BY <1>9, <2>1 DEF CommitFinalize, CalibrationInv, OneWriterPerSession, CycleHeldOpen, SessionCycleNotLocked,
       CalibrationTypeOK, Working
  <2>9. FinalizedRowsExist'
    <3> SUFFICES ASSUME NEW p \in Operators, work'[p].op = "finalize", NEW e \in work'[p].rows
                 PROVE  Exists(e)'
      BY DEF FinalizedRowsExist, Exists
    <3>1. p # o /\ work'[p] = work[p]
      BY <1>9 DEF CommitFinalize, CalibrationTypeOK
    <3>2. Exists(e)
      BY <3>1 DEF CalibrationInv, FinalizedRowsExist
    <3>3. e \in Evaluations
      BY <3>1 DEF CalibrationTypeOK, Working
    <3> QED BY <2>7, <3>2, <3>3
  <2>10. FinalizedScopeIsClosed'
    BY <1>9, <2>1, <2>2 DEF CommitFinalize, RowsToPublish, CalibrationInv, WorkflowInv, LockCoversCycle,
       FinalizedScopeIsClosed, CalibrationTypeOK, TypeOK
  <2> QED BY <2>8, <2>9, <2>10, <2>4, <2>5, <2>6 DEF CalibrationInv, WorkflowInv
<1> QED
  BY <1>2, <1>3, <1>4, <1>5, <1>6, <1>7, <1>8, <1>9 DEF CalibrationNext, CalibrationStep

(* With calibration sessions publishing beside the handlers: locks,        *)
(* approvals and publications still agree, every review is completed once, *)
(* a finalization holds its cycle open, and the rows it closed stay closed. *)
THEOREM CalibrationSafe ==
    CalibrationSpec => [](/\ LockCoversCycle /\ StampsAgree /\ ReviewCompletedOnce
                          /\ CycleHeldOpen /\ FinalizedScopeIsClosed)
<1>1. CalibrationInit => TypeOK /\ CalibrationTypeOK
  BY InitTypeOK DEF CalibrationInit, CalibrationTypeOK
<1>2. CalibrationSpec => []CalibrationInv
  BY <1>1, StepCalibrationTypeOK, InitCalibrationInv, StepCalibrationInv, PTL DEF CalibrationSpec
<1> QED
  BY <1>2, PTL DEF CalibrationInv, WorkflowInv

(* Each of them by itself, for the rows of all the handlers.  No sequence  *)
(* of openings, corrections and locks leaves a writable row in a locked    *)
(* cycle.                                                                  *)
THEOREM CalibrationLocksCoverCycles == CalibrationSpec => []LockCoversCycle
BY CalibrationSafe, PTL

(* Publishing, finalizing and finalizing again complete a review once.     *)
THEOREM CalibrationCompletesOnce == CalibrationSpec => []ReviewCompletedOnce
BY CalibrationSafe, PTL

(* Nobody locks the cycle of a session while a finalization goes on.       *)
THEOREM CyclesStayOpen == CalibrationSpec => []CycleHeldOpen
BY CalibrationSafe, PTL

-----------------------------------------------------------------------------
(* Locking is final, and the lifecycle is implemented, here too.           *)

(* What a request of calibration may do to the workflow.                   *)
LEMMA CalibrationSteps ==
    ASSUME CalibrationTypeOK, [CalibrationNext]_allVars
    PROVE  \/ [Next]_workflowVars
           \/ UNCHANGED <<cycleStatus, rowVars, historyVars>>
           \/ \E o \in Operators : CommitFinalize(o)
<1>1. CASE UNCHANGED allVars
  BY <1>1 DEF allVars
<1>2. CASE WorkflowStep
  BY <1>2 DEF WorkflowStep
<1>3. ASSUME NEW o \in Operators, InsertSession(o) \/ (\E s \in Sessions :
                CheckCreate(o, s) \/ BeginFinalize(o, s) \/ \E e \in Evaluations : ReadScore(o, s, e))
      PROVE  UNCHANGED workflowVars
  BY <1>3 DEF InsertSession, CheckCreate, BeginFinalize, ReadScore
<1>4. ASSUME NEW o \in Operators, AdjustScore(o) PROVE UNCHANGED <<cycleStatus, rowVars, historyVars>>
  BY <1>4 DEF AdjustScore
<1> QED
  BY <1>1, <1>2, <1>3, <1>4 DEF CalibrationNext, CalibrationStep

(* The rows a finalization publishes: read earlier, unlocked when published. *)
LEMMA CommitFinalizeRows ==
    ASSUME TypeOK, CalibrationTypeOK, CalibrationInv, NEW o \in Operators, CommitFinalize(o)
    PROVE  \E rows \in SUBSET Evaluations :
              /\ \A e \in rows : Exists(e) /\ ~isLocked[e]
              /\ UNCHANGED <<cycleStatus, isLocked, resultMails>>
              /\ status' = [e \in Evaluations |-> IF e \in rows THEN "PUBLISHED" ELSE status[e]]
              /\ approvedAt' = [e \in Evaluations |-> e \in rows \/ approvedAt[e]]
              /\ publishedAt' = [e \in Evaluations |-> e \in rows \/ publishedAt[e]]
              /\ CompleteReviews(NewlyPublished(rows))
<1>1. /\ work[o].rows \in SUBSET Evaluations
      /\ \A e \in work[o].rows : Exists(e)
  <2>1. work[o].op = "finalize"
    BY DEF CommitFinalize
  <2>2. work[o] \in Working
    BY <2>1 DEF CalibrationTypeOK, Free
  <2> QED BY <2>1, <2>2 DEF Working, CalibrationInv, FinalizedRowsExist
<1>2. RowsToPublish(work[o].rows) \in SUBSET Evaluations
  BY <1>1 DEF RowsToPublish
<1>3. \A e \in RowsToPublish(work[o].rows) : Exists(e) /\ ~isLocked[e]
  BY <1>1 DEF RowsToPublish
<1> QED
  BY <1>2, <1>3 DEF CommitFinalize

(* Neither a handler nor a finalization changes a locked row.              *)
LEMMA StepCalibrationLockedRowKept ==
    TypeOK /\ CalibrationTypeOK /\ CalibrationInv /\ [CalibrationNext]_allVars
        => [\A e \in Evaluations : LockedRowKept(e)]_workflowVars
<1> SUFFICES ASSUME TypeOK, CalibrationTypeOK, CalibrationInv, [CalibrationNext]_allVars
             PROVE  [\A e \in Evaluations : LockedRowKept(e)]_workflowVars
  OBVIOUS
<1>1. CASE [Next]_workflowVars
  BY <1>1, StepLockedRowKept DEF CalibrationInv
<1>2. CASE UNCHANGED <<cycleStatus, rowVars, historyVars>>
  BY <1>2 DEF LockedRowKept, rowVars, historyVars
<1>3. ASSUME NEW o \in Operators, CommitFinalize(o) PROVE \A e \in Evaluations : LockedRowKept(e)
  <2>1. PICK rows \in SUBSET Evaluations :
           /\ \A e \in rows : Exists(e) /\ ~isLocked[e]
           /\ UNCHANGED <<cycleStatus, isLocked, resultMails>>
           /\ status' = [e \in Evaluations |-> IF e \in rows THEN "PUBLISHED" ELSE status[e]]
           /\ approvedAt' = [e \in Evaluations |-> e \in rows \/ approvedAt[e]]
           /\ publishedAt' = [e \in Evaluations |-> e \in rows \/ publishedAt[e]]
           /\ CompleteReviews(NewlyPublished(rows))
    BY <1>3, CommitFinalizeRows
  <2> QED
    BY <2>1 DEF LockedRowKept, CompleteReviews, NewlyPublished, TypeOK
<1> QED
  BY <1>1, <1>2, <1>3, CalibrationSteps

(* A finalization that read a row before it was locked does not publish it *)
(* afterwards: locking stays final beside calibration.                     *)
THEOREM CalibrationLockIsFinal == CalibrationSpec => LockIsFinal
<1>1. CalibrationInit => TypeOK /\ CalibrationTypeOK
  BY InitTypeOK DEF CalibrationInit, CalibrationTypeOK
<1> QED
  BY <1>1, StepCalibrationTypeOK, InitCalibrationInv, StepCalibrationInv, StepCalibrationLockedRowKept, PTL
  DEF CalibrationSpec, LockIsFinal

(* Every step of handlers and sessions is a step of the lifecycle or leaves *)
(* it: the commit of a finalization is one publication.                    *)
LEMMA StepCalibrationLifecycle ==
    TypeOK /\ CalibrationTypeOK /\ CalibrationInv /\ [CalibrationNext]_allVars
        => [Lifecycle!LifecycleNext]_Lifecycle!lifecycleVars
<1> SUFFICES ASSUME TypeOK, CalibrationTypeOK, CalibrationInv, [CalibrationNext]_allVars
             PROVE  [Lifecycle!LifecycleNext]_Lifecycle!lifecycleVars
  OBVIOUS
<1>1. CASE [Next]_workflowVars
  BY <1>1, StepLifecycle DEF CalibrationInv
<1>2. CASE UNCHANGED <<cycleStatus, rowVars, historyVars>>
  BY <1>2 DEF Lifecycle!lifecycleVars, PhaseOf, rowVars, historyVars
<1>3. ASSUME NEW o \in Operators, CommitFinalize(o)
      PROVE  \E S \in SUBSET Evaluations : Lifecycle!Publish(S)
  <2>1. PICK rows \in SUBSET Evaluations :
           /\ \A e \in rows : Exists(e) /\ ~isLocked[e]
           /\ UNCHANGED <<cycleStatus, isLocked, resultMails>>
           /\ status' = [e \in Evaluations |-> IF e \in rows THEN "PUBLISHED" ELSE status[e]]
           /\ approvedAt' = [e \in Evaluations |-> e \in rows \/ approvedAt[e]]
           /\ publishedAt' = [e \in Evaluations |-> e \in rows \/ publishedAt[e]]
           /\ CompleteReviews(NewlyPublished(rows))
    BY <1>3, CommitFinalizeRows
  <2> DEFINE S == NewlyPublished(rows)
  <2>2. S \in SUBSET Evaluations
    BY DEF NewlyPublished
  <2>3. ASSUME NEW e \in S PROVE PhaseOf(e) \in {"inWork", "approved"}
    BY <2>1, <2>2 DEF NewlyPublished, PhaseOf, Exists, TypeOK, Statuses, CalibrationInv, WorkflowInv,
                      LockCoversCycle
  <2>4. ASSUME NEW e \in Evaluations
        PROVE  PhaseOf(e)' = IF e \in S THEN "published" ELSE PhaseOf(e)
    BY <2>1 DEF NewlyPublished, PhaseOf, TypeOK, Statuses
  <2>5. completions' = [e \in Evaluations |-> IF e \in S THEN completions[e] + 1 ELSE completions[e]]
    BY <2>1 DEF CompleteReviews
  <2> HIDE DEF S
  <2>6. Lifecycle!Publish(S)
    BY <2>1, <2>2, <2>3, <2>4, <2>5 DEF Lifecycle!Publish
  <2> QED BY <2>2, <2>6
<1> QED
  BY <1>1, <1>2, <1>3, CalibrationSteps DEF Lifecycle!LifecycleNext

(* Publishing a whole scope at once is a publication of the lifecycle: the *)
(* rows it newly publishes were in work or approved, each completes one    *)
(* review, and no locked or absent row is touched.                         *)
THEOREM CalibrationImplementsLifecycle == CalibrationSpec => ImplementsLifecycle
<1>1. CalibrationInit => TypeOK /\ CalibrationTypeOK /\ Lifecycle!LifecycleInit
  BY InitTypeOK, InitLifecycle DEF CalibrationInit, CalibrationTypeOK
<1> QED
  BY <1>1, StepCalibrationTypeOK, InitCalibrationInv, StepCalibrationInv, StepCalibrationLifecycle, PTL
  DEF CalibrationSpec, ImplementsLifecycle, Lifecycle!LifecycleSpec
=============================================================================
