---------------------- MODULE EvaluationWorkflowProofs ----------------------
(***************************************************************************)
(* Theorems of the evaluation workflow, for every choice of cycles,        *)
(* employees, evaluations, scores and requests.                            *)
(***************************************************************************)
EXTENDS EvaluationWorkflow, TLAPS

USE DEF Idle

(* Every step of the workflow leaves well-typed columns behind: the        *)
(* handlers put no value into a column that its type does not have.        *)
LEMMA StepTypeOK == TypeOK /\ [Next]_workflowVars => TypeOK'
<1> SUFFICES ASSUME TypeOK, [Next]_workflowVars PROVE TypeOK'
  OBVIOUS
<1> USE WorkflowAssumption DEF TypeOK
<1>1. CASE UNCHANGED workflowVars
  BY <1>1 DEF workflowVars, rowVars, contentVars, historyVars
<1>2. ASSUME NEW c \in Cycles, CreateCycle(c) PROVE TypeOK'
  BY <1>2 DEF CreateCycle, CycleStatuses, rowVars, contentVars, historyVars
<1>3. ASSUME NEW c \in Cycles, LockCycle(c) PROVE TypeOK'
  BY <1>3 DEF LockCycle, CycleStatuses, Statuses, contentVars, historyVars
<1>4. ASSUME NEW c \in Cycles, NEW S \in SUBSET Evaluations, OpenCycle(c, S) PROVE TypeOK'
  BY <1>4 DEF OpenCycle, GenerateEvaluations, CycleStatuses, Statuses, contentVars, historyVars
<1>5. ASSUME NEW c \in Cycles, NEW t \in CycleStatuses, TransitionCycle(c, t) PROVE TypeOK'
  BY <1>5 DEF TransitionCycle, rowVars, contentVars, historyVars
<1>6. ASSUME NEW M \in SUBSET Employees, NEW S \in SUBSET Evaluations,
             CreateIndividualCycles(M, S)
      PROVE  TypeOK'
  BY <1>6 DEF CreateIndividualCycles, GenerateEvaluations, CycleStatuses, Statuses,
              contentVars, historyVars
<1>7. ASSUME NEW e \in Evaluations,
             SubmitEvaluation(e) \/ ReviewEvaluation(e) \/ ApproveEvaluation(e)
               \/ RejectEvaluation(e) \/ RequestCorrection(e) \/ LockEvaluation(e)
      PROVE  TypeOK'
  BY <1>7 DEF SubmitEvaluation, ReviewEvaluation, ApproveEvaluation, RejectEvaluation,
              RequestCorrection, LockEvaluation, Statuses, contentVars, historyVars
<1>8. ASSUME NEW e \in Evaluations, PublishEvaluation(e) PROVE TypeOK'
  BY <1>8 DEF PublishEvaluation, CompleteReviews, Statuses, contentVars
<1>9. ASSUME NEW e \in Evaluations, RecalculateEvaluation(e) PROVE TypeOK'
  <2>1. CASE CalculateScoring(e)
    BY <1>9, <2>1 DEF RecalculateEvaluation, CalculateScoring, rowVars, historyVars
  <2>2. CASE NothingToScore(e)
    BY <1>9, <2>2 DEF RecalculateEvaluation, NothingToScore, rowVars, historyVars
  <2> QED BY <1>9, <2>1, <2>2 DEF RecalculateEvaluation
<1>10. ASSUME NEW e \in Evaluations, OverrideKpiScore(e) PROVE TypeOK'
  <2>1. scored' \in [Evaluations -> BOOLEAN]
    <3>1. PICK b \in {scored[e], TRUE} : scored' = [scored EXCEPT ![e] = b]
      BY <1>10 DEF OverrideKpiScore
    <3> QED BY <3>1
  <2>2. CASE CalculateScoring(e)
    BY <1>10, <2>1, <2>2 DEF OverrideKpiScore, CalculateScoring, rowVars, historyVars
  <2>3. CASE NothingToScore(e)
    BY <1>10, <2>1, <2>3 DEF OverrideKpiScore, NothingToScore, rowVars, historyVars
  <2> QED BY <1>10, <2>2, <2>3 DEF OverrideKpiScore
<1>11. ASSUME NEW e \in Evaluations, ApplyImportedKpiData(e) PROVE TypeOK'
  <2>1. scored' \in [Evaluations -> BOOLEAN]
    <3>1. PICK b \in {scored[e], TRUE} : scored' = [scored EXCEPT ![e] = b]
      BY <1>11 DEF ApplyImportedKpiData
    <3> QED BY <3>1
  <2>2. CASE CalculateScoring(e)
    BY <1>11, <2>1, <2>2 DEF ApplyImportedKpiData, CalculateScoring, rowVars, historyVars
  <2>3. CASE UNCHANGED <<finalScore, flagged>>
    BY <1>11, <2>1, <2>3 DEF ApplyImportedKpiData, rowVars, historyVars
  <2> QED BY <1>11, <2>2, <2>3 DEF ApplyImportedKpiData
<1>12. ASSUME NEW e \in Evaluations, RecalculateEvaluationTotal(e) PROVE TypeOK'
  <2>1. PICK b \in {scored[e], TRUE} : scored' = [scored EXCEPT ![e] = b]
    BY <1>12 DEF RecalculateEvaluationTotal
  <2>2. scored' \in [Evaluations -> BOOLEAN]
    BY <2>1
  <2> QED BY <1>12, <2>2 DEF RecalculateEvaluationTotal, rowVars, historyVars
<1>13. ASSUME NEW r \in Requests, NEW e \in Evaluations, NEW op \in {"item", "batch", "plan"},
              CheckDraft(r, op, e)
       PROVE  TypeOK'
  BY <1>13 DEF CheckDraft, Waiting, rowVars, contentVars, historyVars
<1>14. ASSUME NEW r \in Requests, NEW e \in Evaluations, CheckJira(r, e) PROVE TypeOK'
  BY <1>14 DEF CheckJira, Waiting, rowVars, contentVars, historyVars
<1>15. ASSUME NEW r \in Requests, WriteItems(r) PROVE TypeOK'
  <2>1. PICK e \in Target(r), b \in BOOLEAN : scored' = [scored EXCEPT ![e] = b]
    BY <1>15 DEF WriteItems
  <2>2. scored' \in [Evaluations -> BOOLEAN]
    BY <2>1
  <2> QED BY <1>15, <2>2 DEF WriteItems, Waiting, rowVars, historyVars
<1>16. ASSUME NEW r \in Requests, VersionMismatch(r) \/ EvaluationNotFound(r) PROVE TypeOK'
  BY <1>16 DEF VersionMismatch, EvaluationNotFound, Waiting, rowVars, contentVars, historyVars
<1>17. ASSUME NEW r \in Requests, WritePlan(r) PROVE TypeOK'
  <2>1. PICK b \in BOOLEAN : planComplete' = [planComplete EXCEPT ![request[r].eval] = b]
    BY <1>17 DEF WritePlan
  <2> QED BY <1>17, <2>1 DEF WritePlan, rowVars, historyVars
<1>18. ASSUME NEW r \in Requests, WriteJira(r) PROVE TypeOK'
  <2>1. request[r] \in Waiting
    BY <1>18 DEF WriteJira
  <2> DEFINE e == request[r].eval
  <2>2. e \in Evaluations
    BY <2>1 DEF Waiting
  <2>3. PICK b \in {scored[e], TRUE} : scored' = [scored EXCEPT ![e] = b]
    BY <1>18 DEF WriteJira
  <2>4. scored' \in [Evaluations -> BOOLEAN]
    BY <2>2, <2>3
  <2>5. status' \in [Evaluations -> Statuses]
    BY <1>18, <2>2 DEF WriteJira, ImportedStatus, Statuses
  <2> QED BY <1>18, <2>2, <2>4, <2>5 DEF WriteJira, historyVars
<1> HIDE DEF TypeOK
<1> QED
  BY <1>1, <1>2, <1>3, <1>4, <1>5, <1>6, <1>7, <1>8, <1>9, <1>10,
     <1>11, <1>12, <1>13, <1>14, <1>15, <1>16, <1>17, <1>18
  DEF Next, CycleStep, HandlerStep, ScoringStep, RequestStep

(* The empty tables the migrations create are well-typed.                  *)
LEMMA InitTypeOK == Init => TypeOK
BY DEF Init, TypeOK, CycleStatuses, Statuses

(* Type correctness of the evaluation_cycle and evaluation rows under all  *)
(* handlers of evaluation.service.ts and evaluation-cycle.service.ts.      *)
THEOREM TypeCorrect == Spec => []TypeOK
BY InitTypeOK, StepTypeOK, PTL DEF Spec

-----------------------------------------------------------------------------
(* The invariant.  LockCoversCycle, StampsAgree and ReviewCompletedOnce    *)
(* hold together: a locked row is LOCKED in both columns, so no handler    *)
(* that checks either writes it; an approved row is never rejected or      *)
(* corrected; and APPROVED, the one status to publish from, excludes a     *)
(* publication that has already completed a review.                        *)

WorkflowInv == LockCoversCycle /\ StampsAgree /\ ReviewCompletedOnce

(* No writer of scores or content changes a row's status, but the one      *)
(* import that submits what it fills.                                      *)
LEMMA ContentSteps ==
    ASSUME ScoringStep \/ RequestStep
    PROVE  \/ UNCHANGED <<cycleStatus, rowVars, historyVars>>
           \/ \E r \in Requests : WriteJira(r)
<1>1. ASSUME ScoringStep PROVE UNCHANGED <<cycleStatus, rowVars, historyVars>>
  BY <1>1 DEF ScoringStep, RecalculateEvaluation, OverrideKpiScore, ApplyImportedKpiData,
              RecalculateEvaluationTotal
<1>2. CASE RequestStep
  BY <1>2 DEF RequestStep, CheckDraft, CheckJira, WriteItems, VersionMismatch, WritePlan,
              EvaluationNotFound
<1> QED BY <1>1, <1>2

(* The invariants of the rows hold of the empty tables.                    *)
LEMMA InitInv == Init => WorkflowInv
BY DEF Init, WorkflowInv, LockCoversCycle, StampsAgree, ReviewCompletedOnce, Exists

(* Each handler preserves the agreement of locks, timestamps and           *)
(* completions; only the changers of a status have to be looked at.        *)
LEMMA StepInv == TypeOK /\ WorkflowInv /\ [Next]_workflowVars => WorkflowInv'
<1> SUFFICES ASSUME TypeOK, WorkflowInv, [Next]_workflowVars PROVE WorkflowInv'
  OBVIOUS
<1> USE WorkflowAssumption DEF TypeOK, WorkflowInv, LockCoversCycle, StampsAgree, ReviewCompletedOnce,
                               Exists, rowVars, historyVars
<1>1. CASE UNCHANGED <<cycleStatus, rowVars, historyVars>>
  BY <1>1
<1>2. ASSUME NEW c \in Cycles, CreateCycle(c) PROVE WorkflowInv'
  BY <1>2 DEF CreateCycle
<1>3. ASSUME NEW c \in Cycles, LockCycle(c) PROVE WorkflowInv'
  BY <1>3 DEF LockCycle, RowsOfCycle
<1>4. ASSUME NEW c \in Cycles, NEW S \in SUBSET Evaluations, OpenCycle(c, S) PROVE WorkflowInv'
  BY <1>4 DEF OpenCycle, GenerateEvaluations
<1>5. ASSUME NEW c \in Cycles, NEW t \in CycleStatuses, TransitionCycle(c, t) PROVE WorkflowInv'
  BY <1>5 DEF TransitionCycle
<1>6. ASSUME NEW M \in SUBSET Employees, NEW S \in SUBSET Evaluations, CreateIndividualCycles(M, S)
      PROVE  WorkflowInv'
  BY <1>6 DEF CreateIndividualCycles, GenerateEvaluations
<1>7. ASSUME NEW e \in Evaluations, SubmitEvaluation(e) \/ ReviewEvaluation(e) PROVE WorkflowInv'
  BY <1>7 DEF SubmitEvaluation, ReviewEvaluation, Unlocked
<1>8. ASSUME NEW e \in Evaluations, ApproveEvaluation(e) PROVE WorkflowInv'
  BY <1>8 DEF ApproveEvaluation, Unlocked
<1>9. ASSUME NEW e \in Evaluations, RejectEvaluation(e) \/ RequestCorrection(e) PROVE WorkflowInv'
  BY <1>9 DEF RejectEvaluation, Rejectable, RequestCorrection, CorrectableStatuses, Unlocked
<1>10. ASSUME NEW e \in Evaluations, PublishEvaluation(e) PROVE WorkflowInv'
  BY <1>10 DEF PublishEvaluation, CompleteReviews, Unlocked
<1>11. ASSUME NEW e \in Evaluations, LockEvaluation(e) PROVE WorkflowInv'
  BY <1>11 DEF LockEvaluation
<1>12. ASSUME NEW r \in Requests, WriteJira(r) PROVE WorkflowInv'
  <2>1. request[r].eval \in Evaluations
    BY <1>12 DEF WriteJira, Waiting
  <2> QED BY <1>12, <2>1 DEF WriteJira, ImportedStatus
<1> HIDE DEF TypeOK, WorkflowInv, rowVars, historyVars
<1>13. UNCHANGED workflowVars => UNCHANGED <<cycleStatus, rowVars, historyVars>>
  BY DEF workflowVars
<1>14. ScoringStep \/ RequestStep => WorkflowInv'
  BY <1>1, <1>12, ContentSteps
<1> QED
  BY <1>1, <1>2, <1>3, <1>4, <1>5, <1>6, <1>7, <1>9, <1>10, <1>11, <1>13, <1>14, <1>8
  DEF Next, CycleStep, HandlerStep

(* Lock, approval and publication columns agree in every reachable state,  *)
(* whatever handlers, imports and requests interleave.                     *)
THEOREM WorkflowSafe == Spec => [](LockCoversCycle /\ StampsAgree /\ ReviewCompletedOnce)
<1>1. Spec => []WorkflowInv
  BY InitTypeOK, StepTypeOK, InitInv, StepInv, PTL DEF Spec
<1> QED
  BY <1>1, PTL DEF WorkflowInv

-----------------------------------------------------------------------------
(* Locking is final.                                                       *)

(* No handler changes the status, approval or publication of a locked row. *)
LEMMA StepLockedRowKept ==
    TypeOK /\ WorkflowInv /\ [Next]_workflowVars
        => [\A e \in Evaluations : LockedRowKept(e)]_workflowVars
<1> SUFFICES ASSUME TypeOK, WorkflowInv, Next, NEW f \in Evaluations PROVE LockedRowKept(f)
  BY DEF LockedRowKept
<1> USE WorkflowAssumption DEF TypeOK, WorkflowInv, LockCoversCycle, Exists, Unlocked, rowVars, historyVars,
                               LockedRowKept
<1>1. CASE UNCHANGED <<cycleStatus, rowVars, historyVars>>
  BY <1>1
<1>2. ASSUME CycleStep PROVE LockedRowKept(f)
  BY <1>2 DEF CycleStep, CreateCycle, LockCycle, RowsOfCycle, OpenCycle, TransitionCycle,
              CreateIndividualCycles, GenerateEvaluations
<1>3. ASSUME NEW e \in Evaluations,
             SubmitEvaluation(e) \/ ReviewEvaluation(e) \/ ApproveEvaluation(e)
      PROVE  LockedRowKept(f)
  BY <1>3 DEF SubmitEvaluation, ReviewEvaluation, ApproveEvaluation
<1>4. ASSUME NEW e \in Evaluations, RejectEvaluation(e) \/ RequestCorrection(e) PROVE LockedRowKept(f)
  BY <1>4 DEF RejectEvaluation, Rejectable, RequestCorrection
<1>5. ASSUME NEW e \in Evaluations, PublishEvaluation(e) \/ LockEvaluation(e) PROVE LockedRowKept(f)
  BY <1>5 DEF PublishEvaluation, CompleteReviews, LockEvaluation
<1>6. ASSUME NEW r \in Requests, WriteJira(r) PROVE LockedRowKept(f)
  <2>1. request[r].eval \in Evaluations
    BY <1>6 DEF WriteJira, Waiting
  <2> QED BY <1>6, <2>1 DEF WriteJira, ImportedStatus
<1> HIDE DEF TypeOK, WorkflowInv, rowVars, historyVars, LockedRowKept
<1>7. ScoringStep \/ RequestStep => LockedRowKept(f)
  BY <1>1, <1>6, ContentSteps
<1> QED
  BY <1>2, <1>3, <1>4, <1>5, <1>7 DEF Next, HandlerStep

(* The refusals of lockEvaluation, publishEvaluation and the other handlers *)
(* make a lock final: no interleaving changes the status of a locked row.   *)
THEOREM LockingIsFinal == Spec => LockIsFinal
BY InitTypeOK, StepTypeOK, InitInv, StepInv, StepLockedRowKept, PTL DEF Spec, LockIsFinal

-----------------------------------------------------------------------------
(* One active individual evaluation per employee.                          *)

(* createIndividualCycles looks for active evaluations under the row lock  *)
(* of the employee; no other handler makes an inactive evaluation active.  *)
LEMMA StepOneActive ==
    TypeOK /\ OneActiveIndividual /\ [Next]_workflowVars => OneActiveIndividual'
<1> SUFFICES ASSUME TypeOK, OneActiveIndividual, [Next]_workflowVars PROVE OneActiveIndividual'
  OBVIOUS
<1> USE WorkflowAssumption
(* Enough that no step activates an evaluation; creating individual cycles is apart. *)
<1>1. ASSUME \A e \in Evaluations : CycleOf[e] \in Individual /\ Active(e)' => Active(e)
      PROVE  OneActiveIndividual'
  BY <1>1 DEF OneActiveIndividual
<1> USE DEF TypeOK, Active, CycleNotLocked, rowVars
<1>2. CASE UNCHANGED <<cycleStatus, rowVars, historyVars>>
  BY <1>1, <1>2
<1>3. ASSUME NEW c \in Cycles, CreateCycle(c) \/ LockCycle(c) PROVE OneActiveIndividual'
  BY <1>1, <1>3 DEF CreateCycle, LockCycle, RowsOfCycle
<1>4. ASSUME NEW c \in Cycles, NEW S \in SUBSET Evaluations, OpenCycle(c, S) PROVE OneActiveIndividual'
  BY <1>1, <1>4 DEF OpenCycle, GenerateEvaluations
<1>5. ASSUME NEW c \in Cycles, NEW t \in CycleStatuses, TransitionCycle(c, t) PROVE OneActiveIndividual'
  BY <1>1, <1>5 DEF TransitionCycle
<1>6. ASSUME NEW M \in SUBSET Employees, NEW S \in SUBSET Evaluations, CreateIndividualCycles(M, S)
      PROVE  OneActiveIndividual'
  BY <1>6 DEF OneActiveIndividual, CreateIndividualCycles, GenerateEvaluations
<1>7. ASSUME NEW e \in Evaluations,
             SubmitEvaluation(e) \/ ReviewEvaluation(e) \/ ApproveEvaluation(e)
               \/ RejectEvaluation(e) \/ RequestCorrection(e) \/ PublishEvaluation(e) \/ LockEvaluation(e)
      PROVE  OneActiveIndividual'
  BY <1>1, <1>7 DEF SubmitEvaluation, ReviewEvaluation, ApproveEvaluation, RejectEvaluation,
     Rejectable, RequestCorrection, CorrectableStatuses, PublishEvaluation, LockEvaluation, Exists, Unlocked
<1>8. ASSUME NEW r \in Requests, WriteJira(r) PROVE OneActiveIndividual'
  <2>1. request[r].eval \in Evaluations
    BY <1>8 DEF WriteJira, Waiting
  <2> QED BY <1>1, <1>8, <2>1 DEF WriteJira, ImportedStatus, Exists
<1> HIDE DEF TypeOK, Active, rowVars
<1>9. UNCHANGED workflowVars => UNCHANGED <<cycleStatus, rowVars, historyVars>>
  BY DEF workflowVars
<1>10. ScoringStep \/ RequestStep => OneActiveIndividual'
  BY <1>2, <1>8, ContentSteps
<1> QED
  BY <1>2, <1>3, <1>4, <1>5, <1>6, <1>7, <1>9, <1>10 DEF Next, CycleStep, HandlerStep

(* createIndividualCycles gives nobody a second active individual cycle,   *)
(* and no later handler, correction or import revives a finished one.      *)
THEOREM OneActiveIndividualEach == Spec => []OneActiveIndividual
<1>1. Init => OneActiveIndividual
  BY DEF Init, OneActiveIndividual, Active
<1> QED
  BY <1>1, InitTypeOK, StepTypeOK, StepOneActive, PTL DEF Spec

-----------------------------------------------------------------------------
(* The workflow implements EvaluationLifecycle.                            *)

Phase == [e \in Evaluations |-> PhaseOf(e)]
Frozen == {c \in Cycles : cycleStatus[c] = "LOCKED"}

(* Empty tables are the initial state of the lifecycle.                    *)
LEMMA InitLifecycle == Init => Lifecycle!LifecycleInit
BY DEF Init, Lifecycle!LifecycleInit, PhaseOf

(* A step that keeps every status within its phase, the frozen cycles and  *)
(* the completed reviews is a stutter of the lifecycle.                    *)
LEMMA StepLifecycle ==
    TypeOK /\ WorkflowInv /\ [Next]_workflowVars
        => [Lifecycle!LifecycleNext]_Lifecycle!lifecycleVars
<1> SUFFICES ASSUME TypeOK, WorkflowInv, [Next]_workflowVars
             PROVE  [Lifecycle!LifecycleNext]_Lifecycle!lifecycleVars
  OBVIOUS
<1> USE WorkflowAssumption
<1>1. CASE UNCHANGED <<cycleStatus, rowVars, historyVars>>
  BY <1>1 DEF Lifecycle!lifecycleVars, PhaseOf, rowVars, historyVars
<1>2. ASSUME NEW c \in Cycles, CreateCycle(c) \/ \E t \in CycleStatuses : TransitionCycle(c, t)
      PROVE  UNCHANGED Lifecycle!lifecycleVars
  <2>1. Frozen' = Frozen
    BY <1>2 DEF CreateCycle, TransitionCycle, Frozen, TypeOK
  <2>2. UNCHANGED <<status, completions>>
    BY <1>2 DEF CreateCycle, TransitionCycle, rowVars, historyVars
  <2>3. UNCHANGED Phase
    BY <2>2 DEF Phase, PhaseOf
  <2> QED BY <2>1, <2>2, <2>3 DEF Lifecycle!lifecycleVars, Phase, Frozen
<1>3. ASSUME NEW c \in Cycles, LockCycle(c) PROVE Lifecycle!LockCycleOf(c)
  <2>1. c \notin Frozen /\ Frozen' = Frozen \cup {c}
    BY <1>3 DEF LockCycle, Frozen, TypeOK
  <2>2. ASSUME NEW e \in Evaluations
        PROVE  PhaseOf(e)' = IF e \in Lifecycle!OfCycle(c) /\ PhaseOf(e) # "absent"
                             THEN "locked" ELSE PhaseOf(e)
    BY <1>3 DEF LockCycle, RowsOfCycle, Exists, PhaseOf, Lifecycle!OfCycle, TypeOK, Statuses
  <2>3. completions' = completions
    BY <1>3 DEF LockCycle, historyVars
  <2> QED BY <2>1, <2>2, <2>3 DEF Lifecycle!LockCycleOf, Phase, Frozen
<1>4. ASSUME NEW S \in SUBSET Evaluations, GenerateEvaluations(S), Frozen' = Frozen,
             \A e \in S : CycleOf[e] \notin Frozen
      PROVE  Lifecycle!Generate(S)
  <2>1. \A e \in S : PhaseOf(e) = "absent"
    BY <1>4 DEF GenerateEvaluations, PhaseOf
  <2>2. ASSUME NEW e \in Evaluations
        PROVE  PhaseOf(e)' = IF e \in S THEN "inWork" ELSE PhaseOf(e)
    BY <1>4 DEF GenerateEvaluations, PhaseOf, TypeOK, Statuses
  <2>3. completions' = completions
    BY <1>4 DEF GenerateEvaluations, historyVars
  <2> QED BY <1>4, <2>1, <2>2, <2>3 DEF Lifecycle!Generate, Frozen
<1>5. ASSUME NEW c \in Cycles, NEW S \in SUBSET Evaluations, OpenCycle(c, S) PROVE Lifecycle!Generate(S)
  <2>1. Frozen' = Frozen /\ \A e \in S : CycleOf[e] \notin Frozen
    BY <1>5 DEF OpenCycle, Frozen, TypeOK
  <2> QED BY <1>4, <1>5, <2>1 DEF OpenCycle
<1>6. ASSUME NEW M \in SUBSET Employees, NEW S \in SUBSET Evaluations, CreateIndividualCycles(M, S)
      PROVE  Lifecycle!Generate(S)
  <2>1. Frozen' = Frozen /\ \A e \in S : CycleOf[e] \notin Frozen
    BY <1>6 DEF CreateIndividualCycles, Frozen, TypeOK
  <2> QED BY <1>4, <1>6, <2>1 DEF CreateIndividualCycles
(* The handlers of one evaluation move its phase alone. *)
<1>7. ASSUME NEW e \in Evaluations,
             SubmitEvaluation(e) \/ ReviewEvaluation(e) \/ RejectEvaluation(e) \/ RequestCorrection(e)
      PROVE  UNCHANGED Lifecycle!lifecycleVars
  <2>1. UNCHANGED <<cycleStatus, completions>>
    BY <1>7 DEF SubmitEvaluation, ReviewEvaluation, RejectEvaluation, RequestCorrection, historyVars
  <2>2. ASSUME NEW f \in Evaluations PROVE PhaseOf(f)' = PhaseOf(f)
    BY <1>7 DEF SubmitEvaluation, ReviewEvaluation, RejectEvaluation, Rejectable, RequestCorrection,
       CorrectableStatuses, Exists, Unlocked, PhaseOf, TypeOK, Statuses
  <2> QED BY <2>1, <2>2 DEF Lifecycle!lifecycleVars
<1>8. ASSUME NEW e \in Evaluations, ApproveEvaluation(e) PROVE Lifecycle!Approve(e)
  <2>1. UNCHANGED <<cycleStatus, completions>>
    BY <1>8 DEF ApproveEvaluation, historyVars
  <2>2. PhaseOf(e) = "inWork"
    BY <1>8 DEF ApproveEvaluation, PhaseOf
  <2>3. ASSUME NEW f \in Evaluations PROVE PhaseOf(f)' = IF f = e THEN "approved" ELSE PhaseOf(f)
    BY <1>8 DEF ApproveEvaluation, PhaseOf, TypeOK, Statuses
  <2> QED BY <2>1, <2>2, <2>3 DEF Lifecycle!Approve
<1>9. ASSUME NEW e \in Evaluations, PublishEvaluation(e) PROVE Lifecycle!Publish({e})
  <2>1. UNCHANGED cycleStatus /\ CompleteReviews({e})
    BY <1>9 DEF PublishEvaluation
  <2>2. PhaseOf(e) = "approved"
    BY <1>9 DEF PublishEvaluation, PhaseOf
  <2>3. ASSUME NEW f \in Evaluations
        PROVE  PhaseOf(f)' = IF f \in {e} THEN "published" ELSE PhaseOf(f)
    BY <1>9 DEF PublishEvaluation, PhaseOf, TypeOK, Statuses
  <2> QED BY <2>1, <2>2, <2>3 DEF Lifecycle!Publish, CompleteReviews
<1>10. ASSUME NEW e \in Evaluations, LockEvaluation(e) PROVE Lifecycle!LockOne(e)
  <2>1. UNCHANGED <<cycleStatus, completions>>
    BY <1>10 DEF LockEvaluation, historyVars
  <2>2. PhaseOf(e) \in {"approved", "published"}
    BY <1>10 DEF LockEvaluation, PhaseOf
  <2>3. ASSUME NEW f \in Evaluations PROVE PhaseOf(f)' = IF f = e THEN "locked" ELSE PhaseOf(f)
    BY <1>10 DEF LockEvaluation, PhaseOf, TypeOK, Statuses
  <2> QED BY <2>1, <2>2, <2>3 DEF Lifecycle!LockOne
<1>11. ASSUME NEW r \in Requests, WriteJira(r) PROVE UNCHANGED Lifecycle!lifecycleVars
  <2>1. request[r].eval \in Evaluations
    BY <1>11 DEF WriteJira, Waiting, TypeOK
  <2>2. UNCHANGED <<cycleStatus, completions>>
    BY <1>11 DEF WriteJira, historyVars
  <2>3. ASSUME NEW f \in Evaluations PROVE PhaseOf(f)' = PhaseOf(f)
    BY <1>11, <2>1 DEF WriteJira, ImportedStatus, PhaseOf, TypeOK, Statuses
  <2> QED BY <2>2, <2>3 DEF Lifecycle!lifecycleVars
<1>12. UNCHANGED workflowVars => UNCHANGED <<cycleStatus, rowVars, historyVars>>
  BY DEF workflowVars
<1>13. ScoringStep \/ RequestStep => [Lifecycle!LifecycleNext]_Lifecycle!lifecycleVars
  BY <1>1, <1>11, ContentSteps
<1>14. CycleStep => [Lifecycle!LifecycleNext]_Lifecycle!lifecycleVars
  BY <1>2, <1>3, <1>5, <1>6 DEF CycleStep, Lifecycle!LifecycleNext
<1>15. HandlerStep => [Lifecycle!LifecycleNext]_Lifecycle!lifecycleVars
  BY <1>7, <1>8, <1>9, <1>10 DEF HandlerStep, Lifecycle!LifecycleNext
<1> QED
  BY <1>1, <1>12, <1>13, <1>14, <1>15 DEF Next

(* Every behaviour of the workflow is one of the abstract lifecycle:       *)
(* phases only advance, a publication completes one review, and locking a  *)
(* cycle locks all of its evaluations in the same step.                    *)
THEOREM WorkflowImplementsLifecycle == Spec => ImplementsLifecycle
BY InitTypeOK, StepTypeOK, InitInv, StepInv, InitLifecycle, StepLifecycle, PTL
   DEF Spec, ImplementsLifecycle, Lifecycle!LifecycleSpec
=============================================================================
