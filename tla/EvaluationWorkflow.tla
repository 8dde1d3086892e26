------------------------- MODULE EvaluationWorkflow -------------------------
(***************************************************************************)
(* The evaluation cycles and the evaluations in them, as the handlers of   *)
(* the modules evaluation-cycle and evaluation change them.                *)
(*                                                                         *)
(* A handler that runs in one transaction holding the row of the           *)
(* evaluation FOR UPDATE (and the row of the cycle FOR SHARE or FOR        *)
(* UPDATE) is one action: two-phase locking makes it atomic.  A handler    *)
(* that reads on the pool and writes in a later statement is two actions   *)
(* of a request, and anything may happen between them.                     *)
(***************************************************************************)
EXTENDS Naturals, FiniteSets

CONSTANTS
    Cycles,       \* evaluation cycles
    Individual,   \* the cycles of type INDIVIDUAL_SCHEDULED; the others are batch cycles
    Evaluations,  \* evaluation rows, one for each pair of a cycle and an employee
    Employees,    \* employees
    CycleOf,      \* the cycle of an evaluation
    EmployeeOf,   \* the employee an evaluation is about
    Scores,       \* values a score column can take
    NoScore,      \* the NULL of a score column
    Requests      \* requests in flight whose check and write are separate statements

(* Rows have one cycle and one employee; (cycle, employee) is UNIQUE. *)
ASSUME WorkflowAssumption ==
    /\ Individual \subseteq Cycles
    /\ CycleOf \in [Evaluations -> Cycles]
    /\ EmployeeOf \in [Evaluations -> Employees]
    /\ NoScore \notin Scores
    /\ \A e, f \in Evaluations :
          CycleOf[e] = CycleOf[f] /\ EmployeeOf[e] = EmployeeOf[f] => e = f

VARIABLES
    cycleStatus,  \* evaluation_cycle.status, "NONE" before the cycle is created
    status,       \* evaluation.status, "NONE" before the row is inserted
    isLocked,     \* evaluation.is_locked
    submittedAt,  \* evaluation.submitted_at is set
    approvedAt,   \* evaluation.approved_at is set
    publishedAt,  \* evaluation.published_at is set
    planComplete, \* development_blocks is not empty and every block has a value
    scored,       \* every enabled item has a level, a raw score or an override
    flagged,      \* some enabled item has is_missing_score
    finalScore,   \* evaluation.final_score
    completions,  \* history: reviews of the employee completed by publishing e
    resultMails,  \* history: RESULT_PUBLISHED notifications enqueued for e
    request       \* the local state of every request in flight

rowVars == <<status, isLocked, submittedAt, approvedAt, publishedAt>>
contentVars == <<planComplete, scored, flagged, finalScore>>
historyVars == <<completions, resultMails>>
workflowVars == <<cycleStatus, rowVars, contentVars, historyVars, request>>

CycleStatuses == {"NONE", "DRAFT", "OPEN", "IN_PROGRESS", "SUBMITTED", "REVIEWING",
                  "CALIBRATION", "APPROVED", "PUBLISHED", "LOCKED"}

Statuses == {"NONE", "OPEN", "SUBMITTED", "MANAGER_REVIEW", "APPROVED", "REJECTED",
             "PUBLISHED", "LOCKED"}

Idle == [op |-> "idle"]
Waiting == [op : {"item", "batch", "plan", "jira"}, eval : Evaluations]

TypeOK ==
    /\ cycleStatus \in [Cycles -> CycleStatuses]
    /\ status \in [Evaluations -> Statuses]
    /\ isLocked \in [Evaluations -> BOOLEAN]
    /\ submittedAt \in [Evaluations -> BOOLEAN]
    /\ approvedAt \in [Evaluations -> BOOLEAN]
    /\ publishedAt \in [Evaluations -> BOOLEAN]
    /\ planComplete \in [Evaluations -> BOOLEAN]
    /\ scored \in [Evaluations -> BOOLEAN]
    /\ flagged \in [Evaluations -> BOOLEAN]
    /\ finalScore \in [Evaluations -> Scores \cup {NoScore}]
    /\ completions \in [Evaluations -> Nat]
    /\ resultMails \in [Evaluations -> Nat]
    /\ request \in [Requests -> Waiting \cup {Idle}]

Init ==
    /\ cycleStatus = [c \in Cycles |-> "NONE"]
    /\ status = [e \in Evaluations |-> "NONE"]
    /\ isLocked = [e \in Evaluations |-> FALSE]
    /\ submittedAt = [e \in Evaluations |-> FALSE]
    /\ approvedAt = [e \in Evaluations |-> FALSE]
    /\ publishedAt = [e \in Evaluations |-> FALSE]
    /\ planComplete = [e \in Evaluations |-> FALSE]
    /\ scored = [e \in Evaluations |-> FALSE]
    /\ flagged = [e \in Evaluations |-> FALSE]
    /\ finalScore = [e \in Evaluations |-> NoScore]
    /\ completions = [e \in Evaluations |-> 0]
    /\ resultMails = [e \in Evaluations |-> 0]
    /\ request = [r \in Requests |-> Idle]

-----------------------------------------------------------------------------
(* Predicates the handlers test.                                           *)

Exists(e) == status[e] # "NONE"

(* The refusal every handler starts with: EVALUATION_LOCKED. *)
Unlocked(e) == ~isLocked[e] /\ status[e] # "LOCKED"

(* checkCycleNotLocked; lockCycle sets status and locked_at together. *)
CycleNotLocked(e) == cycleStatus[CycleOf[e]] # "LOCKED"

CycleTransitions ==
    [s \in CycleStatuses |->
        CASE s = "DRAFT" -> {"OPEN"}
          [] s = "OPEN" -> {"PUBLISHED", "LOCKED"}
          [] s = "IN_PROGRESS" -> {"SUBMITTED", "LOCKED"}
          [] s = "SUBMITTED" -> {"REVIEWING", "LOCKED"}
          [] s = "REVIEWING" -> {"CALIBRATION", "APPROVED", "LOCKED"}
          [] s = "CALIBRATION" -> {"APPROVED", "LOCKED"}
          [] s = "APPROVED" -> {"PUBLISHED", "LOCKED"}
          [] s = "PUBLISHED" -> {"LOCKED"}
          [] OTHER -> {}]

(* The statuses in which an actor may save a draft. *)
EditableStatuses(role) ==
    CASE role = "self" -> {"OPEN"}
      [] role = "manager" -> {"OPEN", "SUBMITTED", "MANAGER_REVIEW"}
      [] role = "hr" -> Statuses \ {"NONE", "LOCKED"}

(* An evaluation that stops the creation of another one for its employee. *)
Active(e) ==
    /\ status[e] \notin {"NONE", "APPROVED", "PUBLISHED", "LOCKED", "REJECTED"}
    /\ ~isLocked[e]
    /\ CycleNotLocked(e)

-----------------------------------------------------------------------------
(* Evaluation cycles.                                                      *)

CreateCycle(c) ==
    /\ c \notin Individual
    /\ cycleStatus[c] = "NONE"
    /\ cycleStatus' = [cycleStatus EXCEPT ![c] = "DRAFT"]
    /\ UNCHANGED <<rowVars, contentVars, historyVars, request>>

(* generateEvaluations: one OPEN row for every evaluation of S. *)
GenerateEvaluations(S) ==
    /\ \A e \in S : status[e] = "NONE"
    /\ status' = [e \in Evaluations |-> IF e \in S THEN "OPEN" ELSE status[e]]
    /\ UNCHANGED <<isLocked, submittedAt, approvedAt, publishedAt, contentVars, historyVars>>

(* S is what the applicable-employee query returns when the cycle opens. *)
OpenCycle(c, S) ==
    /\ c \notin Individual
    /\ cycleStatus[c] = "DRAFT"
    /\ S # {}
    /\ \A e \in S : CycleOf[e] = c
    /\ GenerateEvaluations(S)
    /\ cycleStatus' = [cycleStatus EXCEPT ![c] = "OPEN"]
    /\ UNCHANGED request

(* POST /evaluation-cycles/:id/transition moves the cycle alone. *)
TransitionCycle(c, target) ==
    /\ target # "LOCKED"
    /\ cycleStatus[c] \notin {"NONE", "LOCKED"}
    /\ target = cycleStatus[c] \/ target \in CycleTransitions[cycleStatus[c]]
    /\ cycleStatus' = [cycleStatus EXCEPT ![c] = target]
    /\ UNCHANGED <<rowVars, contentVars, historyVars, request>>

(* lockEvaluationsByCycleId; the fault locks the finished evaluations only. *)
FinishedRowsOf(c) == {e \in Evaluations : CycleOf[e] = c /\ status[e] \in {"APPROVED", "PUBLISHED"}}
RowsOfCycle(c) == {e \in Evaluations : CycleOf[e] = c /\ Exists(e)}

LockCycle(c) ==
    /\ cycleStatus[c] \notin {"NONE", "DRAFT", "LOCKED"}
    /\ "LOCKED" \in CycleTransitions[cycleStatus[c]]
    /\ cycleStatus' = [cycleStatus EXCEPT ![c] = "LOCKED"]
    /\ status' = [e \in Evaluations |-> IF e \in RowsOfCycle(c) THEN "LOCKED" ELSE status[e]]
    /\ isLocked' = [e \in Evaluations |-> e \in RowsOfCycle(c) \/ isLocked[e]]
    /\ UNCHANGED <<submittedAt, approvedAt, publishedAt, contentVars, historyVars, request>>

(* One individual cycle for each employee of M who has no active evaluation; *)
(* the evaluations of S are those of the new cycles.                         *)
CreateIndividualCycles(M, S) ==
    LET free == {m \in M : \A e \in Evaluations : EmployeeOf[e] = m => ~Active(e)}
        new  == {CycleOf[e] : e \in S}
    IN  /\ \A c \in new : c \in Individual /\ cycleStatus[c] = "NONE"
        /\ \A e, f \in S : (EmployeeOf[e] = EmployeeOf[f] \/ CycleOf[e] = CycleOf[f]) => e = f
        /\ free # {}
        /\ \A e \in S : EmployeeOf[e] \in free
        /\ \A m \in free : \E e \in S : EmployeeOf[e] = m
        /\ GenerateEvaluations(S)
        /\ cycleStatus' = [c \in Cycles |-> IF c \in new THEN "OPEN" ELSE cycleStatus[c]]
        /\ UNCHANGED request

-----------------------------------------------------------------------------
(* The transactional handlers of one evaluation.                           *)

SubmitEvaluation(e) ==
    /\ Exists(e) /\ Unlocked(e) /\ CycleNotLocked(e)
    /\ planComplete[e]
    /\ status[e] = "OPEN"
    /\ scored[e] /\ ~flagged[e]
    /\ status' = [status EXCEPT ![e] = "SUBMITTED"]
    /\ submittedAt' = [submittedAt EXCEPT ![e] = TRUE]
    /\ UNCHANGED <<cycleStatus, isLocked, approvedAt, publishedAt, contentVars, historyVars, request>>

ReviewEvaluation(e) ==
    /\ Exists(e) /\ Unlocked(e) /\ CycleNotLocked(e)
    /\ status[e] \in {"OPEN", "SUBMITTED"}
    /\ status' = [status EXCEPT ![e] = "MANAGER_REVIEW"]
    /\ UNCHANGED <<cycleStatus, isLocked, submittedAt, approvedAt, publishedAt, contentVars,
                   historyVars, request>>

(* An evaluation sent back for correction is OPEN but keeps submitted_at: *)
(* with a complete plan it counts as submitted ("status lagging").        *)
ApproveEvaluation(e) ==
    /\ Exists(e) /\ Unlocked(e) /\ CycleNotLocked(e)
    /\ \/ status[e] \in {"SUBMITTED", "MANAGER_REVIEW"}
       \/ status[e] = "OPEN" /\ submittedAt[e] /\ planComplete[e]
    /\ status' = [status EXCEPT ![e] = "APPROVED"]
    /\ approvedAt' = [approvedAt EXCEPT ![e] = TRUE]
    /\ UNCHANGED <<cycleStatus, isLocked, submittedAt, publishedAt, contentVars, historyVars, request>>

(* The fault forgets the refusal of an approved or published evaluation. *)
RejectableUnlocked(e) == Exists(e)
Rejectable(e) == Exists(e) /\ status[e] \notin {"APPROVED", "PUBLISHED"}

RejectEvaluation(e) ==
    /\ Unlocked(e) /\ Rejectable(e)
    /\ status' = [status EXCEPT ![e] = "REJECTED"]
    /\ UNCHANGED <<cycleStatus, isLocked, submittedAt, approvedAt, publishedAt, contentVars,
                   historyVars, request>>

(* The fault lets a rejected evaluation be corrected too. *)
RejectedToo == {"SUBMITTED", "MANAGER_REVIEW", "REJECTED"}
CorrectableStatuses == {"SUBMITTED", "MANAGER_REVIEW"}

RequestCorrection(e) ==
    /\ Exists(e) /\ Unlocked(e)
    /\ status[e] \in CorrectableStatuses
    /\ status' = [status EXCEPT ![e] = "OPEN"]
    /\ UNCHANGED <<cycleStatus, isLocked, submittedAt, approvedAt, publishedAt, contentVars,
                   historyVars, request>>

(* onEvaluationsPublished completes one review for each newly published row. *)
CompleteReviews(S) ==
    completions' = [e \in Evaluations |-> IF e \in S THEN completions[e] + 1 ELSE completions[e]]

PublishEvaluation(e) ==
    /\ Exists(e) /\ Unlocked(e)
    /\ status[e] = "APPROVED"
    /\ status' = [status EXCEPT ![e] = "PUBLISHED"]
    /\ publishedAt' = [publishedAt EXCEPT ![e] = TRUE]
    /\ CompleteReviews({e})
    /\ resultMails' = [resultMails EXCEPT ![e] = @ + 1]
    /\ UNCHANGED <<cycleStatus, isLocked, submittedAt, approvedAt, contentVars, request>>

LockEvaluation(e) ==
    /\ Exists(e) /\ Unlocked(e)
    /\ status[e] \in {"PUBLISHED", "APPROVED"}
    /\ status' = [status EXCEPT ![e] = "LOCKED"]
    /\ isLocked' = [isLocked EXCEPT ![e] = TRUE]
    /\ UNCHANGED <<cycleStatus, submittedAt, approvedAt, publishedAt, contentVars, historyVars, request>>

-----------------------------------------------------------------------------
(* The writers of scores.                                                  *)

(* calculateScoringForEvaluation of e, once its items are as scored' says:  *)
(* every enabled item without a score is flagged.                           *)
CalculateScoring(e) ==
    /\ \E s \in Scores : finalScore' = [finalScore EXCEPT ![e] = s]
    /\ flagged' = [flagged EXCEPT ![e] = ~scored'[e]]

(* NO_APPLICABLE_KPIS: no enabled item has a score, and nothing is written. *)
NothingToScore(e) ==
    /\ ~scored'[e] \/ ~flagged[e]
    /\ UNCHANGED <<finalScore, flagged>>

RecalculateEvaluation(e) ==
    /\ Exists(e) /\ Unlocked(e)
    /\ UNCHANGED scored
    /\ CalculateScoring(e) \/ NothingToScore(e)
    /\ UNCHANGED <<cycleStatus, rowVars, planComplete, historyVars, request>>

(* Overriding the score of one item may complete the items. *)
OverrideKpiScore(e) ==
    /\ Exists(e) /\ Unlocked(e) /\ CycleNotLocked(e)
    /\ \E b \in {scored[e], TRUE} : scored' = [scored EXCEPT ![e] = b]
    /\ CalculateScoring(e) \/ NothingToScore(e)
    /\ UNCHANGED <<cycleStatus, rowVars, planComplete, historyVars, request>>

(* One record of an import batch; a batch applies each of its records like *)
(* this, under the locks of its cycles.  A failing calculation is ignored  *)
(* and the imported item kept.                                             *)
ApplyImportedKpiData(e) ==
    /\ Exists(e) /\ Unlocked(e) /\ CycleNotLocked(e)
    /\ status[e] # "PUBLISHED"
    /\ \E b \in {scored[e], TRUE} : scored' = [scored EXCEPT ![e] = b]
    /\ CalculateScoring(e) \/ UNCHANGED <<finalScore, flagged>>
    /\ UNCHANGED <<cycleStatus, rowVars, planComplete, historyVars, request>>

(* The collector writes an item and then the total, whatever the status. *)
RecalculateEvaluationTotal(e) ==
    /\ Exists(e)
    /\ \E b \in {scored[e], TRUE} : scored' = [scored EXCEPT ![e] = b]
    /\ \E s \in Scores : finalScore' = [finalScore EXCEPT ![e] = s]
    /\ UNCHANGED <<cycleStatus, rowVars, planComplete, flagged, historyVars, request>>

-----------------------------------------------------------------------------
(* Requests that check first and write in a later statement.               *)

CheckDraft(r, op, e) ==
    /\ request[r] = Idle
    /\ op \in {"item", "batch", "plan"}
    /\ Exists(e) /\ Unlocked(e) /\ CycleNotLocked(e)
    /\ \E role \in {"self", "manager", "hr"} : status[e] \in EditableStatuses(role)
    /\ request' = [request EXCEPT ![r] = [op |-> op, eval |-> e]]
    /\ UNCHANGED <<cycleStatus, rowVars, contentVars, historyVars>>

(* saveItemDraft writes the item it was given by id: the statement does not *)
(* name the evaluation that was checked.                                    *)
Target(r) == IF request[r].op = "item" THEN {e \in Evaluations : Exists(e)}
                                       ELSE {request[r].eval}

WriteItems(r) ==
    /\ request[r].op \in {"item", "batch"}
    /\ \E e \in Target(r), b \in BOOLEAN : scored' = [scored EXCEPT ![e] = b]
    /\ request' = [request EXCEPT ![r] = Idle]
    /\ UNCHANGED <<cycleStatus, rowVars, planComplete, flagged, finalScore, historyVars>>

(* 409 VERSION_MISMATCH: another request has changed an item. *)
VersionMismatch(r) ==
    /\ request[r].op \in {"item", "batch"}
    /\ request' = [request EXCEPT ![r] = Idle]
    /\ UNCHANGED <<cycleStatus, rowVars, contentVars, historyVars>>

WritePlan(r) ==
    /\ request[r].op = "plan"
    /\ \E b \in BOOLEAN : planComplete' = [planComplete EXCEPT ![request[r].eval] = b]
    /\ request' = [request EXCEPT ![r] = Idle]
    /\ UNCHANGED <<cycleStatus, rowVars, scored, flagged, finalScore, historyVars>>

(* applyMemberKpis reads the cycle without a lock, then takes the row. *)
CheckJira(r, e) ==
    /\ request[r] = Idle
    /\ CycleNotLocked(e)
    /\ request' = [request EXCEPT ![r] = [op |-> "jira", eval |-> e]]
    /\ UNCHANGED <<cycleStatus, rowVars, contentVars, historyVars>>

(* What the import leaves of the status; the faults submit whatever they   *)
(* find, or take the status from the vocabulary of the cycles.             *)
SubmittedAnyway(e) == "SUBMITTED"
StatusOfCycle(e) == IF status[e] = "OPEN" THEN "IN_PROGRESS" ELSE status[e]
ImportedStatus(e) == IF status[e] = "OPEN" THEN "SUBMITTED" ELSE status[e]

WriteJira(r) ==
    /\ request[r].op = "jira"
    /\ LET e == request[r].eval
       IN  /\ Exists(e)
           /\ status' = [status EXCEPT ![e] = ImportedStatus(e)]
           /\ submittedAt' = [submittedAt EXCEPT ![e] = TRUE]
           /\ \E b \in {scored[e], TRUE} : scored' = [scored EXCEPT ![e] = b]
           /\ \E s \in Scores : finalScore' = [finalScore EXCEPT ![e] = s]
    /\ request' = [request EXCEPT ![r] = Idle]
    /\ UNCHANGED <<cycleStatus, isLocked, approvedAt, publishedAt, planComplete, flagged, historyVars>>

(* The employee has no evaluation in the cycle: the request gives up. *)
EvaluationNotFound(r) ==
    /\ request[r].op = "jira"
    /\ ~Exists(request[r].eval)
    /\ request' = [request EXCEPT ![r] = Idle]
    /\ UNCHANGED <<cycleStatus, rowVars, contentVars, historyVars>>

-----------------------------------------------------------------------------
CycleStep ==
    \/ \E c \in Cycles : CreateCycle(c) \/ LockCycle(c)
    \/ \E c \in Cycles, S \in SUBSET Evaluations : OpenCycle(c, S)
    \/ \E c \in Cycles, t \in CycleStatuses : TransitionCycle(c, t)
    \/ \E M \in SUBSET Employees, S \in SUBSET Evaluations : CreateIndividualCycles(M, S)

HandlerStep ==
    \E e \in Evaluations :
        \/ SubmitEvaluation(e)
        \/ ReviewEvaluation(e)
        \/ ApproveEvaluation(e)
        \/ RejectEvaluation(e)
        \/ RequestCorrection(e)
        \/ PublishEvaluation(e)
        \/ LockEvaluation(e)

ScoringStep ==
    \E e \in Evaluations :
        \/ RecalculateEvaluation(e)
        \/ OverrideKpiScore(e)
        \/ ApplyImportedKpiData(e)
        \/ RecalculateEvaluationTotal(e)

RequestStep ==
    \E r \in Requests :
        \/ \E e \in Evaluations, op \in {"item", "batch", "plan"} : CheckDraft(r, op, e)
        \/ \E e \in Evaluations : CheckJira(r, e)
        \/ WriteItems(r)
        \/ VersionMismatch(r)
        \/ WritePlan(r)
        \/ WriteJira(r)
        \/ EvaluationNotFound(r)

Next == CycleStep \/ HandlerStep \/ ScoringStep \/ RequestStep

Spec == Init /\ [][Next]_workflowVars

-----------------------------------------------------------------------------
(* Safety.                                                                 *)

(* lockCycle, lockEvaluation and the openings of cycles never leave an     *)
(* evaluation of a locked cycle writable, and the two columns that say an  *)
(* evaluation is locked never disagree.                                    *)
LockCoversCycle ==
    \A e \in Evaluations :
        /\ isLocked[e] <=> status[e] = "LOCKED"
        /\ Exists(e) /\ cycleStatus[CycleOf[e]] = "LOCKED" => isLocked[e]

(* However approvals, corrections, rejections, imports and publications    *)
(* interleave, an approval is never taken back and the status never says   *)
(* submitted, approved or published of a row without that timestamp.       *)
StampsAgree ==
    \A e \in Evaluations :
        /\ status[e] = "SUBMITTED" => submittedAt[e]
        /\ status[e] \in {"APPROVED", "PUBLISHED"} => approvedAt[e]
        /\ approvedAt[e] => status[e] \in {"APPROVED", "PUBLISHED", "LOCKED"}

(* EVAL-06: publishing completes the review of the employee in the same    *)
(* transaction, exactly once per evaluation, whoever publishes it.         *)
ReviewCompletedOnce ==
    \A e \in Evaluations :
        /\ completions[e] = IF publishedAt[e] THEN 1 ELSE 0
        /\ status[e] = "PUBLISHED" => publishedAt[e]
        /\ publishedAt[e] => status[e] \in {"PUBLISHED", "LOCKED"}

(* createIndividualCycles gives no employee a second active evaluation,    *)
(* and no later handler makes a finished one active again.                 *)
OneActiveIndividual ==
    \A e, f \in Evaluations :
        /\ EmployeeOf[e] = EmployeeOf[f]
        /\ {CycleOf[e], CycleOf[f]} \subseteq Individual
        /\ Active(e) /\ Active(f)
        => e = f

(* A locked row keeps its status, its approval and its publication for     *)
(* ever, and nothing is published, mailed or completed for it any more.    *)
LockedRowKept(e) ==
    isLocked[e] =>
        /\ status'[e] = status[e] /\ isLocked'[e]
        /\ approvedAt'[e] = approvedAt[e] /\ publishedAt'[e] = publishedAt[e]
        /\ completions'[e] = completions[e] /\ resultMails'[e] = resultMails[e]

LockIsFinal == [][\A e \in Evaluations : LockedRowKept(e)]_workflowVars

-----------------------------------------------------------------------------
(* What the documents say of the program and the code does not do.         *)

(* "Committing cycle.status = LOCKED blocks all subsequent business        *)
(* writes": the score and the content of an evaluation of a locked cycle   *)
(* never change.                                                           *)
LockedCycleBlocksWrites ==
    [][\A e \in Evaluations : cycleStatus[CycleOf[e]] = "LOCKED" =>
          /\ planComplete'[e] = planComplete[e]
          /\ scored'[e] = scored[e]
          /\ finalScore'[e] = finalScore[e]]_workflowVars

-----------------------------------------------------------------------------
(* The workflow implements the lifecycle of EvaluationLifecycle.           *)

PhaseOf(e) ==
    CASE status[e] = "NONE" -> "absent"
      [] status[e] \in {"OPEN", "SUBMITTED", "MANAGER_REVIEW", "REJECTED"} -> "inWork"
      [] status[e] = "APPROVED" -> "approved"
      [] status[e] = "PUBLISHED" -> "published"
      [] status[e] = "LOCKED" -> "locked"

Lifecycle == INSTANCE EvaluationLifecycle WITH
                phase <- [e \in Evaluations |-> PhaseOf(e)],
                frozen <- {c \in Cycles : cycleStatus[c] = "LOCKED"},
                completed <- completions

(* Every step of the workflow is a step of the lifecycle or leaves it.     *)
ImplementsLifecycle == Lifecycle!LifecycleSpec
=============================================================================
