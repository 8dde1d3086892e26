----------------------------- MODULE Calibration -----------------------------
(***************************************************************************)
(* The calibration sessions of the module calibration, beside the workflow *)
(* they publish into.  Creating a session and adjusting a score read on    *)
(* the pool and write in a later transaction.  Finalizing a session holds  *)
(* the session FOR UPDATE and the cycle FOR SHARE, reads the evaluations   *)
(* without locking them, and locks them only when it publishes them.       *)
(***************************************************************************)
EXTENDS EvaluationWorkflow, Sequences

CONSTANTS
    Sessions,       \* calibration sessions that may be created
    SessionCycle,   \* evaluation_cycle_id of a session
    SessionScope,   \* scope_type and scope_id of a session
    RowsInScope,    \* the evaluations in a scope: all, or those of a team or department
    Operators,      \* calibration requests in flight
    MaxAdjustments  \* bound on the adjustments of one evaluation

ASSUME CalibrationAssumption ==
    /\ SessionCycle \in [Sessions -> Cycles]
    /\ RowsInScope \in [{SessionScope[s] : s \in Sessions} -> SUBSET Evaluations]
    /\ MaxAdjustments \in Nat

VARIABLES
    sessionStatus,  \* calibration_session.status, "NONE" before the insert
    work,           \* the local state of every calibration request
    adjustments,    \* calibration_adjustment: the adjustments of an evaluation, in order
    finalized       \* history: the evaluations a session was finalized with

calibrationVars == <<sessionStatus, work, adjustments, finalized>>
allVars == <<workflowVars, calibrationVars>>

Free == [op |-> "free"]

Working ==
    [op : {"create"}, session : Sessions]
    \cup [op : {"adjust"}, session : Sessions, eval : Evaluations,
          old : Scores \cup {NoScore}, seen : Nat]
    \cup [op : {"finalize"}, session : Sessions, rows : SUBSET Evaluations]

Adjustment == [session : Sessions, old : Scores \cup {NoScore}, new : Scores, seen : Nat]

CalibrationTypeOK ==
    /\ sessionStatus \in [Sessions -> {"NONE", "OPEN", "FINALIZED"}]
    /\ work \in [Operators -> Working \cup {Free}]
    /\ adjustments \in [Evaluations -> Seq(Adjustment)]
    /\ finalized \in [Sessions -> SUBSET Evaluations]

CalibrationInit ==
    /\ Init
    /\ sessionStatus = [s \in Sessions |-> "NONE"]
    /\ work = [o \in Operators |-> Free]
    /\ adjustments = [e \in Evaluations |-> <<>>]
    /\ finalized = [s \in Sessions |-> {}]

SessionCycleNotLocked(s) == cycleStatus[SessionCycle[s]] # "LOCKED"

SameScope(s, t) == SessionCycle[s] = SessionCycle[t] /\ SessionScope[s] = SessionScope[t]

(* getEvaluationsForSession *)
EvaluationsForSession(s) ==
    {e \in RowsInScope[SessionScope[s]] : CycleOf[e] = SessionCycle[s] /\ Exists(e)}

(* A request that finalizes a session holds the row of its cycle FOR SHARE. *)
CycleShared(c) ==
    \E o \in Operators : work[o].op = "finalize" /\ SessionCycle[work[o].session] = c

(* The id of a session is new: no other request inserts the same row. *)
SessionPlanned(s) == \E o \in Operators : work[o].op = "create" /\ work[o].session = s

SessionHeld(s) == \E o \in Operators : work[o].op = "finalize" /\ work[o].session = s

-----------------------------------------------------------------------------
(* createSession *)

CheckCreate(o, s) ==
    /\ work[o] = Free
    /\ sessionStatus[s] = "NONE" /\ ~SessionPlanned(s)
    /\ cycleStatus[SessionCycle[s]] # "NONE" /\ SessionCycleNotLocked(s)
    /\ \A t \in Sessions : SameScope(s, t) => sessionStatus[t] # "OPEN"
    /\ work' = [work EXCEPT ![o] = [op |-> "create", session |-> s]]
    /\ UNCHANGED <<workflowVars, sessionStatus, adjustments, finalized>>

(* The fault inserts the session with the first status of a cycle. *)
InsertDraftSession(o) ==
    /\ work[o].op = "create"
    /\ sessionStatus' = [sessionStatus EXCEPT ![work[o].session] = "DRAFT"]
    /\ work' = [work EXCEPT ![o] = Free]
    /\ UNCHANGED <<workflowVars, adjustments, finalized>>

InsertSession(o) ==
    /\ work[o].op = "create"
    /\ sessionStatus' = [sessionStatus EXCEPT ![work[o].session] = "OPEN"]
    /\ work' = [work EXCEPT ![o] = Free]
    /\ UNCHANGED <<workflowVars, adjustments, finalized>>

-----------------------------------------------------------------------------
(* adjustScore *)

(* Any evaluation of the cycle may be adjusted, in the scope or not. *)
ReadScore(o, s, e) ==
    /\ work[o] = Free
    /\ sessionStatus[s] = "OPEN"
    /\ SessionCycleNotLocked(s)
    /\ Exists(e) /\ CycleOf[e] = SessionCycle[s] /\ ~isLocked[e]
    /\ Len(adjustments[e]) < MaxAdjustments
    /\ work' = [work EXCEPT ![o] = [op |-> "adjust", session |-> s, eval |-> e,
                                    old |-> finalScore[e], seen |-> Len(adjustments[e])]]
    /\ UNCHANGED <<workflowVars, sessionStatus, adjustments, finalized>>

AdjustScore(o) ==
    /\ work[o].op = "adjust"
    /\ LET e == work[o].eval
       IN  \E new \in Scores :
             /\ adjustments' = [adjustments EXCEPT ![e] =
                    Append(@, [session |-> work[o].session, old |-> work[o].old,
                               new |-> new, seen |-> work[o].seen])]
             /\ finalScore' = [finalScore EXCEPT ![e] = new]
    /\ work' = [work EXCEPT ![o] = Free]
    /\ UNCHANGED <<cycleStatus, rowVars, planComplete, scored, flagged, historyVars, request,
                   sessionStatus, finalized>>

-----------------------------------------------------------------------------
(* finalizeSession *)

BeginFinalize(o, s) ==
    /\ work[o] = Free
    /\ ~SessionHeld(s)
    /\ sessionStatus[s] = "OPEN"
    /\ SessionCycleNotLocked(s)
    /\ \A e \in EvaluationsForSession(s) : ~isLocked[e]
    /\ work' = [work EXCEPT ![o] = [op |-> "finalize", session |-> s,
                                    rows |-> EvaluationsForSession(s)]]
    /\ UNCHANGED <<workflowVars, sessionStatus, adjustments, finalized>>

(* The rows transitionEvaluationsAndAutoPublish updates: those still       *)
(* unlocked, in any status.  The fault publishes approved rows only.       *)
ApprovedRows(rows) == {e \in rows : ~isLocked[e] /\ status[e] = "APPROVED"}
RowsToPublish(rows) == {e \in rows : ~isLocked[e]}

(* The rows whose review is completed: those that were PUBLISHED already   *)
(* are left out.  The fault counts every row it updates.                   *)
EveryRow(rows) == rows
NewlyPublished(rows) == {e \in rows : status[e] # "PUBLISHED"}

(* Nobody is mailed. *)
CommitFinalize(o) ==
    /\ work[o].op = "finalize"
    /\ LET s == work[o].session
           rows == RowsToPublish(work[o].rows)
       IN  /\ sessionStatus' = [sessionStatus EXCEPT ![s] = "FINALIZED"]
           /\ finalized' = [finalized EXCEPT ![s] = work[o].rows]
           /\ status' = [e \in Evaluations |-> IF e \in rows THEN "PUBLISHED" ELSE status[e]]
           /\ approvedAt' = [e \in Evaluations |-> e \in rows \/ approvedAt[e]]
           /\ publishedAt' = [e \in Evaluations |-> e \in rows \/ publishedAt[e]]
           /\ CompleteReviews(NewlyPublished(rows))
    /\ work' = [work EXCEPT ![o] = Free]
    /\ UNCHANGED <<cycleStatus, isLocked, submittedAt, contentVars, resultMails, request, adjustments>>

-----------------------------------------------------------------------------
(* A handler of the workflow that writes a cycle waits for its row lock. *)
WorkflowStep ==
    /\ Next
    /\ \A c \in Cycles : CycleShared(c) => cycleStatus'[c] = cycleStatus[c]
    /\ UNCHANGED calibrationVars

CalibrationStep ==
    \E o \in Operators :
        \/ \E s \in Sessions : CheckCreate(o, s) \/ BeginFinalize(o, s)
        \/ \E s \in Sessions, e \in Evaluations : ReadScore(o, s, e)
        \/ InsertSession(o)
        \/ AdjustScore(o)
        \/ CommitFinalize(o)

CalibrationNext == WorkflowStep \/ CalibrationStep

CalibrationSpec == CalibrationInit /\ [][CalibrationNext]_allVars

-----------------------------------------------------------------------------
(* Safety, beside the invariants of the workflow, which hold here too.     *)

(* Whatever was published, locked or adjusted between the read and the     *)
(* commit of a finalization, each evaluation it was finalized with ends    *)
(* up published or locked and is never worked on again.                    *)
FinalizedScopeIsClosed ==
    \A s \in Sessions : \A e \in finalized[s] :
        sessionStatus[s] = "FINALIZED" /\ status[e] \in {"PUBLISHED", "LOCKED"}

(* The cycle of a session cannot be locked between the check and the       *)
(* commit of its finalization.                                             *)
CycleHeldOpen ==
    \A o \in Operators : work[o].op = "finalize" =>
        /\ SessionCycleNotLocked(work[o].session)
        /\ sessionStatus[work[o].session] = "OPEN"

-----------------------------------------------------------------------------
(* What the documents say of the program and the code does not do.         *)

(* "Concurrent calibration adjustments use row locks/versioning to prevent *)
(* lost updates": an adjustment replaces the score it has read.            *)
NoLostAdjustment ==
    \A e \in Evaluations : \A i \in 1..Len(adjustments[e]) : adjustments[e][i].seen = i - 1
=============================================================================
