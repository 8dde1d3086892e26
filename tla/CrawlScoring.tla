----------------------------- MODULE CrawlScoring -----------------------------
(***************************************************************************)
(* The queue of the module crawl-job in which an AI scores staged rows,    *)
(* one task of crawl_scoring_execution for each, and the review of what it *)
(* scored.  Scorers claim a task in a transaction and score it outside of  *)
(* any; the loop of the worker is one scorer, and every crawl that ends    *)
(* starts up to ten more in the same process.                              *)
(*                                                                         *)
(* A task is named by its row.  Scores are in hundredths.  What a review   *)
(* leaves in final_score is left out: nothing in the program reads it.     *)
(* So are locked_at and the lease: a claim looks for QUEUED and RETRYING,  *)
(* and every write of these two clears the lock.                           *)
(***************************************************************************)
EXTENDS Naturals, FiniteSets

CONSTANTS
    Tasks,        \* rows that may be scored
    Subject,      \* Subject[t]: cycle, employee and criterion of the row
    Scorers,      \* calls of processNextScoringTask in flight
    Calls,        \* requests of reviewers and administrators in flight
    MaxAttempts,  \* max_attempts
    Answers,      \* Answers[t]: what the AI may answer within the range, in hundredths
    MaxCalls,     \* bound on requests
    MaxMishaps    \* bound on failing statements and restarts

ASSUME ScoringAssumption ==
    /\ DOMAIN Subject = Tasks
    /\ MaxAttempts \in Nat \ {0}
    /\ Answers \in [Tasks -> SUBSET (100..500)]
    /\ MaxCalls \in Nat /\ MaxMishaps \in Nat

VARIABLES
    taskStatus,    \* crawl_scoring_execution.status, "NONE" before the insert
    attemptNo,     \* attempt_no
    score,         \* score, 0 while it is NULL
    reviewStatus,  \* review_status
    appliedRows,   \* the rows whose evaluation_data_import_record is APPLIED
    scorer,        \* the local state of every scorer
    call,          \* the local state of every request
    calls,         \* requests so far
    mishaps,       \* failing statements and restarts so far
    approved,      \* history: the tasks a reviewer has approved or adjusted
    requeued,      \* history: the tasks rescored while they were RUNNING
    overlaps       \* history: the subjects two of whose tasks were scored at once

taskVars == <<taskStatus, attemptNo, score>>
reviewVars == <<reviewStatus, appliedRows, approved>>
historyVars == <<requeued, overlaps>>
scoringVars == <<taskVars, reviewVars, historyVars, scorer, call, calls, mishaps>>

TaskStatuses == {"NONE", "QUEUED", "RUNNING", "SUCCESS", "RETRYING", "FAILED"}
ReviewStatuses == {"PENDING", "APPROVED", "ADJUSTED", "REJECTED", "APPLIED"}
Free == [at |-> "free"]
Scoring == [at : {"row", "merge", "sync", "save", "error"}, task : Tasks, attempt : Nat,
            score : 0..500, previous : Tasks]
NoCall == [at |-> "none"]
Calling == [at : {"review", "mark", "commit"}, task : Tasks]

(* A task that succeeded has a score within the range of the rubric,       *)
(* however often it was averaged.                                          *)
ScoringTypeOK ==
    /\ taskStatus \in [Tasks -> TaskStatuses]
    /\ attemptNo \in [Tasks -> Nat]
    /\ score \in [Tasks -> {0} \cup 100..500]
    /\ \A t \in Tasks : taskStatus[t] = "SUCCESS" => score[t] # 0
    /\ reviewStatus \in [Tasks -> ReviewStatuses]
    /\ appliedRows \subseteq Tasks
    /\ scorer \in [Scorers -> Scoring \cup {Free}]
    /\ call \in [Calls -> Calling \cup {NoCall}]
    /\ calls \in 0..MaxCalls
    /\ mishaps \in 0..MaxMishaps
    /\ approved \subseteq Tasks /\ requeued \subseteq Tasks
    /\ overlaps \subseteq {Subject[t] : t \in Tasks}

ScoringInit ==
    /\ taskStatus = [t \in Tasks |-> "NONE"]
    /\ attemptNo = [t \in Tasks |-> 1]
    /\ score = [t \in Tasks |-> 0]
    /\ reviewStatus = [t \in Tasks |-> "PENDING"]
    /\ appliedRows = {}
    /\ scorer = [w \in Scorers |-> Free]
    /\ call = [q \in Calls |-> NoCall]
    /\ calls = 0
    /\ mishaps = 0
    /\ approved = {} /\ requeued = {} /\ overlaps = {}

-----------------------------------------------------------------------------
(* enqueueTasksForExecution: a row that has a task keeps it. *)
Enqueue(t) ==
    /\ taskStatus[t] = "NONE"
    /\ taskStatus' = [taskStatus EXCEPT ![t] = "QUEUED"]
    /\ UNCHANGED <<attemptNo, score, reviewVars, historyVars, scorer, call, calls, mishaps>>

-----------------------------------------------------------------------------
(* processNextScoringTask and executeTask                                  *)

Busy(w) == scorer[w] # Free
Scored(w) == scorer[w].task
Goes(w, at) == scorer' = [scorer EXCEPT ![w].at = at]

(* What a claim may take; the fault takes a task whose lease has expired. *)
QueuedOrExpired == {"QUEUED", "RETRYING", "RUNNING"}
ClaimableStatuses == {"QUEUED", "RETRYING"}

(* The oldest that is due and not locked by another claim: which one that  *)
(* is depends on time and on the claims of this moment.                    *)
Claim(w) ==
    /\ scorer[w] = Free
    /\ \E t \in Tasks :
          /\ taskStatus[t] \in ClaimableStatuses
          /\ taskStatus' = [taskStatus EXCEPT ![t] = "RUNNING"]
          /\ scorer' = [scorer EXCEPT ![w] =
                [at |-> "row", task |-> t, attempt |-> attemptNo[t], score |-> 0, previous |-> t]]
          /\ overlaps' = overlaps \cup
                {Subject[t] : v \in {u \in Scorers : Busy(u) /\ Subject[Scored(u)] = Subject[t]}}
    /\ UNCHANGED <<attemptNo, score, reviewVars, requeued, call, calls, mishaps>>

(* The row and its prompt are read and the AI is asked.  It answers with a *)
(* score, or the call fails, or the score is out of range.                 *)
EvaluateRow(w) ==
    /\ scorer[w].at = "row"
    /\ \/ Goes(w, "error")
       \/ \E s \in Answers[Scored(w)] : scorer' = [scorer EXCEPT ![w].at = "merge", ![w].score = s]
    /\ UNCHANGED <<taskVars, reviewVars, historyVars, call, calls, mishaps>>

(* Math.round of the mean, to hundredths; the fault adds without halving.  *)
Sum(a, b) == a + b
Blend(a, b) == (a + b + 1) \div 2

OtherSources(t) ==
    {u \in Tasks \ {t} : Subject[u] = Subject[t] /\ taskStatus[u] = "SUCCESS"}

(* The latest of the other tasks of the subject; with two sources, the one *)
(* there is.                                                               *)
MergeScores(w) ==
    /\ scorer[w].at = "merge"
    /\ IF OtherSources(Scored(w)) = {} THEN Goes(w, "save")
       ELSE \E u \in OtherSources(Scored(w)) :
              scorer' = [scorer EXCEPT ![w].at = "sync", ![w].previous = u,
                                       ![w].score = Blend(score[u], @)]
    /\ UNCHANGED <<taskVars, reviewVars, historyVars, call, calls, mishaps>>

(* The fault leaves the other source as it is. *)
NotSynced(w) == score
SyncedScores(w) == [score EXCEPT ![scorer[w].previous] = scorer[w].score]

SyncPrevious(w) ==
    /\ scorer[w].at = "sync"
    /\ score' = SyncedScores(w)
    /\ Goes(w, "save")
    /\ UNCHANGED <<taskStatus, attemptNo, reviewVars, historyVars, call, calls, mishaps>>

(* Both ends of a task name it by its id and look at nothing else.         *)
SaveScore(w) ==
    /\ scorer[w].at = "save"
    /\ taskStatus' = [taskStatus EXCEPT ![Scored(w)] = "SUCCESS"]
    /\ score' = [score EXCEPT ![Scored(w)] = scorer[w].score]
    /\ scorer' = [scorer EXCEPT ![w] = Free]
    /\ UNCHANGED <<attemptNo, reviewVars, historyVars, call, calls, mishaps>>

(* nextAttempt <= max_attempts; the faults try once too often, or do not   *)
(* count the attempt.                                                      *)
OnceMore(next) == next <= MaxAttempts + 1
WillRetry(next) == next <= MaxAttempts
SameAttempt(w) == scorer[w].attempt
NextAttempt(w) == scorer[w].attempt + 1

RecordError(w) ==
    /\ scorer[w].at = "error"
    /\ LET next == NextAttempt(w)
       IN  /\ taskStatus' = [taskStatus EXCEPT ![Scored(w)] =
                                IF WillRetry(next) THEN "RETRYING" ELSE "FAILED"]
           /\ attemptNo' = [attemptNo EXCEPT ![Scored(w)] = next]
    /\ scorer' = [scorer EXCEPT ![w] = Free]
    /\ UNCHANGED <<score, reviewVars, historyVars, call, calls, mishaps>>

-----------------------------------------------------------------------------
(* CrawlScoringService.  The repository writes on connections of its own:  *)
(* what it has written stays when the transaction around it is rolled back.*)

MakesCall == calls < MaxCalls /\ calls' = calls + 1

(* The number of attempts goes on from where it was. *)
RetryScoringExecution(t) ==
    /\ MakesCall
    /\ taskStatus[t] = "FAILED"
    /\ taskStatus' = [taskStatus EXCEPT ![t] = "QUEUED"]
    /\ UNCHANGED <<attemptNo, score, reviewVars, historyVars, scorer, call, mishaps>>

(* Whatever the status of the task and of its review is. *)
RescoreRow(t) ==
    /\ MakesCall
    /\ taskStatus[t] # "NONE"
    /\ taskStatus' = [taskStatus EXCEPT ![t] = "QUEUED"]
    /\ attemptNo' = [attemptNo EXCEPT ![t] = 1]
    /\ requeued' = IF taskStatus[t] = "RUNNING" THEN requeued \cup {t} ELSE requeued
    /\ UNCHANGED <<score, reviewVars, overlaps, scorer, call, mishaps>>

Begins(q, at, t) == call[q] = NoCall /\ call' = [call EXCEPT ![q] = [at |-> at, task |-> t]]
Over(q) == call' = [call EXCEPT ![q] = NoCall]

(* reviewExecution: the task it reads must be SUCCESS, the one it writes   *)
(* may be anything by then.                                                *)
ReviewExecution(q, t) ==
    /\ MakesCall
    /\ taskStatus[t] = "SUCCESS"
    /\ Begins(q, "review", t)
    /\ UNCHANGED <<taskVars, reviewVars, historyVars, scorer, mishaps>>

UpdateReviewStatus(q) ==
    /\ call[q].at = "review"
    /\ \E s \in {"APPROVED", "ADJUSTED", "REJECTED"} :
          /\ reviewStatus' = [reviewStatus EXCEPT ![call[q].task] = s]
          /\ approved' = IF s = "REJECTED" THEN approved ELSE approved \cup {call[q].task}
    /\ Over(q)
    /\ UNCHANGED <<taskVars, appliedRows, historyVars, scorer, calls, mishaps>>

(* The fault applies what nobody has rejected. *)
NotRejected == ReviewStatuses \ {"REJECTED"}
ReadyToApply == {"APPROVED", "ADJUSTED"}

ApplyToEvaluation(q, t) ==
    /\ MakesCall
    /\ taskStatus[t] # "NONE" /\ reviewStatus[t] \in ReadyToApply
    /\ Begins(q, "mark", t)
    /\ UNCHANGED <<taskVars, reviewVars, historyVars, scorer, mishaps>>

MarkApplied(q) ==
    /\ call[q].at = "mark"
    /\ reviewStatus' = [reviewStatus EXCEPT ![call[q].task] = "APPLIED"]
    /\ call' = [call EXCEPT ![q].at = "commit"]
    /\ UNCHANGED <<taskVars, appliedRows, approved, historyVars, scorer, calls, mishaps>>

(* The update of the record is seen when its transaction commits. *)
CommitApply(q) ==
    /\ call[q].at = "commit"
    /\ appliedRows' = appliedRows \cup {call[q].task}
    /\ Over(q)
    /\ UNCHANGED <<taskVars, reviewStatus, approved, historyVars, scorer, calls, mishaps>>

-----------------------------------------------------------------------------
Mishap == mishaps < MaxMishaps /\ mishaps' = mishaps + 1

(* A statement of a scorer is rejected; in the handler of failures this    *)
(* leaves the task RUNNING.                                                *)
ScorerFails(w) ==
    /\ Busy(w) /\ Mishap
    /\ scorer' = [scorer EXCEPT ![w] = IF @.at = "error" THEN Free ELSE [@ EXCEPT !.at = "error"]]
    /\ UNCHANGED <<taskVars, reviewVars, historyVars, call, calls>>

CallFails(q) ==
    /\ call[q] # NoCall /\ Mishap
    /\ Over(q)
    /\ UNCHANGED <<taskVars, reviewVars, historyVars, scorer, calls>>

(* Nothing looks for the tasks that were RUNNING. *)
ScoringRestart ==
    /\ Mishap
    /\ scorer' = [w \in Scorers |-> Free]
    /\ call' = [q \in Calls |-> NoCall]
    /\ UNCHANGED <<taskVars, reviewVars, historyVars, calls>>

ScorerStep(w) ==
    Claim(w) \/ EvaluateRow(w) \/ MergeScores(w) \/ SyncPrevious(w) \/ SaveScore(w) \/ RecordError(w)

ScoringNext ==
    \/ \E t \in Tasks : Enqueue(t) \/ RetryScoringExecution(t) \/ RescoreRow(t)
    \/ \E w \in Scorers : ScorerStep(w) \/ ScorerFails(w)
    \/ \E q \in Calls, t \in Tasks : ReviewExecution(q, t) \/ ApplyToEvaluation(q, t)
    \/ \E q \in Calls : UpdateReviewStatus(q) \/ MarkApplied(q) \/ CommitApply(q) \/ CallFails(q)
    \/ ScoringRestart

(* The loop polls for ever and the AI answers or times out. *)
ScoringFairness == \A w \in Scorers : WF_scoringVars(ScorerStep(w))

ScoringSpec == ScoringInit /\ [][ScoringNext]_scoringVars /\ ScoringFairness

-----------------------------------------------------------------------------
(* A task is scored by one scorer at a time, unless somebody has asked for *)
(* another score of it while it was being scored.                          *)
OneScorer ==
    \A v, w \in Scorers :
        Busy(v) /\ Busy(w) /\ Scored(v) = Scored(w) /\ Scored(v) \notin requeued => v = w

(* "Sync previous scoring record so both reflect the averaged score": two  *)
(* sources of one subject end up with the same score, in whatever order,   *)
(* after whatever failures and new scores, if they were never scored at    *)
(* the same time.                                                          *)
SourcesAgree ==
    \A t, u \in Tasks :
        /\ Subject[t] = Subject[u] /\ Subject[t] \notin overlaps
        /\ {x \in Tasks : Subject[x] = Subject[t]} = {t, u}
        /\ taskStatus[t] = "SUCCESS" /\ taskStatus[u] = "SUCCESS"
        /\ \A w \in Scorers : Busy(w) => Subject[Scored(w)] # Subject[t]
        => score[t] = score[u]

(* However the attempts of two scorers and the requests of administrators  *)
(* count over each other, a task that waits for a retry has an attempt     *)
(* left and a task that has failed has none.                               *)
AttemptsAccounted ==
    \A t \in Tasks :
        /\ taskStatus[t] = "RETRYING" => attemptNo[t] \in 2..MaxAttempts
        /\ taskStatus[t] = "FAILED" => attemptNo[t] > MaxAttempts

(* No row is applied that no reviewer has ever approved, whatever was      *)
(* scored again, rejected or interrupted in the meantime.                  *)
AppliedWasApproved ==
    /\ appliedRows \subseteq approved
    /\ \A t \in Tasks : reviewStatus[t] = "APPLIED" => t \in approved

(* While the process stays up and its statements succeed, every task that  *)
(* is queued is scored or has failed at some time after.                   *)
TasksSettle ==
    \A t \in Tasks :
        taskStatus[t] = "QUEUED" ~> taskStatus[t] \in {"SUCCESS", "FAILED"} \/ mishaps > 0
=============================================================================
