-------------------------- MODULE CrawlScoringProofs --------------------------
(***************************************************************************)
(* Theorems of the scoring queue, for any number of rows, scorers,         *)
(* requests and attempts, and whatever the AI answers.                     *)
(***************************************************************************)
EXTENDS CrawlScoring, TLAPS

(* What a scorer is about to blend or to save is within the range.         *)
ScoresInRange ==
    \A w \in Scorers : scorer[w].at \in {"merge", "sync", "save"} => scorer[w].score \in 100..500

TypeInv == ScoringTypeOK /\ ScoresInRange

(* The mean of two scores within the range is within the range.            *)
LEMMA BlendInRange == \A a, b \in 100..500 : Blend(a, b) \in 100..500
BY DEF Blend

(* A scorer that is not free has a task.                                   *)
LEMMA BusyScorer ==
    ASSUME ScoringTypeOK, NEW w \in Scorers, scorer[w] # Free \/ scorer[w].at # "free"
    PROVE  scorer[w] \in Scoring
BY DEF ScoringTypeOK, Free

(* A request that has begun has a task.                                    *)
LEMMA OpenCall ==
    ASSUME ScoringTypeOK, NEW q \in Calls, call[q] # NoCall \/ call[q].at # "none"
    PROVE  call[q] \in Calling
BY DEF ScoringTypeOK, NoCall

(* What a scorer takes over from the AI and from another source.           *)
LEMMA Answered ==
    ASSUME NEW y \in Scoring, NEW s \in 100..500
    PROVE  LET x == [y EXCEPT !.at = "merge", !.score = s]
           IN  x \in Scoring /\ x.score \in 100..500
<1>1. s \in 0..500
  OBVIOUS
<1>2. [y EXCEPT !.at = "merge", !.score = s] \in Scoring
  BY <1>1 DEF Scoring
<1>3. [y EXCEPT !.at = "merge", !.score = s].score = s
  BY <1>1 DEF Scoring
<1> QED BY <1>2, <1>3

LEMMA Merged ==
    ASSUME NEW y \in Scoring, NEW s \in 100..500, NEW u \in Tasks
    PROVE  LET x == [y EXCEPT !.at = "sync", !.previous = u, !.score = s]
           IN  x \in Scoring /\ x.score \in 100..500
<1>1. s \in 0..500
  OBVIOUS
<1>2. [y EXCEPT !.at = "sync", !.previous = u, !.score = s] \in Scoring
  BY <1>1 DEF Scoring
<1>3. [y EXCEPT !.at = "sync", !.previous = u, !.score = s].score = s
  BY <1>1 DEF Scoring
<1> QED BY <1>2, <1>3

(* What one scorer does leaves the types of the others alone.              *)
LEMMA ScorerMoves ==
    ASSUME TypeInv, NEW w \in Scorers, NEW x \in Scoring,
           x.at \in {"merge", "sync", "save"} => x.score \in 100..500,
           scorer' = [scorer EXCEPT ![w] = x]
    PROVE  scorer' \in [Scorers -> Scoring \cup {Free}] /\ ScoresInRange'
BY DEF TypeInv, ScoringTypeOK, ScoresInRange

LEMMA InitTypeInv == ScoringInit => TypeInv
BY ScoringAssumption
DEF ScoringInit, TypeInv, ScoringTypeOK, ScoresInRange, TaskStatuses, ReviewStatuses, Free

LEMMA StepTypeInv == TypeInv /\ [ScoringNext]_scoringVars => TypeInv'
<1> SUFFICES ASSUME TypeInv, [ScoringNext]_scoringVars PROVE TypeInv'
  OBVIOUS
<1> USE ScoringAssumption DEF TypeInv, ScoringTypeOK
<1>1. CASE UNCHANGED scoringVars
  BY <1>1 DEF scoringVars, taskVars, reviewVars, historyVars, ScoresInRange
<1>2. ASSUME NEW t \in Tasks, Enqueue(t) \/ RetryScoringExecution(t) \/ RescoreRow(t) PROVE TypeInv'
  BY <1>2 DEF Enqueue, RetryScoringExecution, RescoreRow, MakesCall, reviewVars, historyVars,
              TaskStatuses, ScoresInRange
<1>3. ASSUME NEW w \in Scorers, Claim(w) PROVE TypeInv'
  <2>1. PICK t \in Tasks :
          /\ taskStatus' = [taskStatus EXCEPT ![t] = "RUNNING"]
          /\ scorer' = [scorer EXCEPT ![w] =
                [at |-> "row", task |-> t, attempt |-> attemptNo[t], score |-> 0, previous |-> t]]
          /\ overlaps' = overlaps \cup
                {Subject[t] : v \in {u \in Scorers : Busy(u) /\ Subject[Scored(u)] = Subject[t]}}
    BY <1>3 DEF Claim
  <2>2. scorer' \in [Scorers -> Scoring \cup {Free}]
    BY <2>1 DEF Scoring
  <2>3. overlaps' \subseteq {Subject[u] : u \in Tasks}
    BY <2>1
  <2> QED BY <1>3, <2>1, <2>2, <2>3 DEF Claim, TaskStatuses, reviewVars, ScoresInRange
<1>4. ASSUME NEW w \in Scorers, EvaluateRow(w) PROVE TypeInv'
  <2>1. scorer[w] \in Scoring
    BY <1>4, BusyScorer DEF EvaluateRow
  <2>2. CASE Goes(w, "error")
    BY <1>4, <2>1, <2>2 DEF EvaluateRow, Goes, Scoring, taskVars, reviewVars, historyVars, ScoresInRange
  <2>3. ASSUME NEW s \in Answers[Scored(w)],
               scorer' = [scorer EXCEPT ![w].at = "merge", ![w].score = s]
        PROVE  TypeInv'
    <3>1. s \in 100..500
      <4>1. Scored(w) \in Tasks
        BY <2>1 DEF Scored, Scoring
      <4> QED BY <4>1, ScoringAssumption
    <3> DEFINE x == [scorer[w] EXCEPT !.at = "merge", !.score = s]
    <3>2. x \in Scoring /\ x.score \in 100..500
      BY <2>1, <3>1, Answered
    <3>3. scorer' = [scorer EXCEPT ![w] = x]
      BY <2>3
    <3> HIDE DEF x
    <3>4. scorer' \in [Scorers -> Scoring \cup {Free}] /\ ScoresInRange'
      BY <3>2, <3>3, ScorerMoves
    <3> QED BY <1>4, <3>4 DEF EvaluateRow, taskVars, reviewVars, historyVars
  <2> QED BY <1>4, <2>2, <2>3 DEF EvaluateRow
<1>5. ASSUME NEW w \in Scorers, MergeScores(w) PROVE TypeInv'
  <2>1. scorer[w] \in Scoring /\ scorer[w].score \in 100..500
    BY <1>5, BusyScorer DEF MergeScores, ScoresInRange
  <2>2. CASE Goes(w, "save")
    <3> DEFINE x == [scorer[w] EXCEPT !.at = "save"]
    <3>1. x \in Scoring /\ x.score \in 100..500
      BY <2>1 DEF Scoring
    <3>2. scorer' = [scorer EXCEPT ![w] = x]
      BY <2>2 DEF Goes
    <3> HIDE DEF x
    <3>3. scorer' \in [Scorers -> Scoring \cup {Free}] /\ ScoresInRange'
      BY <3>1, <3>2, ScorerMoves
    <3> QED BY <1>5, <3>3 DEF MergeScores, taskVars, reviewVars, historyVars
  <2>3. ASSUME NEW u \in OtherSources(Scored(w)),
               scorer' = [scorer EXCEPT ![w].at = "sync", ![w].previous = u,
                                        ![w].score = Blend(score[u], @)]
        PROVE  TypeInv'
    <3> DEFINE b == Blend(score[u], scorer[w].score)
    <3>1. u \in Tasks /\ score[u] \in 100..500
      BY <2>3 DEF OtherSources
    <3>2. b \in 100..500
      BY <2>1, <3>1, BlendInRange
    <3> DEFINE x == [scorer[w] EXCEPT !.at = "sync", !.previous = u, !.score = b]
    <3>3. scorer' = [scorer EXCEPT ![w] = x]
      BY <2>3
    <3> HIDE DEF b
    <3>4. x \in Scoring /\ x.score \in 100..500
      BY <2>1, <3>1, <3>2, Merged
    <3> HIDE DEF x
    <3>5. scorer' \in [Scorers -> Scoring \cup {Free}] /\ ScoresInRange'
      BY <3>3, <3>4, ScorerMoves
    <3> QED BY <1>5, <3>5 DEF MergeScores, taskVars, reviewVars, historyVars
  <2> QED BY <1>5, <2>2, <2>3 DEF MergeScores
<1>6. ASSUME NEW w \in Scorers, SyncPrevious(w) PROVE TypeInv'
  <2>1. scorer[w] \in Scoring /\ scorer[w].score \in 100..500
    BY <1>6, BusyScorer DEF SyncPrevious, ScoresInRange
  <2>2. score' \in [Tasks -> {0} \cup 100..500] /\ \A t \in Tasks : score[t] # 0 => score'[t] # 0
    BY <1>6, <2>1 DEF SyncPrevious, SyncedScores, Scoring
  <2> QED BY <1>6, <2>1, <2>2 DEF SyncPrevious, Goes, Scoring, reviewVars, historyVars, ScoresInRange
<1>7. ASSUME NEW w \in Scorers, SaveScore(w) PROVE TypeInv'
  <2>1. scorer[w] \in Scoring /\ scorer[w].score \in 100..500
    BY <1>7, BusyScorer DEF SaveScore, ScoresInRange
  <2> QED BY <1>7, <2>1
          DEF SaveScore, Scored, Scoring, Free, TaskStatuses, reviewVars, historyVars, ScoresInRange
<1>8. ASSUME NEW w \in Scorers, RecordError(w) PROVE TypeInv'
  <2>1. scorer[w] \in Scoring
    BY <1>8, BusyScorer DEF RecordError
  <2>2. NextAttempt(w) \in Nat
    BY <2>1 DEF NextAttempt, Scoring
  <2> QED BY <1>8, <2>1, <2>2
          DEF RecordError, Scored, Scoring, Free, TaskStatuses, reviewVars, historyVars, ScoresInRange
<1>9. ASSUME NEW q \in Calls, NEW t \in Tasks, ReviewExecution(q, t) \/ ApplyToEvaluation(q, t)
      PROVE  TypeInv'
  BY <1>9 DEF ReviewExecution, ApplyToEvaluation, MakesCall, Begins, Calling,
              taskVars, reviewVars, historyVars, ScoresInRange
<1>10. ASSUME NEW q \in Calls, UpdateReviewStatus(q) \/ MarkApplied(q) \/ CommitApply(q) PROVE TypeInv'
  <2>1. call[q] \in Calling
    BY <1>10, OpenCall DEF UpdateReviewStatus, MarkApplied, CommitApply
  <2>2. CASE UpdateReviewStatus(q)
    BY <2>1, <2>2 DEF UpdateReviewStatus, Over, Calling, ReviewStatuses, taskVars, historyVars, ScoresInRange
  <2>3. CASE MarkApplied(q) \/ CommitApply(q)
    BY <2>1, <2>3 DEF MarkApplied, CommitApply, Over, Calling, ReviewStatuses, taskVars, historyVars,
                      ScoresInRange
  <2> QED BY <1>10, <2>2, <2>3
<1>11. ASSUME NEW w \in Scorers, ScorerFails(w) PROVE TypeInv'
  <2>1. scorer[w] \in Scoring
    BY <1>11, BusyScorer DEF ScorerFails, Busy
  <2> QED BY <1>11, <2>1 DEF ScorerFails, Mishap, Scoring, Free, taskVars, reviewVars, historyVars, ScoresInRange
<1>12. ASSUME NEW q \in Calls, CallFails(q) PROVE TypeInv'
  BY <1>12 DEF CallFails, Mishap, Over, taskVars, reviewVars, historyVars, ScoresInRange
<1>13. CASE ScoringRestart
  BY <1>13 DEF ScoringRestart, Mishap, Free, taskVars, reviewVars, historyVars, ScoresInRange
<1> HIDE DEF TypeInv, ScoringTypeOK
<1> QED
  BY <1>1, <1>2, <1>3, <1>4, <1>5, <1>6, <1>7, <1>8, <1>9, <1>10, <1>11, <1>12, <1>13
  DEF ScoringNext, ScorerStep

(* The columns of crawl_scoring_execution have their types, and every      *)
(* scored row a score within the range of the rubric, however often it is  *)
(* averaged with the score of another source.                              *)
THEOREM ScoringTypeCorrect == ScoringSpec => []ScoringTypeOK
<1>1. TypeInv => ScoringTypeOK
  BY DEF TypeInv
<1> QED BY <1>1, InitTypeInv, StepTypeInv, PTL DEF ScoringSpec

-----------------------------------------------------------------------------
(* The task of a scorer is RUNNING until the scorer is done with it, or    *)
(* somebody puts it back into the queue: only then may it be claimed again.*)

RunningUntilDone ==
    \A w \in Scorers : Busy(w) /\ Scored(w) \notin requeued => taskStatus[Scored(w)] = "RUNNING"

ScorerInv == OneScorer /\ RunningUntilDone

(* Between its claim and its end a scorer changes nothing but its progress *)
(* and its score.                                                          *)
LEMMA ScorerGoesOn ==
    ASSUME TypeInv, NEW w \in Scorers, EvaluateRow(w) \/ MergeScores(w) \/ SyncPrevious(w)
    PROVE  \E x : /\ x.at # "free"
                  /\ x.task = scorer[w].task /\ x.attempt = scorer[w].attempt
                  /\ scorer' = [scorer EXCEPT ![w] = x]
<1> DEFINE P(x) == /\ x.at # "free"
                   /\ x.task = scorer[w].task /\ x.attempt = scorer[w].attempt
                   /\ scorer' = [scorer EXCEPT ![w] = x]
<1>0. scorer[w] \in Scoring
  BY BusyScorer DEF TypeInv, EvaluateRow, MergeScores, SyncPrevious
<1>1. ASSUME NEW at \in {"save", "error"}, Goes(w, at) PROVE \E x : P(x)
  <2>1. P([scorer[w] EXCEPT !.at = at])
    BY <1>0, <1>1 DEF Goes, Scoring
  <2> HIDE DEF P
  <2> QED BY <2>1
<1>2. ASSUME NEW s, scorer' = [scorer EXCEPT ![w].at = "merge", ![w].score = s] PROVE \E x : P(x)
  <2>1. P([scorer[w] EXCEPT !.at = "merge", !.score = s])
    BY <1>0, <1>2 DEF Scoring
  <2> HIDE DEF P
  <2> QED BY <2>1
<1>3. ASSUME NEW u, scorer' = [scorer EXCEPT ![w].at = "sync", ![w].previous = u,
                                              ![w].score = Blend(score[u], @)]
      PROVE  \E x : P(x)
  <2>1. P([scorer[w] EXCEPT !.at = "sync", !.previous = u, !.score = Blend(score[u], @)])
    BY <1>0, <1>3 DEF Scoring
  <2> HIDE DEF P
  <2> QED BY <2>1
<1> HIDE DEF P
<1>4. \E x : P(x)
  BY <1>1, <1>2, <1>3 DEF EvaluateRow, MergeScores, SyncPrevious
<1> QED BY <1>4 DEF P

(* A busy scorer stays with the task it has claimed.                       *)
LEMMA ScorersKeepTheirTasks ==
    ASSUME TypeInv, [ScoringNext]_scoringVars, NEW w \in Scorers, Busy(w)', ~Claim(w)
    PROVE  Busy(w) /\ Scored(w)' = Scored(w)
<1> USE DEF Busy, Scored, Free
<1>0. scorer \in [Scorers -> Scoring \cup {Free}]
  BY DEF TypeInv, ScoringTypeOK
<1>1. CASE UNCHANGED scorer
  BY <1>1
<1>2. ASSUME NEW v \in Scorers, Claim(v) PROVE Busy(w) /\ Scored(w)' = Scored(w)
  BY <1>0, <1>2 DEF Claim
<1>3. ASSUME NEW v \in Scorers, EvaluateRow(v) \/ MergeScores(v) \/ SyncPrevious(v)
      PROVE  Busy(w) /\ Scored(w)' = Scored(w)
  <2>1. scorer[v] \in Scoring
    BY <1>3, BusyScorer DEF EvaluateRow, MergeScores, SyncPrevious, TypeInv
  <2>2. Busy(v) /\ Scored(v)' = Scored(v) /\ \A u \in Scorers \ {v} : scorer'[u] = scorer[u]
    <3>1. PICK x : x.at # "free" /\ x.task = scorer[v].task /\ scorer' = [scorer EXCEPT ![v] = x]
      BY <1>3, ScorerGoesOn
    <3>2. scorer[v].at # "free"
      BY <2>1 DEF Scoring
    <3> QED BY <1>0, <2>1, <3>1, <3>2
  <2> QED BY <2>2
<1>4. ASSUME NEW v \in Scorers, SaveScore(v) \/ RecordError(v) PROVE Busy(w) /\ Scored(w)' = Scored(w)
  BY <1>0, <1>4 DEF SaveScore, RecordError
<1>5. ASSUME NEW v \in Scorers, ScorerFails(v) PROVE Busy(w) /\ Scored(w)' = Scored(w)
  <2>1. scorer[v] \in Scoring
    BY <1>5, BusyScorer DEF ScorerFails, TypeInv
  <2> QED BY <1>0, <1>5, <2>1 DEF ScorerFails, Scoring
<1>6. CASE ScoringRestart
  BY <1>6 DEF ScoringRestart
<1>7. ScoringNext => UNCHANGED scorer \/ ScoringRestart
                     \/ \E v \in Scorers : ScorerStep(v) \/ ScorerFails(v)
  BY DEF ScoringNext, Enqueue, RetryScoringExecution, RescoreRow, ReviewExecution, ApplyToEvaluation,
         UpdateReviewStatus, MarkApplied, CommitApply, CallFails
<1> QED BY <1>1, <1>2, <1>3, <1>4, <1>5, <1>6, <1>7 DEF ScorerStep, scoringVars

(* What a step may do to the status of a task.                             *)
LEMMA StatusSteps ==
    ASSUME TypeInv, [ScoringNext]_scoringVars, NEW t \in Tasks, taskStatus'[t] # taskStatus[t]
    PROVE  \/ taskStatus[t] \in {"NONE", "FAILED"} /\ taskStatus'[t] = "QUEUED" /\ UNCHANGED <<scorer, historyVars>>
           \/ taskStatus'[t] = "QUEUED" /\ RescoreRow(t)
           \/ \E w \in Scorers : Claim(w) /\ taskStatus'[t] = "RUNNING" /\ scorer'[w] # Free /\ scorer'[w].task = t
           \/ \E w \in Scorers : (SaveScore(w) \/ RecordError(w)) /\ Scored(w) = t /\ Busy(w)
<1>0. taskStatus \in [Tasks -> TaskStatuses] /\ scorer \in [Scorers -> Scoring \cup {Free}]
  BY DEF TypeInv, ScoringTypeOK
<1>1. ASSUME NEW u \in Tasks, Enqueue(u) \/ RetryScoringExecution(u)
      PROVE  taskStatus[t] \in {"NONE", "FAILED"} /\ taskStatus'[t] = "QUEUED" /\ UNCHANGED <<scorer, historyVars>>
  BY <1>0, <1>1 DEF Enqueue, RetryScoringExecution
<1>2. ASSUME NEW u \in Tasks, RescoreRow(u) PROVE taskStatus'[t] = "QUEUED" /\ RescoreRow(t)
  BY <1>0, <1>2 DEF RescoreRow
<1>3. ASSUME NEW w \in Scorers, Claim(w)
      PROVE  taskStatus'[t] = "RUNNING" /\ scorer'[w] # Free /\ scorer'[w].task = t
  BY <1>0, <1>3 DEF Claim, Free
<1>4. ASSUME NEW w \in Scorers, SaveScore(w) \/ RecordError(w) PROVE Scored(w) = t /\ Busy(w)
  BY <1>0, <1>4 DEF SaveScore, RecordError, Busy, Free
<1>5. CASE UNCHANGED taskStatus
  BY <1>5
<1> QED BY <1>1, <1>2, <1>3, <1>4, <1>5
        DEF ScoringNext, ScorerStep, scoringVars, taskVars, EvaluateRow, MergeScores, SyncPrevious,
            ReviewExecution, ApplyToEvaluation, UpdateReviewStatus, MarkApplied, CommitApply,
            CallFails, ScorerFails, ScoringRestart

LEMMA InitScorerInv == ScoringInit => ScorerInv
BY DEF ScoringInit, ScorerInv, OneScorer, RunningUntilDone, Busy

LEMMA StepScorerInv == TypeInv /\ ScorerInv /\ [ScoringNext]_scoringVars => ScorerInv'
<1> SUFFICES ASSUME TypeInv, ScorerInv, [ScoringNext]_scoringVars PROVE ScorerInv'
  OBVIOUS
<1>0. /\ taskStatus \in [Tasks -> TaskStatuses] /\ scorer \in [Scorers -> Scoring \cup {Free}]
      /\ requeued \subseteq requeued'
      /\ \A w \in Scorers : Busy(w) => Scored(w) \in Tasks
  <2>1. requeued \subseteq requeued'
    BY DEF ScoringNext, scoringVars, historyVars, Enqueue, RetryScoringExecution, RescoreRow,
           ScorerStep, Claim, EvaluateRow, MergeScores, SyncPrevious, SaveScore, RecordError,
           ReviewExecution, ApplyToEvaluation, UpdateReviewStatus, MarkApplied, CommitApply,
           CallFails, ScorerFails, ScoringRestart
  <2> QED BY <2>1 DEF TypeInv, ScoringTypeOK, Busy, Scored, Scoring
<1>1. RunningUntilDone'
  <2> SUFFICES ASSUME NEW w \in Scorers, Busy(w)', Scored(w)' \notin requeued'
               PROVE  taskStatus'[Scored(w)'] = "RUNNING"
    BY DEF RunningUntilDone
  <2>1. CASE Claim(w)
    BY <1>0, <2>1 DEF Claim, Scored
  <2>2. CASE ~Claim(w)
    <3> DEFINE t == Scored(w)
    <3>1. Busy(w) /\ Scored(w)' = t
      BY <2>2, ScorersKeepTheirTasks
    <3>2. taskStatus[t] = "RUNNING" /\ t \in Tasks /\ t \notin requeued'
      BY <1>0, <3>1 DEF ScorerInv, RunningUntilDone
    <3>3. CASE RescoreRow(t)
      BY <3>2, <3>3 DEF RescoreRow
    <3>4. ASSUME NEW v \in Scorers, SaveScore(v) \/ RecordError(v), Scored(v) = t, Busy(v) PROVE FALSE
      <4>1. v = w
        BY <1>0, <3>1, <3>2, <3>4 DEF ScorerInv, OneScorer
      <4> QED BY <1>0, <3>4, <4>1 DEF SaveScore, RecordError, Busy
    <3>5. CASE taskStatus'[t] # taskStatus[t]
      BY <3>2, <3>3, <3>4, <3>5, StatusSteps
    <3> QED BY <3>1, <3>2, <3>5
  <2> QED BY <2>1, <2>2
<1>2. OneScorer'
  <2> SUFFICES ASSUME NEW v \in Scorers, NEW w \in Scorers, Busy(v)', Busy(w)',
                      Scored(v)' = Scored(w)', Scored(v)' \notin requeued', v # w
               PROVE  FALSE
    BY DEF OneScorer
  <2>1. CASE ~Claim(v) /\ ~Claim(w)
    BY <1>0, <2>1, ScorersKeepTheirTasks DEF ScorerInv, OneScorer
  <2>2. ASSUME NEW x \in Scorers, NEW y \in Scorers, x # y, Claim(x), Busy(y)', Scored(x)' = Scored(y)',
               Scored(x)' \notin requeued'
        PROVE  FALSE
    <3>1. PICK t \in Tasks : taskStatus[t] \in ClaimableStatuses /\ scorer' = [scorer EXCEPT ![x] =
                [at |-> "row", task |-> t, attempt |-> attemptNo[t], score |-> 0, previous |-> t]]
      BY <2>2 DEF Claim
    <3>2. Scored(x)' = t /\ Busy(y) /\ Scored(y) = t
      BY <1>0, <2>2, <3>1 DEF Scored, Busy
    <3>3. t \notin requeued
      BY <1>0, <2>2, <3>2
    <3> QED BY <3>1, <3>2, <3>3 DEF ScorerInv, RunningUntilDone, ClaimableStatuses
  <2> QED BY <2>1, <2>2
<1> QED BY <1>1, <1>2 DEF ScorerInv

(* The claim under FOR UPDATE SKIP LOCKED and the status RUNNING keep two  *)
(* scorers from one task.                                                  *)
THEOREM OneScorerAtATime == ScoringSpec => []OneScorer
<1>1. ScorerInv => OneScorer
  BY DEF ScorerInv
<1> QED BY <1>1, InitTypeInv, StepTypeInv, InitScorerInv, StepScorerInv, PTL DEF ScoringSpec

-----------------------------------------------------------------------------
(* Attempts are counted from one, so that the first failure makes the      *)
(* second attempt.                                                         *)

CountedFromOne ==
    /\ \A t \in Tasks : attemptNo[t] >= 1
    /\ \A w \in Scorers : Busy(w) => scorer[w].attempt >= 1

AttemptsInv == CountedFromOne /\ AttemptsAccounted

LEMMA InitAttemptsInv == ScoringInit => AttemptsInv
BY DEF ScoringInit, AttemptsInv, CountedFromOne, AttemptsAccounted, Busy

LEMMA StepAttemptsInv == TypeInv /\ AttemptsInv /\ [ScoringNext]_scoringVars => AttemptsInv'
<1> SUFFICES ASSUME TypeInv, AttemptsInv, [ScoringNext]_scoringVars PROVE AttemptsInv'
  OBVIOUS
<1> USE DEF AttemptsInv, CountedFromOne, AttemptsAccounted
<1>0. /\ taskStatus \in [Tasks -> TaskStatuses] /\ attemptNo \in [Tasks -> Nat]
      /\ scorer \in [Scorers -> Scoring \cup {Free}]
  BY DEF TypeInv, ScoringTypeOK
<1>1. CASE UNCHANGED <<taskStatus, attemptNo, scorer>>
  BY <1>1 DEF Busy
<1>2. ASSUME NEW t \in Tasks, Enqueue(t) \/ RetryScoringExecution(t) PROVE AttemptsInv'
  BY <1>0, <1>2 DEF Enqueue, RetryScoringExecution, Busy
<1>3. ASSUME NEW t \in Tasks, RescoreRow(t) PROVE AttemptsInv'
  BY <1>0, <1>3 DEF RescoreRow, Busy
<1>4. ASSUME NEW w \in Scorers, Claim(w) PROVE AttemptsInv'
  BY <1>0, <1>4 DEF Claim, Busy
<1>5. ASSUME NEW w \in Scorers, EvaluateRow(w) \/ MergeScores(w) \/ SyncPrevious(w) PROVE AttemptsInv'
  <2>1. UNCHANGED <<taskStatus, attemptNo>> /\ scorer[w] \in Scoring
    BY <1>5, BusyScorer DEF TypeInv, EvaluateRow, MergeScores, SyncPrevious, taskVars
  <2>2. PICK x : x.attempt = scorer[w].attempt /\ scorer' = [scorer EXCEPT ![w] = x]
    BY <1>5, ScorerGoesOn
  <2>3. Busy(w)
    BY <2>1 DEF Busy, Free, Scoring
  <2> QED BY <1>0, <2>1, <2>2, <2>3 DEF Busy
<1>6. ASSUME NEW w \in Scorers, SaveScore(w) PROVE AttemptsInv'
  BY <1>0, <1>6 DEF SaveScore, Busy
<1>7. ASSUME NEW w \in Scorers, RecordError(w) PROVE AttemptsInv'
  <2>1. scorer[w] \in Scoring /\ Busy(w)
    BY <1>7, BusyScorer DEF TypeInv, RecordError, Busy, Free
  <2>2. NextAttempt(w) \in Nat /\ NextAttempt(w) >= 2
    BY <2>1 DEF NextAttempt, Scoring
  <2>3. \A v \in Scorers : Busy(v)' => Busy(v) /\ scorer'[v] = scorer[v]
    BY <1>0, <1>7 DEF RecordError, Busy
  <2>4. WillRetry(NextAttempt(w)) => NextAttempt(w) \in 2..MaxAttempts
    BY <2>2, ScoringAssumption DEF WillRetry
  <2>5. ~WillRetry(NextAttempt(w)) => NextAttempt(w) > MaxAttempts
    BY <2>2, ScoringAssumption DEF WillRetry
  <2>6. \A t \in Tasks :
          attemptNo'[t] = (IF t = Scored(w) THEN NextAttempt(w) ELSE attemptNo[t])
    BY <1>0, <1>7 DEF RecordError
  <2>7. \A t \in Tasks : taskStatus'[t] =
          (IF t = Scored(w) THEN IF WillRetry(NextAttempt(w)) THEN "RETRYING" ELSE "FAILED" ELSE taskStatus[t])
    BY <1>0, <1>7 DEF RecordError
  <2> QED BY <2>2, <2>3, <2>4, <2>5, <2>6, <2>7
<1>8. ASSUME NEW w \in Scorers, ScorerFails(w) PROVE AttemptsInv'
  <2>1. scorer[w] \in Scoring
    BY <1>8, BusyScorer DEF TypeInv, ScorerFails, Busy
  <2> QED BY <1>0, <1>8, <2>1 DEF ScorerFails, Busy, Scoring, taskVars
<1>9. CASE ScoringRestart
  BY <1>9 DEF ScoringRestart, Busy, taskVars
<1> HIDE DEF AttemptsInv
<1> QED BY <1>1, <1>2, <1>3, <1>4, <1>5, <1>6, <1>7, <1>8, <1>9
        DEF ScoringNext, ScorerStep, scoringVars, taskVars, ReviewExecution, ApplyToEvaluation,
            UpdateReviewStatus, MarkApplied, CommitApply, CallFails

(* RETRYING and FAILED agree with attempt_no and max_attempts, although an *)
(* attempt is counted from what its scorer has read when it began.         *)
THEOREM AttemptsAreAccounted == ScoringSpec => []AttemptsAccounted
<1>1. AttemptsInv => AttemptsAccounted
  BY DEF AttemptsInv
<1> QED BY <1>1, InitTypeInv, StepTypeInv, InitAttemptsInv, StepAttemptsInv, PTL DEF ScoringSpec

-----------------------------------------------------------------------------
(* Every review status but PENDING and REJECTED, and every application in  *)
(* progress, comes from an approval.                                       *)

ApprovalInv ==
    /\ AppliedWasApproved
    /\ \A t \in Tasks : reviewStatus[t] \in {"APPROVED", "ADJUSTED"} => t \in approved
    /\ \A q \in Calls : call[q].at \in {"mark", "commit"} => call[q].task \in approved

LEMMA InitApprovalInv == ScoringInit => ApprovalInv
BY DEF ScoringInit, ApprovalInv, AppliedWasApproved, NoCall

LEMMA StepApprovalInv == TypeInv /\ ApprovalInv /\ [ScoringNext]_scoringVars => ApprovalInv'
<1> SUFFICES ASSUME TypeInv, ApprovalInv, [ScoringNext]_scoringVars PROVE ApprovalInv'
  OBVIOUS
<1> USE DEF ApprovalInv, AppliedWasApproved
<1>0. reviewStatus \in [Tasks -> ReviewStatuses] /\ call \in [Calls -> Calling \cup {NoCall}]
  BY DEF TypeInv, ScoringTypeOK
<1>1. CASE UNCHANGED <<reviewVars, call>>
  BY <1>1 DEF reviewVars
<1>2. ASSUME NEW q \in Calls, NEW t \in Tasks, ReviewExecution(q, t) \/ ApplyToEvaluation(q, t)
      PROVE  ApprovalInv'
  BY <1>0, <1>2 DEF ReviewExecution, ApplyToEvaluation, ReadyToApply, Begins, reviewVars
<1>3. ASSUME NEW q \in Calls, UpdateReviewStatus(q) PROVE ApprovalInv'
  <2>1. call[q] \in Calling
    BY <1>3, OpenCall DEF TypeInv, UpdateReviewStatus
  <2> QED BY <1>0, <1>3, <2>1 DEF UpdateReviewStatus, Over, Calling, NoCall
<1>4. ASSUME NEW q \in Calls, MarkApplied(q) PROVE ApprovalInv'
  <2>1. call[q] \in Calling
    BY <1>4, OpenCall DEF TypeInv, MarkApplied
  <2> QED BY <1>0, <1>4, <2>1 DEF MarkApplied, Calling
<1>5. ASSUME NEW q \in Calls, CommitApply(q) PROVE ApprovalInv'
  <2>1. call[q] \in Calling
    BY <1>5, OpenCall DEF TypeInv, CommitApply
  <2> QED BY <1>0, <1>5, <2>1 DEF CommitApply, Over, Calling, NoCall
<1>6. ASSUME NEW q \in Calls, CallFails(q) PROVE ApprovalInv'
  BY <1>0, <1>6 DEF CallFails, Over, NoCall, reviewVars
<1>7. CASE ScoringRestart
  BY <1>0, <1>7 DEF ScoringRestart, NoCall, reviewVars
<1> HIDE DEF ApprovalInv
<1> QED BY <1>1, <1>2, <1>3, <1>4, <1>5, <1>6, <1>7
        DEF ScoringNext, ScorerStep, scoringVars, Enqueue, RetryScoringExecution, RescoreRow, Claim,
            EvaluateRow, MergeScores, SyncPrevious, SaveScore, RecordError, ScorerFails

(* The human review gate of CrawlScoringService: nothing is applied that   *)
(* was never approved.                                                     *)
THEOREM OnlyApprovedIsApplied == ScoringSpec => []AppliedWasApproved
<1>1. ApprovalInv => AppliedWasApproved
  BY DEF ApprovalInv
<1> QED BY <1>1, InitTypeInv, StepTypeInv, InitApprovalInv, StepApprovalInv, PTL DEF ScoringSpec

-----------------------------------------------------------------------------
(* Two sources of one subject.  While a scorer is busy with one of them    *)
(* and was never overlapped, that one is not SUCCESS; when the scorer is   *)
(* about to save, the other one has the same score already, or is not      *)
(* SUCCESS either.                                                         *)

Pair(t, u) == t # u /\ {x \in Tasks : Subject[x] = Subject[t]} = {t, u}
Alone(w) == Busy(w) /\ Subject[Scored(w)] \notin overlaps

NotScoredYet == \A w \in Scorers : Alone(w) => taskStatus[Scored(w)] # "SUCCESS"
OneForASubject ==
    \A v, w \in Scorers :
        Alone(v) /\ Alone(w) /\ Subject[Scored(v)] = Subject[Scored(w)] => v = w
PreviousIsOther ==
    \A w \in Scorers : scorer[w].at = "sync" =>
        scorer[w].previous # Scored(w) /\ Subject[scorer[w].previous] = Subject[Scored(w)]
SavedScoreAgrees ==
    \A w \in Scorers, u \in Tasks :
        /\ scorer[w].at = "save" /\ Alone(w)
        /\ Pair(Scored(w), u) /\ taskStatus[u] = "SUCCESS"
        => score[u] = scorer[w].score

SourcesInv == /\ NotScoredYet /\ OneForASubject /\ PreviousIsOther /\ SavedScoreAgrees
              /\ SourcesAgree

LEMMA InitSourcesInv == ScoringInit => SourcesInv
BY DEF ScoringInit, SourcesInv, NotScoredYet, OneForASubject, PreviousIsOther, SavedScoreAgrees,
       SourcesAgree, Alone, Busy, Free

(* The records and the functions the steps below are about.                *)
LEMMA ScoringTypes ==
    ASSUME TypeInv
    PROVE  /\ taskStatus \in [Tasks -> TaskStatuses]
           /\ score \in [Tasks -> {0} \cup 100..500]
           /\ scorer \in [Scorers -> Scoring \cup {Free}]
           /\ \A w \in Scorers : Busy(w) <=> scorer[w].at # "free"
           /\ \A w \in Scorers : Busy(w) => scorer[w] \in Scoring /\ Scored(w) \in Tasks
BY DEF TypeInv, ScoringTypeOK, Busy, Scored, Scoring, Free

(* Requests and the claim only take the status SUCCESS away.               *)
LEMMA SourcesRequests ==
    ASSUME TypeInv, SourcesInv, UNCHANGED <<score, scorer, overlaps>>,
           \A t \in Tasks : taskStatus'[t] = "SUCCESS" => taskStatus[t] = "SUCCESS"
    PROVE  SourcesInv'
BY ScoringTypes DEF SourcesInv, NotScoredYet, OneForASubject, PreviousIsOther, SavedScoreAgrees,
       SourcesAgree, Alone, Busy, Scored, Pair

LEMMA SourcesClaim ==
    ASSUME TypeInv, SourcesInv, NEW w \in Scorers, Claim(w)
    PROVE  SourcesInv'
<1>0. /\ taskStatus \in [Tasks -> TaskStatuses] /\ scorer \in [Scorers -> Scoring \cup {Free}]
      /\ \A v \in Scorers : Busy(v) => Scored(v) \in Tasks
  BY ScoringTypes
<1>1. PICK t \in Tasks :
         /\ taskStatus' = [taskStatus EXCEPT ![t] = "RUNNING"]
         /\ scorer' = [scorer EXCEPT ![w] =
                [at |-> "row", task |-> t, attempt |-> attemptNo[t], score |-> 0, previous |-> t]]
         /\ overlaps' = overlaps \cup
                {Subject[t] : v \in {u \in Scorers : Busy(u) /\ Subject[Scored(u)] = Subject[t]}}
  BY DEF Claim
<1>2. /\ UNCHANGED score
      /\ \A u \in Tasks : taskStatus'[u] = "SUCCESS" => taskStatus[u] = "SUCCESS" /\ u # t
      /\ \A v \in Scorers \ {w} : scorer'[v] = scorer[v] /\ Scored(v)' = Scored(v) /\ (Busy(v)' <=> Busy(v))
      /\ Scored(w)' = t /\ Busy(w)' /\ ~Busy(w) /\ scorer'[w].at = "row"
      /\ overlaps \subseteq overlaps'
  BY <1>0, <1>1 DEF Claim, Scored, Busy, Free
<1>3. \A v \in Scorers : Busy(v) /\ Subject[Scored(v)] = Subject[t] => Subject[t] \in overlaps'
  BY <1>1
<1>4. NotScoredYet'
  <2> SUFFICES ASSUME NEW v \in Scorers, Alone(v)', taskStatus'[Scored(v)'] = "SUCCESS"
               PROVE  FALSE
    BY DEF NotScoredYet
  <2>1. CASE v = w
    <3>1. taskStatus'[t] = "SUCCESS"
      BY <1>2, <2>1
    <3> QED BY <1>0, <1>1, <3>1
  <2>2. CASE v # w
    <3>1. Busy(v) /\ Scored(v)' = Scored(v)
      BY <1>2, <2>2 DEF Alone
    <3>2. Scored(v) \in Tasks /\ taskStatus'[Scored(v)] = "SUCCESS"
      BY <1>0, <3>1
    <3>3. Alone(v) /\ taskStatus[Scored(v)] = "SUCCESS"
      BY <1>2, <3>1, <3>2 DEF Alone
    <3> QED BY <3>3 DEF NotScoredYet, SourcesInv
  <2> QED BY <2>1, <2>2
<1>5. OneForASubject'
  BY <1>2, <1>3 DEF OneForASubject, SourcesInv, Alone
<1>6. PreviousIsOther' /\ SavedScoreAgrees'
  BY <1>2 DEF PreviousIsOther, SavedScoreAgrees, SourcesInv, Alone, Pair
<1>7. SourcesAgree'
  BY <1>2 DEF SourcesAgree, SourcesInv
<1> QED BY <1>4, <1>5, <1>6, <1>7 DEF SourcesInv

LEMMA SourcesEvaluate ==
    ASSUME TypeInv, SourcesInv, NEW w \in Scorers, EvaluateRow(w) \/ MergeScores(w)
    PROVE  SourcesInv'
<1>0. scorer \in [Scorers -> Scoring \cup {Free}] /\ scorer[w] \in Scoring /\ Busy(w)
  BY ScoringTypes, BusyScorer DEF EvaluateRow, MergeScores, TypeInv
<1>1. UNCHANGED <<taskStatus, score, overlaps>>
  BY DEF EvaluateRow, MergeScores, taskVars, historyVars
<1>2. PICK x : x.at # "free" /\ x.task = scorer[w].task /\ scorer' = [scorer EXCEPT ![w] = x]
  BY ScorerGoesOn
<1>3. /\ \A v \in Scorers \ {w} : scorer'[v] = scorer[v]
      /\ \A v \in Scorers : Scored(v)' = Scored(v) /\ (Busy(v)' <=> Busy(v))
  BY <1>0, <1>2 DEF Scored, Busy, Free
<1>4. NotScoredYet' /\ OneForASubject' /\ SourcesAgree'
  BY <1>1, <1>3 DEF NotScoredYet, OneForASubject, SourcesAgree, SourcesInv, Alone
<1>5. scorer'[w].at = "save" => OtherSources(Scored(w)) = {}
  <2>1. ASSUME NEW u \in OtherSources(Scored(w)),
               scorer' = [scorer EXCEPT ![w].at = "sync", ![w].previous = u,
                                        ![w].score = Blend(score[u], @)]
        PROVE  scorer'[w].at = "sync"
    BY <1>0, <2>1 DEF Scoring
  <2>2. ASSUME NEW s, scorer' = [scorer EXCEPT ![w].at = "merge", ![w].score = s]
        PROVE  scorer'[w].at = "merge"
    BY <1>0, <2>2 DEF Scoring
  <2>3. ASSUME Goes(w, "error")
        PROVE  scorer'[w].at = "error"
    BY <1>0, <2>3 DEF Goes, Scoring
  <2>4. CASE EvaluateRow(w)
    BY <2>2, <2>3, <2>4 DEF EvaluateRow
  <2> QED BY <2>1, <2>4 DEF MergeScores
<1>6. scorer'[w].at = "sync" => scorer'[w].previous \in OtherSources(Scored(w))
  <2>1. ASSUME NEW u \in OtherSources(Scored(w)),
               scorer' = [scorer EXCEPT ![w].at = "sync", ![w].previous = u,
                                        ![w].score = Blend(score[u], @)]
        PROVE  scorer'[w].previous = u
    BY <1>0, <2>1 DEF Scoring
  <2>2. CASE EvaluateRow(w)
    BY <1>0, <2>2 DEF EvaluateRow, Goes, Scoring
  <2>3. CASE MergeScores(w) /\ Goes(w, "save")
    BY <1>0, <2>3 DEF Goes, Scoring
  <2> QED BY <2>1, <2>2, <2>3 DEF MergeScores
<1>7. PreviousIsOther'
  BY <1>3, <1>6 DEF PreviousIsOther, SourcesInv, OtherSources
<1>8. SavedScoreAgrees'
  <2>1. \A u \in Tasks : Pair(Scored(w), u) /\ taskStatus[u] = "SUCCESS" => u \in OtherSources(Scored(w))
    BY DEF Pair, OtherSources
  <2>2. \A u \in Tasks : ~(scorer'[w].at = "save" /\ Pair(Scored(w), u) /\ taskStatus[u] = "SUCCESS")
    BY <1>5, <2>1
  <2> QED BY <1>1, <1>3, <2>2 DEF SavedScoreAgrees, SourcesInv, Alone, Pair
<1> QED BY <1>4, <1>7, <1>8 DEF SourcesInv

LEMMA SourcesSync ==
    ASSUME TypeInv, SourcesInv, NEW w \in Scorers, SyncPrevious(w)
    PROVE  SourcesInv'
<1> DEFINE p == scorer[w].previous
<1>0. /\ scorer \in [Scorers -> Scoring \cup {Free}] /\ scorer[w] \in Scoring /\ Busy(w)
      /\ score \in [Tasks -> {0} \cup 100..500]
      /\ \A v \in Scorers : Busy(v) => Scored(v) \in Tasks
  BY ScoringTypes, BusyScorer DEF SyncPrevious, TypeInv
<1>1. UNCHANGED <<taskStatus, overlaps>>
  BY DEF SyncPrevious, historyVars
<1>2. /\ \A v \in Scorers \ {w} : scorer'[v] = scorer[v]
      /\ \A v \in Scorers : Scored(v)' = Scored(v) /\ (Busy(v)' <=> Busy(v))
      /\ scorer'[w].at = "save" /\ scorer'[w].score = scorer[w].score
  BY <1>0 DEF SyncPrevious, Goes, Scoring, Scored, Busy, Free
<1>3. /\ p \in Tasks /\ p # Scored(w) /\ Subject[p] = Subject[Scored(w)]
      /\ score'[p] = scorer[w].score /\ \A u \in Tasks \ {p} : score'[u] = score[u]
  BY <1>0 DEF SyncPrevious, SyncedScores, Scoring, SourcesInv, PreviousIsOther
<1> HIDE DEF p
<1>4. NotScoredYet' /\ OneForASubject'
  BY <1>1, <1>2 DEF NotScoredYet, OneForASubject, SourcesInv, Alone
<1>5. PreviousIsOther'
  BY <1>2 DEF PreviousIsOther, SourcesInv
<1>6. SavedScoreAgrees'
  <2> SUFFICES ASSUME NEW v \in Scorers, NEW u \in Tasks, scorer'[v].at = "save", Alone(v),
                      Pair(Scored(v), u), taskStatus[u] = "SUCCESS"
               PROVE  score'[u] = scorer'[v].score
    BY <1>1, <1>2 DEF SavedScoreAgrees, Alone, Pair
  <2>1. u # Scored(v) /\ Subject[u] = Subject[Scored(v)] /\ Scored(v) \in Tasks
    BY <1>0 DEF Pair, Alone
  <2>2. CASE v = w
    <3>1. u = p
      BY <1>3, <2>2 DEF Pair
    <3> QED BY <1>2, <1>3, <2>2, <3>1
  <2>3. CASE v # w
    <3>1. Subject[Scored(v)] # Subject[Scored(w)]
      BY <1>0, <2>3 DEF Alone, SourcesInv, OneForASubject
    <3>2. u # p
      BY <1>3, <2>1, <3>1
    <3> QED BY <1>2, <1>3, <2>3, <3>2 DEF SourcesInv, SavedScoreAgrees
  <2> QED BY <2>2, <2>3
<1>7. SourcesAgree'
  <2> SUFFICES ASSUME NEW t \in Tasks, NEW u \in Tasks, Subject[t] = Subject[u], Subject[t] \notin overlaps,
                      {x \in Tasks : Subject[x] = Subject[t]} = {t, u},
                      taskStatus[t] = "SUCCESS", taskStatus[u] = "SUCCESS",
                      \A v \in Scorers : Busy(v) => Subject[Scored(v)] # Subject[t]
               PROVE  score'[t] = score'[u]
    BY <1>1, <1>2 DEF SourcesAgree
  <2>1. t # p /\ u # p
    BY <1>0, <1>3
  <2> QED BY <1>3, <2>1 DEF SourcesInv, SourcesAgree
<1> QED BY <1>4, <1>5, <1>6, <1>7 DEF SourcesInv

LEMMA SourcesSave ==
    ASSUME TypeInv, SourcesInv, NEW w \in Scorers, SaveScore(w)
    PROVE  SourcesInv'
<1> DEFINE x == Scored(w)
<1>0. /\ taskStatus \in [Tasks -> TaskStatuses] /\ score \in [Tasks -> {0} \cup 100..500]
      /\ scorer \in [Scorers -> Scoring \cup {Free}] /\ Busy(w)
      /\ \A v \in Scorers : Busy(v) => Scored(v) \in Tasks
  BY ScoringTypes DEF SaveScore
<1>1. /\ UNCHANGED overlaps
      /\ ~Busy(w)' /\ scorer'[w].at = "free"
      /\ \A v \in Scorers \ {w} : scorer'[v] = scorer[v] /\ Scored(v)' = Scored(v) /\ (Busy(v)' <=> Busy(v))
  BY <1>0 DEF SaveScore, historyVars, Busy, Scored, Free
<1>2. /\ x \in Tasks /\ taskStatus'[x] = "SUCCESS" /\ score'[x] = scorer[w].score
      /\ \A u \in Tasks \ {x} : taskStatus'[u] = taskStatus[u] /\ score'[u] = score[u]
  BY <1>0 DEF SaveScore
<1>3. scorer[w].at = "save"
  BY DEF SaveScore
<1>4. \A v \in Scorers \ {w} : Alone(v) => Subject[Scored(v)] # Subject[x]
  BY <1>0 DEF SourcesInv, OneForASubject, Alone
<1>5. \A v \in Scorers : Alone(v)' => v # w /\ Alone(v)
  BY <1>1 DEF Alone
<1> HIDE DEF x
<1>6. NotScoredYet'
  BY <1>0, <1>1, <1>2, <1>4, <1>5 DEF NotScoredYet, SourcesInv, Alone
<1>7. OneForASubject' /\ PreviousIsOther'
  BY <1>1, <1>5 DEF OneForASubject, PreviousIsOther, SourcesInv
<1>8. SavedScoreAgrees'
  <2> SUFFICES ASSUME NEW v \in Scorers, NEW u \in Tasks, scorer'[v].at = "save", Alone(v)',
                      Pair(Scored(v)', u), taskStatus'[u] = "SUCCESS"
               PROVE  score'[u] = scorer'[v].score
    BY DEF SavedScoreAgrees, Pair
  <2>1. v # w /\ Alone(v) /\ Scored(v)' = Scored(v)
    BY <1>1, <1>5
  <2>2. u # x
    <3>1. Subject[u] = Subject[Scored(v)]
      BY <2>1 DEF Pair
    <3> QED BY <1>4, <2>1, <3>1
  <2> QED BY <1>1, <1>2, <2>1, <2>2 DEF SavedScoreAgrees, SourcesInv
<1>9. SourcesAgree'
  <2> SUFFICES ASSUME NEW t \in Tasks, NEW u \in Tasks, Subject[t] = Subject[u], Subject[t] \notin overlaps,
                      {y \in Tasks : Subject[y] = Subject[t]} = {t, u},
                      taskStatus'[t] = "SUCCESS", taskStatus'[u] = "SUCCESS",
                      \A v \in Scorers : Busy(v)' => Subject[Scored(v)'] # Subject[t], t # u
               PROVE  score'[t] = score'[u]
    BY <1>1 DEF SourcesAgree
  <2>1. ASSUME NEW y \in Tasks, y # x, Subject[x] = Subject[y], Subject[x] \notin overlaps,
               {z \in Tasks : Subject[z] = Subject[x]} = {x, y}, taskStatus[y] = "SUCCESS"
        PROVE  score[y] = scorer[w].score
    BY <1>0, <1>3, <2>1 DEF SourcesInv, SavedScoreAgrees, Alone, Pair, x
  <2>2. CASE t = x
    BY <1>2, <2>1, <2>2
  <2>3. CASE u = x
    <3>1. {z \in Tasks : Subject[z] = Subject[u]} = {u, t}
      OBVIOUS
    <3> QED BY <1>2, <2>1, <2>3, <3>1
  <2>4. CASE t # x /\ u # x
    <3>1. Subject[x] # Subject[t]
      BY <1>2, <2>4
    <3>2. \A v \in Scorers : Busy(v) => Subject[Scored(v)] # Subject[t]
      BY <1>1, <3>1 DEF x
    <3> QED BY <1>2, <2>4, <3>2 DEF SourcesInv, SourcesAgree
  <2> QED BY <2>2, <2>3, <2>4
<1> QED BY <1>6, <1>7, <1>8, <1>9 DEF SourcesInv

(* A scorer that gives up frees its subject, but leaves its task unscored. *)
LEMMA SourcesGiveUp ==
    ASSUME TypeInv, SourcesInv, UNCHANGED <<score, overlaps>>,
           \A t \in Tasks : taskStatus'[t] = "SUCCESS" => taskStatus[t] = "SUCCESS",
           \A v \in Scorers : \/ scorer'[v] = scorer[v]
                              \/ scorer'[v] = Free
                              \/ Busy(v) /\ Busy(v)' /\ Scored(v)' = Scored(v) /\ scorer'[v].at = "error"
    PROVE  SourcesInv'
<1>1. \A v \in Scorers : Busy(v)' => Busy(v) /\ Scored(v)' = Scored(v)
  BY DEF Busy, Scored
<1>2. \A v \in Scorers : scorer'[v].at \in {"sync", "save"} => scorer'[v] = scorer[v] /\ Scored(v)' = Scored(v)
  BY DEF Free, Scored
<1>3. NotScoredYet' /\ OneForASubject'
  BY <1>1, ScoringTypes DEF NotScoredYet, OneForASubject, SourcesInv, Alone
<1>4. PreviousIsOther' /\ SavedScoreAgrees'
  BY <1>1, <1>2 DEF PreviousIsOther, SavedScoreAgrees, SourcesInv, Alone, Pair
<1>5. SourcesAgree'
  <2> SUFFICES ASSUME NEW t \in Tasks, NEW u \in Tasks, Subject[t] = Subject[u], Subject[t] \notin overlaps,
                      {y \in Tasks : Subject[y] = Subject[t]} = {t, u},
                      taskStatus[t] = "SUCCESS", taskStatus[u] = "SUCCESS"
               PROVE  score[t] = score[u]
    BY DEF SourcesAgree
  <2>1. \A v \in Scorers : Busy(v) => Subject[Scored(v)] # Subject[t]
    BY ScoringTypes DEF SourcesInv, NotScoredYet, Alone
  <2> QED BY <2>1 DEF SourcesInv, SourcesAgree
<1> QED BY <1>3, <1>4, <1>5 DEF SourcesInv

LEMMA StepSourcesInv == TypeInv /\ SourcesInv /\ [ScoringNext]_scoringVars => SourcesInv'
<1> SUFFICES ASSUME TypeInv, SourcesInv, [ScoringNext]_scoringVars PROVE SourcesInv'
  OBVIOUS
<1>0. taskStatus \in [Tasks -> TaskStatuses] /\ scorer \in [Scorers -> Scoring \cup {Free}]
  BY ScoringTypes
<1>1. CASE UNCHANGED <<taskVars, scorer, overlaps>>
  BY <1>1, SourcesRequests DEF taskVars
<1>2. ASSUME NEW t \in Tasks, Enqueue(t) \/ RetryScoringExecution(t) \/ RescoreRow(t) PROVE SourcesInv'
  BY <1>0, <1>2, SourcesRequests DEF Enqueue, RetryScoringExecution, RescoreRow, historyVars
<1>3. ASSUME NEW w \in Scorers, RecordError(w) PROVE SourcesInv'
  <2>1. /\ UNCHANGED <<score, overlaps>>
        /\ \A t \in Tasks : taskStatus'[t] = "SUCCESS" => taskStatus[t] = "SUCCESS"
        /\ \A v \in Scorers : scorer'[v] = scorer[v] \/ scorer'[v] = Free
    BY <1>0, <1>3 DEF RecordError, historyVars
  <2> QED BY <2>1, SourcesGiveUp
<1>4. ASSUME NEW w \in Scorers, ScorerFails(w) PROVE SourcesInv'
  <2>1. scorer[w] \in Scoring
    BY <1>4, BusyScorer DEF TypeInv, ScorerFails, Busy
  <2>2. \/ scorer'[w] = Free
        \/ Busy(w) /\ Busy(w)' /\ Scored(w)' = Scored(w) /\ scorer'[w].at = "error"
    BY <1>0, <1>4, <2>1 DEF ScorerFails, Busy, Scored, Scoring, Free
  <2>3. \A v \in Scorers \ {w} : scorer'[v] = scorer[v]
    BY <1>0, <1>4 DEF ScorerFails
  <2> QED BY <1>4, <2>2, <2>3, SourcesGiveUp DEF ScorerFails, taskVars, historyVars
<1>5. CASE ScoringRestart
  BY <1>5, SourcesGiveUp DEF ScoringRestart, taskVars, historyVars
<1>6. ASSUME NEW w \in Scorers, ScorerStep(w) PROVE SourcesInv'
  BY <1>3, <1>6, SourcesClaim, SourcesEvaluate, SourcesSync, SourcesSave DEF ScorerStep
<1> QED BY <1>1, <1>2, <1>4, <1>5, <1>6
        DEF ScoringNext, scoringVars, historyVars, ReviewExecution, ApplyToEvaluation,
            UpdateReviewStatus, MarkApplied, CommitApply, CallFails

(* The average of two sources reaches both of them: what executeTask syncs *)
(* is what it saves, and no other scorer of the subject comes between.     *)
THEOREM TwoSourcesAgree == ScoringSpec => []SourcesAgree
<1>1. SourcesInv => SourcesAgree
  BY DEF SourcesInv
<1> QED BY <1>1, InitTypeInv, StepTypeInv, InitSourcesInv, StepSourcesInv, PTL DEF ScoringSpec
=============================================================================
