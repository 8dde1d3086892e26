--------------------------- MODULE CrawlExecution ---------------------------
(***************************************************************************)
(* The execution queue of the module crawl-job for one evaluation cycle.   *)
(* Executions are rows of crawl_job_execution; workers recover abandoned   *)
(* ones, claim due ones under a lease, run the script of the job outside   *)
(* any transaction and stage what it returns.  A failed execution is       *)
(* followed by a retry, which is a row of its own, or stops the later jobs *)
(* of its window, as the failure policy of its job says.                   *)
(*                                                                         *)
(* Times are abstracted: a queued row waits for a number of ticks and is   *)
(* due at 0; which due row a claim gets is not determined, as it depends   *)
(* on the rows other claims hold at that moment (SKIP LOCKED).             *)
(***************************************************************************)
EXTENDS Naturals, Sequences, FiniteSets

CONSTANTS
    Jobs,         \* the jobs assigned to the cycle, by their sequence_order
    Policy,       \* failure_policy of a job
    Windows,      \* minutes in which the schedule of the jobs fires
    Workers,      \* processes that run a CrawlWorkerRunner
    MaxAttempts,  \* max_attempts of an execution
    Nobody,       \* claimed_by is NULL
    Dead,         \* claimed_by names a process that is gone
    OnRequest,    \* the jobs an administrator triggers or retries
    MaxInserts,   \* bound on the rows that are no automatic retries
    MaxUpsets     \* bound on crashes, failing statements and jobs switched on or off

Policies == {"CONTINUE", "STOP_CYCLE", "RETRY_THEN_CONTINUE", "RETRY_THEN_STOP"}

ASSUME CrawlAssumption ==
    /\ Jobs \subseteq Nat
    /\ OnRequest \subseteq Jobs
    /\ Policy \in [Jobs -> Policies]
    /\ MaxAttempts \in 1..5
    /\ MaxInserts \in Nat /\ MaxUpsets \in Nat
    /\ Nobody \notin Workers /\ Dead \notin Workers /\ Nobody # Dead

VARIABLES
    rows,       \* crawl_job_execution, in the order of the inserts
    cycleOpen,  \* evaluation_cycle.status = 'OPEN'
    enabled,    \* the jobs whose assignment to the cycle is enabled (all stay active)
    worker,     \* the local state of every worker
    upsets      \* crashes, failing statements and switched jobs so far

crawlVars == <<rows, cycleOpen, enabled, worker, upsets>>

(* SUCCESS stands for PARTIAL_SUCCESS too, and FAILED for the TIMEOUT that *)
(* a worker records: nothing here tells them apart.                        *)
Finished == {"SUCCESS", "FAILED", "TIMEOUT", "SKIPPED", "CANCELLED"}

(* reason is the class of error_code, of what a retry and a reader of the  *)
(* history distinguish.                                                    *)
Execution ==
    [job : Jobs, window : Windows \cup {0}, trigger : {"SCHEDULED", "MANUAL", "RETRY"},
     retryOf : Nat, automatic : BOOLEAN, attempt : 1..MaxAttempts,
     status : {"QUEUED", "RUNNING"} \cup Finished, wait : 0..2,
     owner : Workers \cup {Nobody, Dead}, leased : BOOLEAN,
     reason : {"none", "retryable", "fatal", "policy"}, staged : BOOLEAN]

Ids == DOMAIN rows

Idle == [at |-> "idle", row |-> 0, outcome |-> "none", todo |-> {}]

CrawlTypeOK ==
    /\ rows \in Seq(Execution)
    /\ cycleOpen \in BOOLEAN
    /\ enabled \subseteq Jobs
    /\ worker \in [Workers ->
          [at : {"idle", "polling", "recovering", "execute", "crawling", "staging", "staged",
                 "ending", "failed", "retry", "stopping"},
           row : Ids \cup {0},
           outcome : Finished \cup {"none", "retryable", "fatal"},
           todo : SUBSET Ids]]
    /\ upsets \in Nat

CrawlInit ==
    /\ rows = <<>>
    /\ cycleOpen = TRUE
    /\ enabled = Jobs
    /\ worker = [w \in Workers |-> Idle]
    /\ upsets = 0

-----------------------------------------------------------------------------
(* The statements of the repository.                                       *)

NewExecution(job, window, trigger) ==
    [job |-> job, window |-> window, trigger |-> trigger, retryOf |-> 0, automatic |-> FALSE,
     attempt |-> 1, status |-> "QUEUED", wait |-> 0, owner |-> Nobody, leased |-> FALSE,
     reason |-> "none", staged |-> FALSE]

(* A retry is scheduled by nobody: it has no window, its trigger is RETRY. *)
NewRetry(i, automatic) ==
    [NewExecution(rows[i].job, 0, "RETRY") EXCEPT
        !.retryOf = i, !.automatic = automatic, !.attempt = rows[i].attempt + 1,
        !.wait = IF automatic THEN 1 ELSE 0]

(* The update of transitionExecution, where its WHERE clause holds. *)
TransitionExecution(i, owner, status, reason) ==
    IF rows[i].status = "RUNNING" /\ rows[i].owner = owner
    THEN rows' = [rows EXCEPT ![i].status = status, ![i].owner = Nobody,
                              ![i].leased = FALSE, ![i].reason = reason]
    ELSE UNCHANGED rows

(* The scheduled executions of the later jobs in the window of execution i, *)
(* provided i itself was scheduled.                                         *)
FollowingScheduledExecutions(i) ==
    {f \in Ids :
        /\ rows[i].trigger = "SCHEDULED" /\ rows[f].trigger = "SCHEDULED"
        /\ rows[f].status = "QUEUED"
        /\ rows[f].window = rows[i].window
        /\ rows[f].job > rows[i].job /\ rows[f].job \in enabled}

(* lease_expires_at <= NOW(); the fault compares the other way.            *)
StillLeased == {i \in Ids : rows[i].status = "RUNNING" /\ rows[i].leased}
Abandoned == {i \in Ids : rows[i].status = "RUNNING" /\ ~rows[i].leased}

(* attempt_no < max_attempts; the fault allows one attempt too many.       *)
OneAttemptMore(i) == rows[i].attempt <= MaxAttempts
AttemptLeft(i) == rows[i].attempt < MaxAttempts

Retryable(i) ==
    /\ rows[i].status \in {"FAILED", "TIMEOUT"}
    /\ rows[i].reason = "retryable"
    /\ AttemptLeft(i)
    /\ cycleOpen

AutomaticRetries(i) == {r \in Ids : rows[r].retryOf = i /\ rows[r].automatic}

-----------------------------------------------------------------------------
(* Requests, the schedule and time.                                        *)

RoomForInsert == Cardinality({i \in Ids : ~rows[i].automatic}) < MaxInserts

CreateScheduledExecution(job, window) ==
    /\ RoomForInsert
    /\ \A i \in Ids : rows[i].trigger = "SCHEDULED" =>
          <<rows[i].job, rows[i].window>> # <<job, window>>
    /\ cycleOpen /\ job \in enabled
    /\ rows' = Append(rows, NewExecution(job, window, "SCHEDULED"))
    /\ UNCHANGED <<cycleOpen, enabled, worker, upsets>>

CreateManualExecution(job) ==
    /\ RoomForInsert
    /\ job \in OnRequest
    /\ cycleOpen /\ job \in enabled
    /\ rows' = Append(rows, NewExecution(job, 0, "MANUAL"))
    /\ UNCHANGED <<cycleOpen, enabled, worker, upsets>>

RetryExecution(i) ==
    /\ RoomForInsert
    /\ rows[i].job \in OnRequest
    /\ Retryable(i)
    /\ rows' = Append(rows, NewRetry(i, FALSE))
    /\ UNCHANGED <<cycleOpen, enabled, worker, upsets>>

CancelExecution(i) ==
    /\ rows[i].status \in {"QUEUED", "RUNNING"}
    /\ rows' = [rows EXCEPT ![i].status = "CANCELLED", ![i].owner = Nobody, ![i].leased = FALSE]
    /\ UNCHANGED <<cycleOpen, enabled, worker, upsets>>

(* assignJobToCycle: only an open cycle gets its jobs enabled again. *)
SetEnabled(job) ==
    /\ upsets < MaxUpsets
    /\ job \notin enabled => cycleOpen
    /\ upsets' = upsets + 1
    /\ enabled' = IF job \in enabled THEN enabled \ {job} ELSE enabled \cup {job}
    /\ UNCHANGED <<rows, cycleOpen, worker>>

(* No transition of a cycle leads back to OPEN. *)
CycleLeavesOpen ==
    /\ cycleOpen
    /\ cycleOpen' = FALSE
    /\ UNCHANGED <<rows, enabled, worker, upsets>>

TimePasses ==
    /\ \E i \in Ids : rows[i].wait > 0
    /\ rows' = [i \in Ids |-> IF rows[i].wait > 0 THEN [rows[i] EXCEPT !.wait = @ - 1] ELSE rows[i]]
    /\ UNCHANGED <<cycleOpen, enabled, worker, upsets>>

LeaseExpires(i) ==
    /\ rows[i].status = "RUNNING" /\ rows[i].leased
    /\ rows' = [rows EXCEPT ![i].leased = FALSE]
    /\ UNCHANGED <<cycleOpen, enabled, worker, upsets>>

-----------------------------------------------------------------------------
(* runLoop: recover the abandoned executions, claim one, execute it.       *)

Row(w) == worker[w].row
Go(w, at) == worker' = [worker EXCEPT ![w].at = at]
Stop(w) == worker' = [worker EXCEPT ![w] = Idle]

(* recoverExpiredLeases, its transaction; it does not stop the later jobs. *)
RecoverExpiredLeases(w) ==
    /\ worker[w].at = "idle"
    /\ rows' = [i \in Ids |->
          IF i \in Abandoned
          THEN [rows[i] EXCEPT !.status = "TIMEOUT", !.owner = Nobody, !.reason = "retryable"]
          ELSE rows[i]]
    /\ worker' = [worker EXCEPT ![w].at = IF Abandoned = {} THEN "polling" ELSE "recovering",
                                ![w].todo = Abandoned]
    /\ UNCHANGED <<cycleOpen, enabled, upsets>>

(* scheduleAutomaticRetry: one retry for each execution, and the followers *)
(* of a scheduled one wait until it is due.                                *)
RetryNeeded(i) ==
    /\ AutomaticRetries(i) = {}
    /\ Retryable(i) /\ Policy[rows[i].job] \in {"RETRY_THEN_CONTINUE", "RETRY_THEN_STOP"}

ScheduleAutomaticRetry(i) ==
    IF RetryNeeded(i)
    THEN rows' = Append([f \in Ids |-> IF f \in FollowingScheduledExecutions(i)
                                       THEN [rows[f] EXCEPT !.wait = 2] ELSE rows[f]],
                        NewRetry(i, TRUE))
    ELSE UNCHANGED rows

RecoverNext(w) ==
    /\ worker[w].at = "recovering"
    /\ \E i \in worker[w].todo :
          /\ ScheduleAutomaticRetry(i)
          /\ LET rest == worker[w].todo \ {i}
             IN  worker' = [worker EXCEPT ![w].at = IF rest = {} THEN "polling" ELSE "recovering",
                                          ![w].todo = rest]
    /\ UNCHANGED <<cycleOpen, enabled, upsets>>

(* What a claim may take; the fault takes an abandoned execution over.     *)
DueOrAbandoned == {i \in Ids : rows[i].status = "QUEUED" /\ rows[i].wait = 0} \cup Abandoned
DueExecutions == {i \in Ids : rows[i].status = "QUEUED" /\ rows[i].wait = 0}

(* claimNextExecution holds the row, the cycle and the assignment. *)
ClaimNextExecution(w) ==
    /\ worker[w].at = "polling"
    /\ IF DueExecutions = {} THEN UNCHANGED rows /\ Stop(w)
       ELSE \E i \in DueExecutions :
              IF cycleOpen /\ rows[i].job \in enabled
              THEN /\ rows' = [rows EXCEPT ![i].status = "RUNNING", ![i].owner = w, ![i].leased = TRUE]
                   /\ worker' = [worker EXCEPT ![w] = [Idle EXCEPT !.at = "execute", !.row = i]]
              ELSE /\ rows' = [rows EXCEPT ![i].status = "SKIPPED", ![i].reason = "fatal"]
                   /\ Stop(w)
    /\ UNCHANGED <<cycleOpen, enabled, upsets>>

(* The interval runs as long as execute() does; an expired lease is        *)
(* extended too, if nobody has recovered the execution.                    *)
HeartbeatExecution(w) ==
    /\ Row(w) # 0
    /\ rows[Row(w)].owner = w /\ rows[Row(w)].status = "RUNNING" /\ ~rows[Row(w)].leased
    /\ rows' = [rows EXCEPT ![Row(w)].leased = TRUE]
    /\ UNCHANGED <<cycleOpen, enabled, worker, upsets>>

-----------------------------------------------------------------------------
(* execute                                                                 *)

(* The first read; the last disjunct is a script whose checksum is wrong. *)
Execute(w) ==
    /\ worker[w].at = "execute"
    /\ LET r == rows[Row(w)]
           eligible == cycleOpen /\ r.job \in enabled
       IN  \/ r.status # "RUNNING" /\ Stop(w)
           \/ /\ r.status = "RUNNING" /\ ~eligible
              /\ worker' = [worker EXCEPT ![w].at = "ending", ![w].outcome = "SKIPPED"]
           \/ r.status = "RUNNING" /\ eligible /\ Go(w, "crawling")
           \/ /\ r.status = "RUNNING" /\ eligible
              /\ worker' = [worker EXCEPT ![w].at = "ending", ![w].outcome = "FAILED"]
    /\ UNCHANGED <<rows, cycleOpen, enabled, upsets>>

(* The script returns its records, finds out at a fetch that the execution *)
(* is no longer its own, or fails.                                         *)
Crawl(w) ==
    /\ worker[w].at = "crawling"
    /\ LET r == rows[Row(w)]
           owned == r.status = "RUNNING" /\ r.owner = w /\ r.leased
       IN  \/ r.status # "CANCELLED" /\ Go(w, "staging")
           \/ ~owned /\ Stop(w)
           \/ \E error \in {"retryable", "fatal"} :
                 worker' = [worker EXCEPT ![w].at = "failed", ![w].outcome = error]
    /\ UNCHANGED <<rows, cycleOpen, enabled, upsets>>

(* The transaction of stage refuses who has lost the lease or the cycle;   *)
(* the fault looks at neither.                                             *)
StageAnyway(w) == TRUE
MayStage(w) ==
    /\ rows[Row(w)].status = "RUNNING" /\ rows[Row(w)].owner = w /\ rows[Row(w)].leased
    /\ cycleOpen

Stage(w) ==
    /\ worker[w].at = "staging"
    /\ IF MayStage(w)
       THEN /\ rows' = [rows EXCEPT ![Row(w)].staged = TRUE]
            /\ \E outcome \in {"SUCCESS", "FAILED"} :
                  worker' = [worker EXCEPT ![w].at = "staged", ![w].outcome = outcome]
       ELSE /\ worker' = [worker EXCEPT ![w].at = "failed", ![w].outcome = "fatal"]
            /\ UNCHANGED rows
    /\ UNCHANGED <<cycleOpen, enabled, upsets>>

(* The final transition.  A conflict after staging is caught; neither a    *)
(* wrong checksum nor a result without a valid row is followed by a retry  *)
(* or by the failure policy.                                               *)
EndExecution(w) ==
    /\ worker[w].at \in {"ending", "staged"}
    /\ TransitionExecution(Row(w), w, worker[w].outcome,
          IF worker[w].outcome \in {"FAILED", "SKIPPED"} THEN "fatal" ELSE "none")
    /\ IF worker[w].at = "staged" /\ rows[Row(w)].owner # w
       THEN worker' = [worker EXCEPT ![w].at = "failed", ![w].outcome = "fatal"]
       ELSE Stop(w)
    /\ UNCHANGED <<cycleOpen, enabled, upsets>>

(* The handler of errors: a conflict here ends execute(). *)
RecordFailure(w) ==
    /\ worker[w].at = "failed"
    /\ TransitionExecution(Row(w), w, "FAILED", worker[w].outcome)
    /\ IF rows[Row(w)].owner # w THEN Stop(w)
       ELSE IF worker[w].outcome = "retryable" THEN Go(w, "retry") ELSE Go(w, "stopping")
    /\ UNCHANGED <<cycleOpen, enabled, upsets>>

(* The later jobs are stopped if there is no retry; the fault stops them   *)
(* whether there is one or not.                                            *)
NeverRetried(i) == FALSE
RetryExists(i) == RetryNeeded(i) \/ AutomaticRetries(i) # {}

RetryOrStop(w) ==
    /\ worker[w].at = "retry"
    /\ ScheduleAutomaticRetry(Row(w))
    /\ IF RetryExists(Row(w)) THEN Stop(w) ELSE Go(w, "stopping")
    /\ UNCHANGED <<cycleOpen, enabled, upsets>>

(* stopFollowingScheduledExecutions: one update for each, none if the row  *)
(* has left QUEUED since the list was read.                                *)
ListFollowing(w) ==
    /\ worker[w].at = "stopping" /\ worker[w].todo = {}
    /\ LET following == FollowingScheduledExecutions(Row(w))
       IN  IF Policy[rows[Row(w)].job] \in {"STOP_CYCLE", "RETRY_THEN_STOP"} /\ following # {}
           THEN worker' = [worker EXCEPT ![w].todo = following]
           ELSE Stop(w)
    /\ UNCHANGED <<rows, cycleOpen, enabled, upsets>>

StopFollowing(w) ==
    /\ worker[w].at = "stopping"
    /\ \E f \in worker[w].todo :
          /\ IF rows[f].status = "QUEUED"
             THEN rows' = [rows EXCEPT ![f].status = "SKIPPED", ![f].reason = "policy"]
             ELSE UNCHANGED rows
          /\ IF worker[w].todo = {f} THEN Stop(w)
                                     ELSE worker' = [worker EXCEPT ![w].todo = @ \ {f}]
    /\ UNCHANGED <<cycleOpen, enabled, upsets>>

-----------------------------------------------------------------------------
(* A process dies; the one that replaces it has an id of its own. *)
Crash(w) ==
    /\ upsets < MaxUpsets
    /\ upsets' = upsets + 1
    /\ rows' = [i \in Ids |-> IF rows[i].owner = w THEN [rows[i] EXCEPT !.owner = Dead] ELSE rows[i]]
    /\ Stop(w)
    /\ UNCHANGED <<cycleOpen, enabled>>

(* A statement is rejected: execute() or the loop gives up what it was at; *)
(* within the try of execute() this is a failure like any other.           *)
StatementFails(w) ==
    /\ upsets < MaxUpsets
    /\ upsets' = upsets + 1
    /\ worker[w].at # "idle"
    /\ IF worker[w].at \in {"crawling", "staging", "staged"}
       THEN worker' = [worker EXCEPT ![w].at = "failed", ![w].outcome = "fatal"]
       ELSE Stop(w)
    /\ UNCHANGED <<rows, cycleOpen, enabled>>

WorkerStep(w) ==
    \/ RecoverExpiredLeases(w) \/ RecoverNext(w) \/ ClaimNextExecution(w)
    \/ Execute(w) \/ Crawl(w) \/ Stage(w) \/ EndExecution(w)
    \/ RecordFailure(w) \/ RetryOrStop(w) \/ ListFollowing(w) \/ StopFollowing(w)

CrawlNext ==
    \/ \E job \in Jobs, window \in Windows : CreateScheduledExecution(job, window)
    \/ \E job \in Jobs : CreateManualExecution(job) \/ SetEnabled(job)
    \/ \E i \in Ids : RetryExecution(i) \/ CancelExecution(i) \/ LeaseExpires(i)
    \/ CycleLeavesOpen
    \/ TimePasses
    \/ \E w \in Workers : WorkerStep(w) \/ HeartbeatExecution(w) \/ Crash(w) \/ StatementFails(w)

(* Workers loop for ever, time passes, and a lease nobody extends expires. *)
Unattended(i) == \A w \in Workers : ~(Row(w) = i /\ rows[i].owner = w)

CrawlFairness ==
    /\ \A w \in Workers : WF_crawlVars(WorkerStep(w))
    /\ WF_crawlVars(TimePasses)
    /\ WF_crawlVars(\E i \in Ids : Unattended(i) /\ LeaseExpires(i))

CrawlSpec == CrawlInit /\ [][CrawlNext]_crawlVars /\ CrawlFairness

-----------------------------------------------------------------------------
(* An execution is worked on by one worker at a time, however leases run   *)
(* out under a worker that is still busy and whoever claims next.          *)
OneWorkerEach ==
    \A w \in Workers : Row(w) # 0 =>
        /\ rows[Row(w)].owner \in {w, Nobody}
        /\ \A v \in Workers : Row(v) = Row(w) => v = w

(* "Execution records are never overwritten": no worker that comes late,   *)
(* no recovery, cancellation or policy changes a finished execution.       *)
FinishedIsFinal ==
    [][\A i \in Ids : rows[i].status \in Finished =>
          [rows'[i] EXCEPT !.wait = 0] = [rows[i] EXCEPT !.wait = 0]]_crawlVars

(* Retries form chains: each follows an execution that has failed for a    *)
(* reason that may pass, counts on from it and stays within the limit, and *)
(* recovery and the worker never both retry the same execution.            *)
RetriesFormChains ==
    \A i \in Ids :
        /\ Cardinality(AutomaticRetries(i)) <= 1
        /\ rows[i].attempt <= MaxAttempts
        /\ rows[i].trigger = "RETRY" =>
              LET previous == rows[rows[i].retryOf]
              IN  /\ previous.status \in {"FAILED", "TIMEOUT"}
                  /\ previous.reason = "retryable"
                  /\ rows[i].attempt = previous.attempt + 1

(* An execution skipped by the failure policy of an earlier job has such a *)
(* job before it in its window, which has failed and is not tried again.   *)
StoppedByFailure ==
    \A f \in Ids : rows[f].reason = "policy" =>
        \E i \in Ids :
            /\ rows[i].status \in {"FAILED", "TIMEOUT"}
            /\ rows[i].job < rows[f].job /\ rows[i].window = rows[f].window
            /\ Policy[rows[i].job] \in {"STOP_CYCLE", "RETRY_THEN_STOP"}
            /\ AutomaticRetries(i) = {}

(* Every execution ends, whichever workers die on the way, if crashes and  *)
(* failing statements do not go on for ever.                               *)
MaxRows == MaxAttempts * MaxInserts

ExecutionsEnd ==
    \A i \in 1..MaxRows : i \in Ids ~> i \in Ids /\ rows[i].status \in Finished

-----------------------------------------------------------------------------
(* What the documents say of the program and the code does not do.         *)

(* "Failure policy controls whether following jobs continue": when a job   *)
(* that stops its cycle has failed for good and its worker is done with    *)
(* it, no later job of the window is started.                              *)
FailedForGood(i) ==
    \E r \in {i} \cup AutomaticRetries(i) :
        /\ rows[r].status \in {"FAILED", "TIMEOUT"}
        /\ AutomaticRetries(r) = {}
        /\ \A w \in Workers : Row(w) # r /\ r \notin worker[w].todo

StopPolicyHolds ==
    [][\A f, i \in Ids :
          /\ rows[f].status = "QUEUED" /\ rows'[f].status = "RUNNING"
          /\ rows[f].trigger = "SCHEDULED" /\ rows[i].trigger = "SCHEDULED"
          /\ rows[i].window = rows[f].window /\ rows[i].job < rows[f].job
          /\ Policy[rows[i].job] \in {"STOP_CYCLE", "RETRY_THEN_STOP"}
          => ~FailedForGood(i)]_crawlVars
=============================================================================
