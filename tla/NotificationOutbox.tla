------------------------- MODULE NotificationOutbox -------------------------
(***************************************************************************)
(* The transactional outbox of the module notification.  Business          *)
(* transactions insert PENDING rows into notification_log; batches read    *)
(* pending rows, send each mail and record the outcome, every one of these *)
(* in a statement of its own.                                              *)
(*                                                                         *)
(* The one caller of processPendingBatch in the program is the resend of   *)
(* an administrator: nothing calls start(), so the polling loop of the     *)
(* worker never runs.  A resend does not wait for the batch of another.    *)
(***************************************************************************)
EXTENDS Naturals, Sequences, FiniteSets

CONSTANTS
    Notes,       \* rows of notification_log
    Mandatory,   \* the rows of type RESULT_PUBLISHED
    Runs,        \* requests of administrators in flight
    MaxRetries,  \* maxRetries of the worker
    BatchSize,   \* rows read at a time
    Throttle,    \* mails in a window of 60 seconds
    MaxRequests  \* bound on the requests of administrators

ASSUME OutboxAssumption ==
    /\ Mandatory \subseteq Notes /\ IsFiniteSet(Runs)
    /\ MaxRetries \in Nat \ {0, 1} /\ BatchSize \in Nat \ {0} /\ Throttle \in Nat \ {0}
    /\ MaxRequests \in Nat

VARIABLES
    log,             \* the rows in the order of created_at
    status,          \* notification_log.status, "NONE" before the insert
    retryCount,      \* notification_log.retry_count
    optedOut,        \* the recipient has disabled the row's type
    templateActive,  \* the template of the row's type is active
    run,             \* the local state of every request
    recent,          \* length of sentTimestamps, the mails of the last 60 seconds
    requests,        \* requests made so far
    deliveries       \* history: mails sent for a row

outboxVars == <<log, status, retryCount, optedOut, templateActive, run, recent, requests, deliveries>>
rowVars == <<log, status, retryCount>>
settingVars == <<optedOut, templateActive>>

OutboxStatuses == {"NONE", "PENDING", "SENT", "FAILED", "SKIPPED"}
Idle == [at |-> "idle", rows |-> <<>>]
Row == [note : Notes, retry : 0..MaxRetries]
Working == [at : {"start", "next", "send", "sent", "skip", "failed", "test", "tested", "testFailed"},
            rows : Seq(Row)]

OutboxTypeOK ==
    /\ log \in Seq(Notes)
    /\ status \in [Notes -> OutboxStatuses]
    /\ retryCount \in [Notes -> 0..MaxRetries]
    /\ optedOut \in [Notes -> BOOLEAN]
    /\ templateActive \in [Notes -> BOOLEAN]
    /\ run \in [Runs -> Working \cup {Idle}]
    /\ recent \in Nat
    /\ requests \in Nat
    /\ deliveries \in [Notes -> Nat]

OutboxInit ==
    /\ log = <<>>
    /\ status = [n \in Notes |-> "NONE"]
    /\ retryCount = [n \in Notes |-> 0]
    /\ optedOut = [n \in Notes |-> FALSE]
    /\ templateActive = [n \in Notes |-> TRUE]
    /\ run = [b \in Runs |-> Idle]
    /\ recent = 0
    /\ requests = 0
    /\ deliveries = [n \in Notes |-> 0]

-----------------------------------------------------------------------------
(* insertOutbox and updateLogStatus.  The update names the row and nothing *)
(* else: it overwrites what another request has recorded.                  *)

InsertOutbox(n) ==
    /\ status[n] = "NONE"
    /\ log' = Append(log, n)
    /\ status' = [status EXCEPT ![n] = "PENDING"]
    /\ retryCount' = [retryCount EXCEPT ![n] = 0]

UpdateLogStatus(n, s, retry) ==
    /\ status' = [status EXCEPT ![n] = s]
    /\ retryCount' = [retryCount EXCEPT ![n] = retry]
    /\ UNCHANGED log

(* enqueueNotification: a mandatory type ignores the preference. *)
EnqueueNotification(n) ==
    /\ n \in Mandatory \/ ~optedOut[n]
    /\ InsertOutbox(n)
    /\ UNCHANGED <<settingVars, run, recent, requests, deliveries>>

UpdatePreference(n) ==
    /\ n \notin Mandatory
    /\ optedOut' = [optedOut EXCEPT ![n] = ~@]
    /\ UNCHANGED <<rowVars, templateActive, run, recent, requests, deliveries>>

UpdateTemplate(n) ==
    /\ templateActive' = [templateActive EXCEPT ![n] = ~@]
    /\ UNCHANGED <<rowVars, optedOut, run, recent, requests, deliveries>>

-----------------------------------------------------------------------------
(* The requests of administrators: a resend, which starts a batch when its *)
(* own transaction is over, and a test mail, which sends its row itself.   *)

NewRequest(b, state) ==
    /\ run[b] = Idle
    /\ requests < MaxRequests
    /\ requests' = requests + 1
    /\ run' = [run EXCEPT ![b] = state]

ResendNotification(b, n) ==
    /\ status[n] # "NONE"
    /\ UpdateLogStatus(n, "PENDING", 0)
    /\ NewRequest(b, [at |-> "start", rows |-> <<>>])
    /\ UNCHANGED <<settingVars, recent, deliveries>>

TestSmtp(b, n) ==
    /\ InsertOutbox(n)
    /\ NewRequest(b, [at |-> "test", rows |-> <<[note |-> n, retry |-> 0]>>])
    /\ UNCHANGED <<settingVars, recent, deliveries>>

-----------------------------------------------------------------------------
(* processPendingBatch                                                     *)

Current(b) == Head(run[b].rows)

(* findPendingOutbox reads the oldest pending rows, at most BatchSize of   *)
(* them.  The row locks of FOR UPDATE SKIP LOCKED end with the statement,  *)
(* which runs outside a transaction.                                       *)
FirstPending(places) ==
    /\ \A i \in DOMAIN places : status[log[places[i]]] = "PENDING"
    /\ \A i, j \in DOMAIN places : i < j => places[i] < places[j]
    /\ \A k \in DOMAIN log : status[log[k]] = "PENDING" =>
          \/ \E i \in DOMAIN places : places[i] = k
          \/ Len(places) = BatchSize /\ \A i \in DOMAIN places : places[i] < k

RowAt(k) == [note |-> log[k], retry |-> retryCount[log[k]]]

FindPendingOutbox(b) ==
    /\ run[b].at = "start"
    /\ \E limit \in 0..BatchSize : \E places \in [1..limit -> DOMAIN log] :
          /\ FirstPending(places)
          /\ run' = [run EXCEPT ![b] =
                [at |-> "next", rows |-> [i \in 1..limit |-> RowAt(places[i])]]]
    /\ UNCHANGED <<rowVars, settingVars, recent, requests, deliveries>>

(* The fault lets one mail too many into the window. *)
CanSendOneMore == recent <= Throttle
CanSendNow == recent < Throttle

EndBatch(b) ==
    /\ run[b].at = "next"
    /\ run[b].rows = <<>> \/ ~CanSendNow
    /\ run' = [run EXCEPT ![b] = Idle]
    /\ UNCHANGED <<rowVars, settingVars, recent, requests, deliveries>>

(* The template and the preference of the next row decide what to do with it. *)
CheckRow(b) ==
    /\ run[b].at = "next"
    /\ run[b].rows # <<>> /\ CanSendNow
    /\ LET n == Current(b).note
           skip == ~templateActive[n] \/ (n \notin Mandatory /\ optedOut[n])
       IN  run' = [run EXCEPT ![b].at = IF skip THEN "skip" ELSE "send"]
    /\ UNCHANGED <<rowVars, settingVars, recent, requests, deliveries>>

(* sendEmail resolves, and the window counts the mail, or it rejects. *)
SendEmail(b) ==
    /\ run[b].at = "send"
    /\ \/ /\ deliveries' = [deliveries EXCEPT ![Current(b).note] = @ + 1]
          /\ recent' = recent + 1
          /\ run' = [run EXCEPT ![b].at = "sent"]
       \/ /\ run' = [run EXCEPT ![b].at = "failed"]
          /\ UNCHANGED <<recent, deliveries>>
    /\ UNCHANGED <<rowVars, settingVars, requests>>

(* The outcome of a row, from the retry_count the batch has read.  The     *)
(* faults count a failure twice, or mark a skipped row SENT.               *)
OutcomeCountedTwice(at, retry) ==
    CASE at = "sent" -> <<"SENT", retry>>
      [] at = "skip" -> <<"SKIPPED", retry>>
      [] at = "failed" -> <<IF retry + 1 >= MaxRetries THEN "FAILED" ELSE "PENDING", retry + 2>>
OutcomeSkippedAsSent(at, retry) ==
    CASE at \in {"sent", "skip"} -> <<"SENT", retry>>
      [] at = "failed" -> <<IF retry + 1 >= MaxRetries THEN "FAILED" ELSE "PENDING", retry + 1>>
Outcome(at, retry) ==
    CASE at = "sent" -> <<"SENT", retry>>
      [] at = "skip" -> <<"SKIPPED", retry>>
      [] at = "failed" -> <<IF retry + 1 >= MaxRetries THEN "FAILED" ELSE "PENDING", retry + 1>>

(* The rows a batch has left; the fault tries a failed row again at once. *)
RowsAgainIfFailed(b) == IF run[b].at = "failed" THEN run[b].rows ELSE Tail(run[b].rows)
RowsLeft(b) == Tail(run[b].rows)

RecordOutcome(b) ==
    /\ run[b].at \in {"sent", "skip", "failed"}
    /\ LET outcome == Outcome(run[b].at, Current(b).retry)
       IN  UpdateLogStatus(Current(b).note, outcome[1], outcome[2])
    /\ run' = [run EXCEPT ![b] = [at |-> "next", rows |-> RowsLeft(b)]]
    /\ UNCHANGED <<settingVars, recent, requests, deliveries>>

(* The update itself fails.  After a mail was sent this counts as a failed *)
(* attempt; in the handler of a failure it ends the request.               *)
UpdateFails(b) ==
    /\ \/ run[b].at \in {"sent", "skip"} /\ run' = [run EXCEPT ![b].at = "failed"]
       \/ run[b].at = "tested" /\ run' = [run EXCEPT ![b].at = "testFailed"]
       \/ run[b].at \in {"failed", "testFailed"} /\ run' = [run EXCEPT ![b] = Idle]
    /\ UNCHANGED <<rowVars, settingVars, recent, requests, deliveries>>

-----------------------------------------------------------------------------
(* testSmtp, after the insert.                                             *)

SendTest(b) ==
    /\ run[b].at = "test"
    /\ \/ /\ deliveries' = [deliveries EXCEPT ![Current(b).note] = @ + 1]
          /\ run' = [run EXCEPT ![b].at = "tested"]
       \/ /\ run' = [run EXCEPT ![b].at = "testFailed"]
          /\ UNCHANGED deliveries
    /\ UNCHANGED <<rowVars, settingVars, recent, requests>>

RecordTest(b) ==
    /\ run[b].at \in {"tested", "testFailed"}
    /\ IF run[b].at = "tested" THEN UpdateLogStatus(Current(b).note, "SENT", 0)
                               ELSE UpdateLogStatus(Current(b).note, "FAILED", 1)
    /\ run' = [run EXCEPT ![b] = Idle]
    /\ UNCHANGED <<settingVars, recent, requests, deliveries>>

-----------------------------------------------------------------------------
(* A mail leaves the window of 60 seconds. *)
WindowSlides ==
    /\ recent > 0
    /\ recent' = recent - 1
    /\ UNCHANGED <<rowVars, settingVars, run, requests, deliveries>>

(* The process restarts: requests in flight and the window are lost. *)
Restart ==
    /\ run' = [b \in Runs |-> Idle]
    /\ recent' = 0
    /\ UNCHANGED <<rowVars, settingVars, requests, deliveries>>

RunStep(b) ==
    \/ FindPendingOutbox(b)
    \/ EndBatch(b)
    \/ CheckRow(b)
    \/ SendEmail(b)
    \/ RecordOutcome(b)
    \/ UpdateFails(b)
    \/ SendTest(b)
    \/ RecordTest(b)

OutboxNext ==
    \/ \E n \in Notes : EnqueueNotification(n) \/ UpdatePreference(n) \/ UpdateTemplate(n)
    \/ \E b \in Runs, n \in Notes : ResendNotification(b, n) \/ TestSmtp(b, n)
    \/ \E b \in Runs : RunStep(b)
    \/ WindowSlides
    \/ Restart

(* A started request goes on: every promise it awaits settles. *)
OutboxFairness == \A b \in Runs : WF_outboxVars(RunStep(b))

OutboxSpec == OutboxInit /\ [][OutboxNext]_outboxVars /\ OutboxFairness

-----------------------------------------------------------------------------
(* However many requests write the same row from what they read earlier, a *)
(* pending row has an attempt left and a failed row has used one.          *)
RetriesRemain ==
    \A n \in Notes :
        /\ status[n] = "PENDING" => retryCount[n] < MaxRetries
        /\ status[n] = "FAILED" => retryCount[n] > 0

(* No row is marked SENT for which no mail has ever left.                  *)
SentWasDelivered ==
    \A n \in Notes : status[n] = "SENT" => deliveries[n] > 0

(* Batches check the window before they send and count the mail after:     *)
(* together they exceed the throttle by less than one mail for each.       *)
ThrottleHolds == recent < Throttle + Cardinality(Runs)

(* A request always ends, whatever fails: a failing mail never keeps a     *)
(* batch busy.                                                             *)
RequestsEnd == \A b \in Runs : run[b] # Idle ~> run[b] = Idle

-----------------------------------------------------------------------------
(* What the documents say of the program and the code does not do.         *)

(* "Row-locking ensures exactly-once processing during concurrent worker   *)
(* runs or manual admin resends": no row is sent by two requests at once.  *)
ProcessedByOne ==
    \A b, c \in Runs :
        run[b].at = "send" /\ run[c].at = "send" /\ Current(b).note = Current(c).note => b = c
=============================================================================
