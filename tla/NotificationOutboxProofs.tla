------------------------ MODULE NotificationOutboxProofs ------------------------
(***************************************************************************)
(* What is true of the outbox for any number of rows, of requests and of   *)
(* retries.                                                                *)
(***************************************************************************)
EXTENDS NotificationOutbox, SequenceTheorems, FiniteSetTheorems, TLAPS

Steps == {"start", "next", "send", "sent", "skip", "failed", "test", "tested", "testFailed"}

-----------------------------------------------------------------------------
(* Types.  A request that is busy with a row has one, and a batch only     *)
(* ever reads rows with an attempt left.                                   *)

HasRow(b) == run[b].at \in {"send", "sent", "skip", "failed", "test", "tested", "testFailed"}
                => run[b].rows # <<>>
AttemptLeft(b) == \A i \in DOMAIN run[b].rows : run[b].rows[i].retry < MaxRetries
RowsInv ==
    /\ OutboxTypeOK
    /\ \A b \in Runs : HasRow(b) /\ AttemptLeft(b)
    /\ RetriesRemain

LEMMA RunIs ==
    ASSUME OutboxTypeOK, NEW b \in Runs
    PROVE  /\ run[b].at \in Steps \cup {"idle"} /\ run[b].rows \in Seq(Row)
           /\ run[b].at # "idle" => run[b] \in Working
<1>1. Idle.rows \in Seq(Row) /\ Idle.at = "idle"
  BY DEF Idle
<1>2. run[b] \in Working \/ run[b] = Idle
  BY DEF OutboxTypeOK
<1> QED BY <1>1, <1>2 DEF Working, Steps

(* The row a request is busy with, and the rows it has left. *)
LEMMA CurrentIs ==
    ASSUME RowsInv, NEW b \in Runs, run[b].rows # <<>>
    PROVE  /\ Current(b) \in Row /\ Current(b).note \in Notes
           /\ Current(b).retry \in 0..MaxRetries /\ Current(b).retry < MaxRetries
           /\ RowsLeft(b) \in Seq(Row)
           /\ \A i \in DOMAIN RowsLeft(b) : RowsLeft(b)[i].retry < MaxRetries
<1>1. run[b].rows \in Seq(Row)
  BY RunIs DEF RowsInv
<1>2. /\ Current(b) = run[b].rows[1] /\ 1 \in DOMAIN run[b].rows /\ Current(b) \in Row
      /\ RowsLeft(b) \in Seq(Row)
  BY <1>1 DEF Current, RowsLeft
<1>3. \A i \in DOMAIN RowsLeft(b) : i + 1 \in DOMAIN run[b].rows /\ RowsLeft(b)[i] = run[b].rows[i + 1]
  BY <1>1 DEF RowsLeft
<1>4. AttemptLeft(b)
  BY DEF RowsInv
<1> QED BY <1>2, <1>3, <1>4 DEF AttemptLeft, Row

LEMMA InitRowsInv == OutboxInit => RowsInv
<1> SUFFICES ASSUME OutboxInit PROVE RowsInv
  OBVIOUS
<1>1. MaxRetries \in Nat \ {0, 1}
  BY OutboxAssumption
<1>2. OutboxTypeOK
  BY <1>1 DEF OutboxInit, OutboxTypeOK, OutboxStatuses
<1>3. \A b \in Runs : HasRow(b) /\ AttemptLeft(b)
  BY DEF OutboxInit, HasRow, AttemptLeft, Idle
<1>4. RetriesRemain
  BY DEF OutboxInit, RetriesRemain
<1> QED BY <1>2, <1>3, <1>4 DEF RowsInv

(* A request that gets a new local state. *)
LEMMA RunMoves ==
    ASSUME RowsInv, NEW b \in Runs, NEW w, run' = [run EXCEPT ![b] = w],
           w \in Working \/ w = Idle,
           w.at \in {"send", "sent", "skip", "failed", "test", "tested", "testFailed"} => w.rows # <<>>,
           \A i \in DOMAIN w.rows : w.rows[i].retry < MaxRetries
    PROVE  /\ run' \in [Runs -> Working \cup {Idle}]
           /\ (\A c \in Runs : HasRow(c) /\ AttemptLeft(c))'
<1>1. run \in [Runs -> Working \cup {Idle}] /\ \A c \in Runs : HasRow(c) /\ AttemptLeft(c)
  BY DEF RowsInv, OutboxTypeOK
<1>2. run' \in [Runs -> Working \cup {Idle}]
  BY <1>1
<1>3. ASSUME NEW c \in Runs PROVE HasRow(c)' /\ AttemptLeft(c)'
  <2>1. run'[c] = IF c = b THEN w ELSE run[c]
    BY <1>1
  <2> QED BY <1>1, <2>1 DEF HasRow, AttemptLeft
<1> QED BY <1>2, <1>3

(* A step of a request that keeps its rows. *)
LEMMA RunKeepsRows ==
    ASSUME RowsInv, NEW b \in Runs, run[b].at # "idle", NEW at \in Steps,
           run' = [run EXCEPT ![b].at = at],
           at \in {"send", "sent", "skip", "failed", "test", "tested", "testFailed"} => run[b].rows # <<>>
    PROVE  /\ run' \in [Runs -> Working \cup {Idle}]
           /\ (\A c \in Runs : HasRow(c) /\ AttemptLeft(c))'
           /\ run'[b].at = at /\ run'[b].rows = run[b].rows
<1> DEFINE w == [run[b] EXCEPT !.at = at]
<1>1. w \in Working /\ w.rows = run[b].rows /\ w.at = at
  BY RunIs DEF RowsInv, Working, Steps
<1>2. AttemptLeft(b) /\ run \in [Runs -> Working \cup {Idle}]
  BY DEF RowsInv, OutboxTypeOK
<1>3. run' = [run EXCEPT ![b] = w]
  OBVIOUS
<1> HIDE DEF w
<1>4. run'[b] = w
  BY <1>2, <1>3
<1> QED BY <1>1, <1>2, <1>3, <1>4, RunMoves DEF AttemptLeft

LEMMA IdleMoves ==
    ASSUME RowsInv, NEW b \in Runs, run' = [run EXCEPT ![b] = Idle]
    PROVE  /\ run' \in [Runs -> Working \cup {Idle}]
           /\ (\A c \in Runs : HasRow(c) /\ AttemptLeft(c))'
<1>1. Idle.at = "idle" /\ Idle.rows = <<>> /\ \A i \in DOMAIN Idle.rows : Idle.rows[i].retry < MaxRetries
  BY DEF Idle
<1> QED BY <1>1, RunMoves

(* The columns of a row after a write that keeps an attempt for it. *)
LEMMA RowWritten ==
    ASSUME RowsInv, NEW n \in Notes, NEW s \in OutboxStatuses, NEW retry \in 0..MaxRetries,
           s = "PENDING" => retry < MaxRetries, s = "FAILED" => retry > 0,
           status' = [status EXCEPT ![n] = s], retryCount' = [retryCount EXCEPT ![n] = retry]
    PROVE  /\ status' \in [Notes -> OutboxStatuses] /\ retryCount' \in [Notes -> 0..MaxRetries]
           /\ RetriesRemain'
<1>1. status \in [Notes -> OutboxStatuses] /\ retryCount \in [Notes -> 0..MaxRetries]
  BY DEF RowsInv, OutboxTypeOK
<1>2. \A m \in Notes : /\ status'[m] = IF m = n THEN s ELSE status[m]
                       /\ retryCount'[m] = IF m = n THEN retry ELSE retryCount[m]
  BY <1>1
<1>3. RetriesRemain'
  BY <1>2 DEF RowsInv, RetriesRemain
<1> QED BY <1>1, <1>3

LEMMA OutcomeIs ==
    ASSUME NEW at \in {"sent", "skip", "failed"}, NEW retry \in 0..MaxRetries, retry < MaxRetries
    PROVE  /\ Outcome(at, retry)[1] \in OutboxStatuses /\ Outcome(at, retry)[2] \in 0..MaxRetries
           /\ Outcome(at, retry)[1] = "PENDING" => Outcome(at, retry)[2] < MaxRetries
           /\ Outcome(at, retry)[1] = "FAILED" => Outcome(at, retry)[2] > 0
           /\ Outcome(at, retry)[1] = "SENT" => at = "sent"
<1>1. MaxRetries \in Nat
  BY OutboxAssumption
<1>2. CASE at = "sent"
  BY <1>1, <1>2 DEF Outcome, OutboxStatuses
<1>3. CASE at = "skip"
  BY <1>1, <1>3 DEF Outcome, OutboxStatuses
<1>4. CASE at = "failed"
  BY <1>1, <1>4 DEF Outcome, OutboxStatuses
<1> QED BY <1>2, <1>3, <1>4

LEMMA StepRowsInv == RowsInv /\ [OutboxNext]_outboxVars => RowsInv'
<1> SUFFICES ASSUME RowsInv, [OutboxNext]_outboxVars PROVE RowsInv'
  OBVIOUS
<1>0. /\ OutboxTypeOK /\ RetriesRemain /\ \A b \in Runs : HasRow(b) /\ AttemptLeft(b)
      /\ MaxRetries \in Nat \ {0, 1}
  BY OutboxAssumption DEF RowsInv
<1>a. ASSUME UNCHANGED run
      PROVE  run' \in [Runs -> Working \cup {Idle}] /\ (\A b \in Runs : HasRow(b) /\ AttemptLeft(b))'
  BY <1>0, <1>a DEF OutboxTypeOK, HasRow, AttemptLeft
<1>b. ASSUME UNCHANGED rowVars
      PROVE  /\ log' \in Seq(Notes) /\ status' \in [Notes -> OutboxStatuses]
             /\ retryCount' \in [Notes -> 0..MaxRetries] /\ RetriesRemain'
  BY <1>0, <1>b DEF OutboxTypeOK, rowVars, RetriesRemain
<1>c. ASSUME NEW n \in Notes, InsertOutbox(n)
      PROVE  /\ log' \in Seq(Notes) /\ status' \in [Notes -> OutboxStatuses]
             /\ retryCount' \in [Notes -> 0..MaxRetries] /\ RetriesRemain'
  <2>1. log' \in Seq(Notes)
    BY <1>0, <1>c DEF InsertOutbox, OutboxTypeOK
  <2>2. "PENDING" \in OutboxStatuses /\ 0 \in 0..MaxRetries /\ 0 < MaxRetries
    BY <1>0 DEF OutboxStatuses
  <2> QED BY <1>c, <2>1, <2>2, RowWritten DEF InsertOutbox
<1>d. ASSUME NEW n \in Notes, NEW s \in OutboxStatuses, NEW retry \in 0..MaxRetries,
             s = "PENDING" => retry < MaxRetries, s = "FAILED" => retry > 0, UpdateLogStatus(n, s, retry)
      PROVE  /\ log' \in Seq(Notes) /\ status' \in [Notes -> OutboxStatuses]
             /\ retryCount' \in [Notes -> 0..MaxRetries] /\ RetriesRemain'
  BY <1>0, <1>d, RowWritten DEF UpdateLogStatus, OutboxTypeOK
<1>1. ASSUME NEW n \in Notes, EnqueueNotification(n) \/ UpdatePreference(n) \/ UpdateTemplate(n)
      PROVE  RowsInv'
  <2>1. UNCHANGED <<run, recent, requests, deliveries>>
    BY <1>1 DEF EnqueueNotification, UpdatePreference, UpdateTemplate
  <2>2. InsertOutbox(n) \/ UNCHANGED rowVars
    BY <1>1 DEF EnqueueNotification, UpdatePreference, UpdateTemplate
  <2>3. optedOut' \in [Notes -> BOOLEAN] /\ templateActive' \in [Notes -> BOOLEAN]
    BY <1>0, <1>1 DEF EnqueueNotification, UpdatePreference, UpdateTemplate, settingVars, OutboxTypeOK
  <2> QED BY <1>0, <1>a, <1>b, <1>c, <2>1, <2>2, <2>3 DEF RowsInv, OutboxTypeOK
<1>2. ASSUME NEW b \in Runs, NEW n \in Notes, ResendNotification(b, n) PROVE RowsInv'
  <2> DEFINE w == [at |-> "start", rows |-> <<>>]
  <2>1. run' = [run EXCEPT ![b] = w] /\ requests' = requests + 1
    BY <1>2 DEF ResendNotification, NewRequest
  <2>2. w \in Working /\ w.at = "start" /\ \A i \in DOMAIN w.rows : w.rows[i].retry < MaxRetries
    BY DEF Working
  <2> HIDE DEF w
  <2>3. run' \in [Runs -> Working \cup {Idle}] /\ (\A c \in Runs : HasRow(c) /\ AttemptLeft(c))'
    BY <2>1, <2>2, RunMoves
  <2>4. "PENDING" \in OutboxStatuses /\ 0 \in 0..MaxRetries /\ 0 < MaxRetries
    BY <1>0 DEF OutboxStatuses
  <2>5. UpdateLogStatus(n, "PENDING", 0)
    BY <1>2 DEF ResendNotification
  <2> QED BY <1>0, <1>2, <1>d, <2>1, <2>3, <2>4, <2>5 DEF ResendNotification, settingVars, RowsInv, OutboxTypeOK
<1>3. ASSUME NEW b \in Runs, NEW n \in Notes, TestSmtp(b, n) PROVE RowsInv'
  <2> DEFINE w == [at |-> "test", rows |-> <<[note |-> n, retry |-> 0]>>]
  <2>1. run' = [run EXCEPT ![b] = w] /\ requests' = requests + 1
    BY <1>3 DEF TestSmtp, NewRequest
  <2>2. [note |-> n, retry |-> 0] \in Row
    BY <1>0 DEF Row
  <2>3. w \in Working /\ w.rows # <<>> /\ \A i \in DOMAIN w.rows : w.rows[i].retry < MaxRetries
    BY <1>0, <2>2 DEF Working
  <2> HIDE DEF w
  <2>4. run' \in [Runs -> Working \cup {Idle}] /\ (\A c \in Runs : HasRow(c) /\ AttemptLeft(c))'
    BY <2>1, <2>3, RunMoves
  <2> QED BY <1>0, <1>3, <1>c, <2>1, <2>4 DEF TestSmtp, settingVars, RowsInv, OutboxTypeOK
<1>4. ASSUME NEW b \in Runs, FindPendingOutbox(b) PROVE RowsInv'
  <2>1. PICK limit \in 0..BatchSize : \E places \in [1..limit -> DOMAIN log] :
           FirstPending(places) /\ run' = [run EXCEPT ![b] =
                [at |-> "next", rows |-> [i \in 1..limit |-> RowAt(places[i])]]]
    BY <1>4 DEF FindPendingOutbox
  <2>2. PICK places \in [1..limit -> DOMAIN log] :
           FirstPending(places) /\ run' = [run EXCEPT ![b] =
                [at |-> "next", rows |-> [i \in 1..limit |-> RowAt(places[i])]]]
    BY <2>1
  <2> DEFINE rows == [i \in 1..limit |-> RowAt(places[i])]
             w == [at |-> "next", rows |-> rows]
  <2>3. limit \in Nat
    BY OutboxAssumption
  <2>4. ASSUME NEW i \in 1..limit PROVE RowAt(places[i]) \in Row /\ RowAt(places[i]).retry < MaxRetries
    <3>1. log[places[i]] \in Notes
      BY <1>0 DEF OutboxTypeOK
    <3>2. status[log[places[i]]] = "PENDING"
      BY <2>2 DEF FirstPending
    <3> QED BY <1>0, <3>1, <3>2 DEF RowAt, Row, OutboxTypeOK, RetriesRemain
  <2>5. rows \in Seq(Row) /\ DOMAIN rows = 1..limit
    BY <2>3, <2>4, IsASeq
  <2>6. \A i \in DOMAIN rows : rows[i].retry < MaxRetries
    BY <2>4, <2>5
  <2>7. run' = [run EXCEPT ![b] = w]
    BY <2>2
  <2> HIDE DEF rows
  <2>8. w \in Working /\ w.at = "next" /\ w.rows = rows
    BY <2>5 DEF Working
  <2> HIDE DEF w
  <2>9. run' \in [Runs -> Working \cup {Idle}] /\ (\A c \in Runs : HasRow(c) /\ AttemptLeft(c))'
    BY <2>6, <2>7, <2>8, RunMoves
  <2> QED BY <1>0, <1>4, <1>b, <2>9 DEF FindPendingOutbox, settingVars, RowsInv, OutboxTypeOK
<1>5. ASSUME NEW b \in Runs, EndBatch(b) PROVE RowsInv'
  BY <1>0, <1>5, <1>b, IdleMoves DEF EndBatch, settingVars, RowsInv, OutboxTypeOK
<1>6. ASSUME NEW b \in Runs, CheckRow(b) PROVE RowsInv'
  <2>1. PICK at \in {"skip", "send"} : run' = [run EXCEPT ![b].at = at]
    BY <1>6 DEF CheckRow
  <2>2. run[b].at # "idle" /\ run[b].rows # <<>> /\ at \in Steps
    BY <1>6 DEF CheckRow, Steps
  <2>3. run' \in [Runs -> Working \cup {Idle}] /\ (\A c \in Runs : HasRow(c) /\ AttemptLeft(c))'
    BY <2>1, <2>2, RunKeepsRows
  <2> QED BY <1>0, <1>6, <1>b, <2>3 DEF CheckRow, settingVars, RowsInv, OutboxTypeOK
<1>7. ASSUME NEW b \in Runs, SendEmail(b) \/ SendTest(b) PROVE RowsInv'
  <2>1. PICK at \in {"sent", "failed", "tested", "testFailed"} : run' = [run EXCEPT ![b].at = at]
    BY <1>7 DEF SendEmail, SendTest
  <2>2. run[b].at # "idle" /\ run[b].rows # <<>> /\ at \in Steps
    BY <1>0, <1>7 DEF SendEmail, SendTest, HasRow, Steps
  <2>3. run' \in [Runs -> Working \cup {Idle}] /\ (\A c \in Runs : HasRow(c) /\ AttemptLeft(c))'
    BY <2>1, <2>2, RunKeepsRows
  <2>4. Current(b).note \in Notes
    BY <2>2, CurrentIs
  <2>5. recent' \in Nat /\ deliveries' \in [Notes -> Nat]
    <3>1. recent \in Nat /\ deliveries \in [Notes -> Nat]
      BY <1>0 DEF OutboxTypeOK
    <3>2. /\ recent' = recent \/ recent' = recent + 1
          /\ \/ deliveries' = deliveries
             \/ deliveries' = [deliveries EXCEPT ![Current(b).note] = @ + 1]
      BY <1>7 DEF SendEmail, SendTest
    <3> QED BY <2>4, <3>1, <3>2
  <2> QED BY <1>0, <1>7, <1>b, <2>3, <2>5 DEF SendEmail, SendTest, settingVars, RowsInv, OutboxTypeOK
<1>8. ASSUME NEW b \in Runs, RecordOutcome(b) PROVE RowsInv'
  <2> DEFINE w == [at |-> "next", rows |-> RowsLeft(b)]
             s == Outcome(run[b].at, Current(b).retry)[1]
             retry == Outcome(run[b].at, Current(b).retry)[2]
  <2>1. /\ run[b].rows # <<>> /\ run[b].at \in {"sent", "skip", "failed"}
        /\ run' = [run EXCEPT ![b] = w] /\ UpdateLogStatus(Current(b).note, s, retry)
    BY <1>0, <1>8 DEF RecordOutcome, HasRow
  <2>2. /\ Current(b).note \in Notes /\ s \in OutboxStatuses /\ retry \in 0..MaxRetries
        /\ s = "PENDING" => retry < MaxRetries
        /\ s = "FAILED" => retry > 0
    BY <2>1, CurrentIs, OutcomeIs
  <2>3. w \in Working /\ w.at = "next" /\ \A i \in DOMAIN w.rows : w.rows[i].retry < MaxRetries
    BY <2>1, CurrentIs DEF Working
  <2> HIDE DEF w, s, retry
  <2>4. run' \in [Runs -> Working \cup {Idle}] /\ (\A c \in Runs : HasRow(c) /\ AttemptLeft(c))'
    BY <2>1, <2>3, RunMoves
  <2> QED BY <1>0, <1>8, <1>d, <2>1, <2>2, <2>4 DEF RecordOutcome, settingVars, RowsInv, OutboxTypeOK
<1>9. ASSUME NEW b \in Runs, UpdateFails(b) PROVE RowsInv'
  <2>1. CASE run' = [run EXCEPT ![b] = Idle]
    BY <1>0, <1>9, <1>b, <2>1, IdleMoves DEF UpdateFails, settingVars, RowsInv, OutboxTypeOK
  <2>2. CASE \E at \in {"failed", "testFailed"} : run' = [run EXCEPT ![b].at = at]
    <3>1. PICK at \in {"failed", "testFailed"} : run' = [run EXCEPT ![b].at = at]
      BY <2>2
    <3>2. run[b].at # "idle" /\ run[b].rows # <<>> /\ at \in Steps
      BY <1>0, <1>9 DEF UpdateFails, HasRow, Steps
    <3>3. run' \in [Runs -> Working \cup {Idle}] /\ (\A c \in Runs : HasRow(c) /\ AttemptLeft(c))'
      BY <3>1, <3>2, RunKeepsRows
    <3> QED BY <1>0, <1>9, <1>b, <3>3 DEF UpdateFails, settingVars, RowsInv, OutboxTypeOK
  <2> QED BY <1>9, <2>1, <2>2 DEF UpdateFails
<1>10. ASSUME NEW b \in Runs, RecordTest(b) PROVE RowsInv'
  <2>1. run[b].rows # <<>> /\ run' = [run EXCEPT ![b] = Idle]
    BY <1>0, <1>10 DEF RecordTest, HasRow
  <2>2. /\ Current(b).note \in Notes /\ {"SENT", "FAILED"} \subseteq OutboxStatuses
        /\ 0 \in 0..MaxRetries /\ 1 \in 0..MaxRetries /\ 1 > 0
    BY <1>0, <2>1, CurrentIs DEF OutboxStatuses
  <2>3. UpdateLogStatus(Current(b).note, "SENT", 0) \/ UpdateLogStatus(Current(b).note, "FAILED", 1)
    BY <1>10 DEF RecordTest
  <2>4. /\ log' \in Seq(Notes) /\ status' \in [Notes -> OutboxStatuses]
        /\ retryCount' \in [Notes -> 0..MaxRetries] /\ RetriesRemain'
    BY <1>d, <2>2, <2>3
  <2>5. run' \in [Runs -> Working \cup {Idle}] /\ (\A c \in Runs : HasRow(c) /\ AttemptLeft(c))'
    BY <2>1, IdleMoves
  <2> QED BY <1>0, <1>10, <2>4, <2>5 DEF RecordTest, settingVars, RowsInv, OutboxTypeOK
<1>11. CASE WindowSlides
  BY <1>0, <1>11, <1>a, <1>b DEF WindowSlides, settingVars, RowsInv, OutboxTypeOK
<1>12. CASE Restart
  <2>1. run' \in [Runs -> Working \cup {Idle}] /\ (\A c \in Runs : HasRow(c) /\ AttemptLeft(c))'
    BY <1>12 DEF Restart, HasRow, AttemptLeft, Idle
  <2> QED BY <1>0, <1>12, <1>b, <2>1 DEF Restart, settingVars, RowsInv, OutboxTypeOK
<1>13. CASE UNCHANGED outboxVars
  <2>1. UNCHANGED <<run, rowVars, settingVars, recent, requests, deliveries>>
    BY <1>13 DEF outboxVars, rowVars, settingVars
  <2> QED BY <1>0, <1>a, <1>b, <2>1 DEF settingVars, RowsInv, OutboxTypeOK
<1> QED BY <1>1, <1>2, <1>3, <1>4, <1>5, <1>6, <1>7, <1>8, <1>9, <1>10, <1>11, <1>12, <1>13
        DEF OutboxNext, RunStep

(* Every column, and the local state of every request, has its type.       *)
THEOREM OutboxTypeCorrect == OutboxSpec => []OutboxTypeOK
<1>1. RowsInv => OutboxTypeOK
  BY DEF RowsInv
<1> QED BY <1>1, InitRowsInv, StepRowsInv, PTL DEF OutboxSpec

(* A row that is PENDING may be tried again, whatever stale counter a      *)
(* request writes back, because no batch ever holds a row without an       *)
(* attempt left.                                                           *)
THEOREM AttemptsRemain == OutboxSpec => []RetriesRemain
<1>1. RowsInv => RetriesRemain
  BY DEF RowsInv
<1> QED BY <1>1, InitRowsInv, StepRowsInv, PTL DEF OutboxSpec

-----------------------------------------------------------------------------
(* Only a request whose mail has left marks a row SENT.                    *)

MailLeft(b) == run[b].at \in {"sent", "tested"} => deliveries[Current(b).note] > 0
DeliveredInv == SentWasDelivered /\ \A b \in Runs : MailLeft(b)

LEMMA InitDeliveredInv == OutboxInit => DeliveredInv
BY DEF OutboxInit, DeliveredInv, SentWasDelivered, MailLeft, Idle

LEMMA StepDeliveredInv == RowsInv /\ DeliveredInv /\ [OutboxNext]_outboxVars => DeliveredInv'
<1> SUFFICES ASSUME RowsInv, DeliveredInv, [OutboxNext]_outboxVars PROVE DeliveredInv'
  OBVIOUS
<1>0. /\ run \in [Runs -> Working \cup {Idle}] /\ status \in [Notes -> OutboxStatuses]
      /\ deliveries \in [Notes -> Nat]
      /\ SentWasDelivered /\ \A b \in Runs : MailLeft(b) /\ HasRow(b)
  BY DEF RowsInv, OutboxTypeOK, DeliveredInv
<1>a. ASSUME UNCHANGED deliveries, \A n \in Notes : status'[n] = "SENT" => status[n] = "SENT",
             NEW b \in Runs, NEW w, run' = [run EXCEPT ![b] = w], w.at \notin {"sent", "tested"}
      PROVE  DeliveredInv'
  <2>1. \A c \in Runs : run'[c] = IF c = b THEN w ELSE run[c]
    BY <1>0, <1>a
  <2>2. \A c \in Runs : MailLeft(c)'
    BY <1>0, <1>a, <2>1 DEF MailLeft, Current
  <2> QED BY <1>0, <1>a, <2>2 DEF DeliveredInv, SentWasDelivered
<1>b. ASSUME UNCHANGED <<deliveries, run>>, \A n \in Notes : status'[n] = "SENT" => status[n] = "SENT"
      PROVE  DeliveredInv'
  BY <1>0, <1>b DEF DeliveredInv, SentWasDelivered, MailLeft, Current
<1>c. ASSUME NEW n \in Notes, InsertOutbox(n) \/ UpdateLogStatus(n, "PENDING", 0)
      PROVE  \A m \in Notes : status'[m] = "SENT" => status[m] = "SENT"
  BY <1>0, <1>c DEF InsertOutbox, UpdateLogStatus
<1>1. ASSUME NEW n \in Notes, EnqueueNotification(n) \/ UpdatePreference(n) \/ UpdateTemplate(n)
      PROVE  DeliveredInv'
  BY <1>1, <1>b, <1>c DEF EnqueueNotification, UpdatePreference, UpdateTemplate, rowVars
<1>2. ASSUME NEW b \in Runs, NEW n \in Notes, ResendNotification(b, n) \/ TestSmtp(b, n) PROVE DeliveredInv'
  <2>1. PICK w : run' = [run EXCEPT ![b] = w] /\ w.at \notin {"sent", "tested"}
    <3>1. CASE ResendNotification(b, n)
      <4> DEFINE v == [at |-> "start", rows |-> <<>>]
      <4>1. run' = [run EXCEPT ![b] = v]
        BY <3>1 DEF ResendNotification, NewRequest
      <4>2. v.at \notin {"sent", "tested", "send"}
        OBVIOUS
      <4> HIDE DEF v
      <4> QED BY <4>1, <4>2
    <3>2. CASE TestSmtp(b, n)
      <4> DEFINE v == [at |-> "test", rows |-> <<[note |-> n, retry |-> 0]>>]
      <4>1. run' = [run EXCEPT ![b] = v]
        BY <3>2 DEF TestSmtp, NewRequest
      <4>2. v.at \notin {"sent", "tested", "send"}
        OBVIOUS
      <4> HIDE DEF v
      <4> QED BY <4>1, <4>2
    <3> QED BY <1>2, <3>1, <3>2
  <2>2. UNCHANGED deliveries /\ (InsertOutbox(n) \/ UpdateLogStatus(n, "PENDING", 0))
    BY <1>2 DEF ResendNotification, TestSmtp
  <2>3. \A m \in Notes : status'[m] = "SENT" => status[m] = "SENT"
    BY <1>c, <2>2
  <2> QED BY <1>a, <2>1, <2>2, <2>3
<1>3. ASSUME NEW b \in Runs, FindPendingOutbox(b) PROVE DeliveredInv'
  <2>1. PICK w : run' = [run EXCEPT ![b] = w] /\ w.at \notin {"sent", "tested"}
    BY <1>3 DEF FindPendingOutbox
  <2>2. UNCHANGED <<deliveries, status>>
    BY <1>3 DEF FindPendingOutbox, rowVars
  <2> QED BY <1>a, <2>1, <2>2
<1>4. ASSUME NEW b \in Runs, EndBatch(b) \/ CheckRow(b) \/ UpdateFails(b) PROVE DeliveredInv'
  <2>1. UNCHANGED <<deliveries, status>>
    BY <1>4 DEF EndBatch, CheckRow, UpdateFails, rowVars
  <2>2. CASE run' = [run EXCEPT ![b] = Idle]
    <3>1. Idle.at \notin {"sent", "tested"}
      BY DEF Idle
    <3> QED BY <1>a, <2>1, <2>2, <3>1
  <2>3. CASE \E at \in {"skip", "send", "failed", "testFailed"} : run' = [run EXCEPT ![b].at = at] /\ run[b].at # "idle"
    <3>1. PICK at \in {"skip", "send", "failed", "testFailed"} : run' = [run EXCEPT ![b].at = at] /\ run[b].at # "idle"
      BY <2>3
    <3> DEFINE w == [run[b] EXCEPT !.at = at]
    <3>2. w.at = at
      BY <3>1, RunIs DEF RowsInv, Working
    <3>3. run' = [run EXCEPT ![b] = w]
      BY <3>1
    <3> HIDE DEF w
    <3> QED BY <1>a, <2>1, <3>2, <3>3
  <2> QED BY <1>4, <2>2, <2>3 DEF EndBatch, CheckRow, UpdateFails
<1>5. ASSUME NEW b \in Runs, SendEmail(b) \/ SendTest(b) PROVE DeliveredInv'
  <2>1. /\ run[b].rows # <<>> /\ run[b].at # "idle" /\ UNCHANGED status
        /\ \/ /\ deliveries' = [deliveries EXCEPT ![Current(b).note] = @ + 1]
              /\ \E at \in {"sent", "tested"} : run' = [run EXCEPT ![b].at = at]
           \/ /\ UNCHANGED deliveries
              /\ \E at \in {"failed", "testFailed"} : run' = [run EXCEPT ![b].at = at]
    BY <1>0, <1>5 DEF SendEmail, SendTest, HasRow, rowVars
  <2>2. PICK at \in Steps : /\ run' = [run EXCEPT ![b].at = at]
                            /\ at \in {"sent", "tested"} =>
                                  deliveries' = [deliveries EXCEPT ![Current(b).note] = @ + 1]
    BY <2>1 DEF Steps
  <2>3. run'[b].at = at /\ run'[b].rows = run[b].rows
    BY <2>1, <2>2, RunKeepsRows
  <2>4. Current(b).note \in Notes /\ \A n \in Notes : deliveries'[n] >= deliveries[n] /\ deliveries'[n] \in Nat
    BY <1>0, <2>1, CurrentIs
  <2>5. \A c \in Runs \ {b} : run'[c] = run[c]
    BY <1>0, <2>2
  <2>6. MailLeft(b)'
    BY <1>0, <2>2, <2>3, <2>4 DEF MailLeft, Current
  <2>7. ASSUME NEW c \in Runs \ {b} PROVE MailLeft(c)'
    <3>1. run'[c] = run[c] /\ MailLeft(c) /\ HasRow(c)
      BY <1>0, <2>5
    <3>2. CASE run[c].at \in {"sent", "tested"}
      <4>1. Current(c).note \in Notes
        BY <3>1, <3>2, CurrentIs DEF HasRow
      <4> QED BY <1>0, <2>4, <3>1, <3>2, <4>1 DEF MailLeft, Current
    <3> QED BY <3>1, <3>2 DEF MailLeft
  <2>8. SentWasDelivered'
    BY <1>0, <2>1, <2>4 DEF SentWasDelivered
  <2> QED BY <2>6, <2>7, <2>8 DEF DeliveredInv
<1>6. ASSUME NEW b \in Runs, NEW s \in OutboxStatuses, NEW retry, NEW w,
             UpdateLogStatus(Current(b).note, s, retry), UNCHANGED deliveries,
             s = "SENT" => run[b].at \in {"sent", "tested"},
             run' = [run EXCEPT ![b] = w], w.at \notin {"sent", "tested"}
      PROVE  DeliveredInv'
  <2>1. \A n \in Notes : status'[n] = "SENT" => status[n] = "SENT" \/ (n = Current(b).note /\ s = "SENT")
    BY <1>0, <1>6 DEF UpdateLogStatus
  <2>2. SentWasDelivered'
    BY <1>0, <1>6, <2>1 DEF SentWasDelivered, MailLeft
  <2>3. \A c \in Runs : run'[c] = IF c = b THEN w ELSE run[c]
    BY <1>0, <1>6
  <2>4. \A c \in Runs : MailLeft(c)'
    BY <1>0, <1>6, <2>3 DEF MailLeft, Current
  <2> QED BY <2>2, <2>4 DEF DeliveredInv
<1>7. ASSUME NEW b \in Runs, RecordOutcome(b) PROVE DeliveredInv'
  <2> DEFINE w == [at |-> "next", rows |-> RowsLeft(b)]
             s == Outcome(run[b].at, Current(b).retry)[1]
             retry == Outcome(run[b].at, Current(b).retry)[2]
  <2>1. /\ run[b].rows # <<>> /\ run[b].at \in {"sent", "skip", "failed"} /\ UNCHANGED deliveries
        /\ run' = [run EXCEPT ![b] = w] /\ UpdateLogStatus(Current(b).note, s, retry)
    BY <1>0, <1>7 DEF RecordOutcome, HasRow
  <2>2. s \in OutboxStatuses /\ (s = "SENT" => run[b].at = "sent")
    BY <2>1, CurrentIs, OutcomeIs
  <2>3. w.at = "next"
    OBVIOUS
  <2> HIDE DEF w, s, retry
  <2> QED BY <1>6, <2>1, <2>2, <2>3
<1>8. ASSUME NEW b \in Runs, RecordTest(b) PROVE DeliveredInv'
  <2>1. /\ run' = [run EXCEPT ![b] = Idle] /\ UNCHANGED deliveries /\ Idle.at \notin {"sent", "tested"}
        /\ "SENT" \in OutboxStatuses /\ "FAILED" \in OutboxStatuses
    BY <1>8 DEF RecordTest, OutboxStatuses, Idle
  <2>2. CASE run[b].at = "tested" /\ UpdateLogStatus(Current(b).note, "SENT", 0)
    BY <1>6, <2>1, <2>2
  <2>3. CASE UpdateLogStatus(Current(b).note, "FAILED", 1)
    BY <1>6, <2>1, <2>3
  <2> QED BY <1>8, <2>2, <2>3 DEF RecordTest
<1>9. CASE Restart
  <2>1. \A b \in Runs : run'[b].at = "idle"
    BY <1>9 DEF Restart, Idle
  <2>2. UNCHANGED <<status, deliveries>>
    BY <1>9 DEF Restart, rowVars
  <2> QED BY <1>0, <2>1, <2>2 DEF DeliveredInv, SentWasDelivered, MailLeft
<1>10. CASE WindowSlides \/ UNCHANGED outboxVars
  BY <1>10, <1>b DEF WindowSlides, rowVars, outboxVars
<1> QED BY <1>1, <1>2, <1>3, <1>4, <1>5, <1>7, <1>8, <1>9, <1>10 DEF OutboxNext, RunStep

(* SENT is never written for a row of which no mail has left, in whatever  *)
(* order the requests record what they did.                                *)
THEOREM SentIsDelivered == OutboxSpec => []SentWasDelivered
<1>1. DeliveredInv => SentWasDelivered
  BY DEF DeliveredInv
<1> QED BY <1>1, InitRowsInv, StepRowsInv, InitDeliveredInv, StepDeliveredInv, PTL DEF OutboxSpec

-----------------------------------------------------------------------------
(* The throttle.  A request that has seen room in the window counts for a  *)
(* mail until it has sent it or failed.                                    *)

Sending == {b \in Runs : run[b].at = "send"}
ThrottleInv == recent + Cardinality(Sending) < Throttle + Cardinality(Runs)

LEMMA SendingIsFinite ==
    /\ IsFiniteSet(Sending) /\ Cardinality(Sending) \in Nat
    /\ Cardinality(Runs) \in Nat /\ Cardinality(Sending) <= Cardinality(Runs)
<1>1. Sending \in SUBSET Runs /\ IsFiniteSet(Runs)
  BY OutboxAssumption DEF Sending
<1> QED BY <1>1, FS_Subset, FS_CardinalityType

LEMMA InitThrottleInv == OutboxInit => ThrottleInv
<1> SUFFICES ASSUME OutboxInit PROVE ThrottleInv
  OBVIOUS
<1>1. recent = 0 /\ Sending = {}
  BY DEF OutboxInit, Sending, Idle
<1>2. Cardinality(Sending) = 0 /\ Throttle \in Nat \ {0} /\ Cardinality(Runs) \in Nat
  BY <1>1, FS_EmptySet, SendingIsFinite, OutboxAssumption
<1> QED BY <1>1, <1>2 DEF ThrottleInv

LEMMA StepThrottleInv == RowsInv /\ ThrottleInv /\ [OutboxNext]_outboxVars => ThrottleInv'
<1> SUFFICES ASSUME RowsInv, ThrottleInv, [OutboxNext]_outboxVars PROVE ThrottleInv'
  OBVIOUS
<1>0. /\ run \in [Runs -> Working \cup {Idle}] /\ recent \in Nat /\ Throttle \in Nat \ {0}
      /\ IsFiniteSet(Sending) /\ Cardinality(Sending) \in Nat /\ Cardinality(Runs) \in Nat
  BY SendingIsFinite, OutboxAssumption DEF RowsInv, OutboxTypeOK
<1>a. ASSUME Sending' \subseteq Sending, recent' \in Nat, recent' <= recent PROVE ThrottleInv'
  <2>1. Cardinality(Sending') \in Nat /\ Cardinality(Sending') <= Cardinality(Sending)
    BY <1>0, <1>a, FS_Subset, FS_CardinalityType
  <2>2. Cardinality(Sending)' = Cardinality(Sending')
    OBVIOUS
  <2> QED BY <1>0, <1>a, <2>1 DEF ThrottleInv
<1>b. ASSUME NEW b \in Runs, NEW w, run' = [run EXCEPT ![b] = w], w.at # "send"
      PROVE  Sending' = Sending \ {b}
  <2>1. \A c \in Runs : run'[c] = IF c = b THEN w ELSE run[c]
    BY <1>0, <1>b
  <2> QED BY <1>b, <2>1 DEF Sending
<1>c. ASSUME UNCHANGED run PROVE Sending' = Sending
  BY <1>c DEF Sending
<1>d. ASSUME NEW b \in Runs, run[b].at # "idle", NEW at \in Steps \ {"send"}, run' = [run EXCEPT ![b].at = at]
      PROVE  Sending' = Sending \ {b}
  <2> DEFINE w == [run[b] EXCEPT !.at = at]
  <2>1. w.at = at /\ at # "send"
    BY <1>d, RunIs DEF RowsInv, Working
  <2>2. run' = [run EXCEPT ![b] = w]
    BY <1>d
  <2> HIDE DEF w
  <2> QED BY <1>b, <2>1, <2>2
<1>1. ASSUME NEW n \in Notes, EnqueueNotification(n) \/ UpdatePreference(n) \/ UpdateTemplate(n)
      PROVE  ThrottleInv'
  <2>1. UNCHANGED run /\ UNCHANGED recent
    BY <1>1 DEF EnqueueNotification, UpdatePreference, UpdateTemplate
  <2> QED BY <1>0, <1>a, <1>c, <2>1
<1>2. ASSUME NEW b \in Runs, NEW n \in Notes, ResendNotification(b, n) \/ TestSmtp(b, n) PROVE ThrottleInv'
  <2>1. PICK w : run' = [run EXCEPT ![b] = w] /\ w.at # "send"
    <3>1. CASE ResendNotification(b, n)
      <4> DEFINE v == [at |-> "start", rows |-> <<>>]
      <4>1. run' = [run EXCEPT ![b] = v]
        BY <3>1 DEF ResendNotification, NewRequest
      <4>2. v.at \notin {"sent", "tested", "send"}
        OBVIOUS
      <4> HIDE DEF v
      <4> QED BY <4>1, <4>2
    <3>2. CASE TestSmtp(b, n)
      <4> DEFINE v == [at |-> "test", rows |-> <<[note |-> n, retry |-> 0]>>]
      <4>1. run' = [run EXCEPT ![b] = v]
        BY <3>2 DEF TestSmtp, NewRequest
      <4>2. v.at \notin {"sent", "tested", "send"}
        OBVIOUS
      <4> HIDE DEF v
      <4> QED BY <4>1, <4>2
    <3> QED BY <1>2, <3>1, <3>2
  <2>2. UNCHANGED recent
    BY <1>2 DEF ResendNotification, TestSmtp
  <2>3. Sending' = Sending \ {b}
    BY <1>b, <2>1
  <2> QED BY <1>0, <1>a, <2>2, <2>3
<1>3. ASSUME NEW b \in Runs, FindPendingOutbox(b) \/ RecordOutcome(b) \/ EndBatch(b) \/ RecordTest(b)
      PROVE  ThrottleInv'
  <2>1. PICK w : run' = [run EXCEPT ![b] = w] /\ w.at # "send"
    BY <1>3 DEF FindPendingOutbox, RecordOutcome, EndBatch, RecordTest, Idle
  <2>2. UNCHANGED recent
    BY <1>3 DEF FindPendingOutbox, RecordOutcome, EndBatch, RecordTest
  <2>3. Sending' = Sending \ {b}
    BY <1>b, <2>1
  <2> QED BY <1>0, <1>a, <2>2, <2>3
<1>4. ASSUME NEW b \in Runs, CheckRow(b) PROVE ThrottleInv'
  <2>1. recent' = recent /\ recent < Throttle
    BY <1>4 DEF CheckRow, CanSendNow
  <2>2. Sending' \in SUBSET Runs
    BY DEF Sending
  <2>3. Cardinality(Sending') \in Nat /\ Cardinality(Sending') <= Cardinality(Runs)
    BY <2>2, OutboxAssumption, FS_Subset, FS_CardinalityType
  <2> QED BY <1>0, <2>1, <2>3 DEF ThrottleInv
<1>5. ASSUME NEW b \in Runs, SendEmail(b) PROVE ThrottleInv'
  <2>1. PICK at \in {"sent", "failed"} : run' = [run EXCEPT ![b].at = at]
    BY <1>5 DEF SendEmail
  <2>2. run[b].at # "idle" /\ at \in Steps \ {"send"} /\ b \in Sending
    BY <1>5 DEF SendEmail, Steps, Sending
  <2>3. Sending' = Sending \ {b}
    BY <1>d, <2>1, <2>2
  <2>4. Cardinality(Sending') = Cardinality(Sending) - 1
    BY <1>0, <2>2, <2>3, FS_RemoveElement
  <2>5. recent' = recent \/ recent' = recent + 1
    BY <1>5 DEF SendEmail
  <2> QED BY <1>0, <2>4, <2>5 DEF ThrottleInv
<1>6. ASSUME NEW b \in Runs, SendTest(b) PROVE ThrottleInv'
  <2>1. PICK at \in Steps \ {"send"} : run' = [run EXCEPT ![b].at = at]
    BY <1>6 DEF SendTest, Steps
  <2>2. run[b].at # "idle" /\ UNCHANGED recent
    BY <1>6 DEF SendTest
  <2>3. Sending' = Sending \ {b}
    BY <1>d, <2>1, <2>2
  <2> QED BY <1>0, <1>a, <2>2, <2>3
<1>7. ASSUME NEW b \in Runs, UpdateFails(b) PROVE ThrottleInv'
  <2>1. UNCHANGED recent /\ run[b].at # "idle"
    BY <1>7 DEF UpdateFails
  <2>2. CASE run' = [run EXCEPT ![b] = Idle]
    <3>1. Idle.at # "send"
      BY DEF Idle
    <3>2. Sending' = Sending \ {b}
      BY <1>b, <2>2, <3>1
    <3> QED BY <1>0, <1>a, <2>1, <3>2
  <2>3. CASE \E at \in {"failed", "testFailed"} : run' = [run EXCEPT ![b].at = at]
    <3>1. Sending' = Sending \ {b}
      BY <1>d, <2>1, <2>3 DEF Steps
    <3> QED BY <1>0, <1>a, <2>1, <3>1
  <2> QED BY <1>7, <2>2, <2>3 DEF UpdateFails
<1>8. CASE Restart
  <2>1. recent' = 0 /\ Sending' = {}
    BY <1>8 DEF Restart, Sending, Idle
  <2> QED BY <1>0, <1>a, <2>1
<1>9. CASE WindowSlides
  <2>1. recent' = recent - 1 /\ recent > 0 /\ UNCHANGED run
    BY <1>9 DEF WindowSlides
  <2> QED BY <1>0, <1>a, <1>c, <2>1
<1>10. CASE UNCHANGED outboxVars
  BY <1>0, <1>a, <1>c, <1>10 DEF outboxVars
<1> QED BY <1>1, <1>2, <1>3, <1>4, <1>5, <1>6, <1>7, <1>8, <1>9, <1>10 DEF OutboxNext, RunStep

(* The window never holds more than Throttle mails and one for every other *)
(* request, for any number of requests.                                    *)
THEOREM ThrottleIsBounded == OutboxSpec => []ThrottleHolds
<1>1. RowsInv /\ ThrottleInv => ThrottleHolds
  BY SendingIsFinite, OutboxAssumption DEF RowsInv, OutboxTypeOK, ThrottleInv, ThrottleHolds
<1> QED BY <1>1, InitRowsInv, StepRowsInv, InitThrottleInv, StepThrottleInv, PTL DEF OutboxSpec
=============================================================================
