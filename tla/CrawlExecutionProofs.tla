------------------------ MODULE CrawlExecutionProofs ------------------------
(***************************************************************************)
(* What is true of the execution queue for any number of jobs, executions, *)
(* workers and attempts.                                                   *)
(***************************************************************************)
EXTENDS CrawlExecution, SequenceTheorems, FiniteSetTheorems, TLAPS

Statuses == {"QUEUED", "RUNNING"} \cup Finished
Reasons == {"none", "retryable", "fatal", "policy"}
Owners == Workers \cup {Nobody, Dead}
Places == {"idle", "polling", "recovering", "execute", "crawling", "staging", "staged",
           "ending", "failed", "retry", "stopping"}
Busy == {"execute", "crawling", "staging", "staged", "ending", "failed", "retry", "stopping"}

-----------------------------------------------------------------------------
(* Types, with what a worker has in its hands at each place.               *)

Hand == [at : Places, row : Ids \cup {0}, outcome : Finished \cup {"none", "retryable", "fatal"}, todo : SUBSET Ids]
Sound(x) ==
    /\ x.at \in Busy <=> x.row # 0
    /\ x.at = "failed" => x.outcome \in {"retryable", "fatal"}
    /\ x.at \in {"ending", "staged"} => x.outcome \in {"SUCCESS", "FAILED", "SKIPPED"}
    /\ x.at \in Busy \ {"stopping"} => x.todo = {}

OnlyRunningOwned == \A i \in Ids : rows[i].status # "RUNNING" => rows[i].owner = Nobody

TypeInv == CrawlTypeOK /\ OnlyRunningOwned /\ \A w \in Workers : Sound(worker[w])

(* What a step may do to an execution: the columns it never writes, the    *)
(* finished rows it leaves alone, and whose row it is.                     *)
Fixed(a, b) ==
    /\ b.job = a.job /\ b.window = a.window /\ b.trigger = a.trigger
    /\ b.retryOf = a.retryOf /\ b.automatic = a.automatic /\ b.attempt = a.attempt
Unchanged(a, b) ==
    /\ b.status = a.status /\ b.owner = a.owner /\ b.leased = a.leased
    /\ b.reason = a.reason /\ b.staged = a.staged
Moves(a, b) ==
    /\ b \in Execution
    /\ Fixed(a, b)
    /\ a.status \in Finished => Unchanged(a, b)
    /\ b.status = "QUEUED" => a.status = "QUEUED"

(* Only a claim and a crash give a row another owner, and only the failure *)
(* policy of another job gives it the reason "policy".                     *)
Released(a, b) ==
    \/ b.owner = a.owner /\ b.status = a.status
    \/ b.owner = Nobody /\ b.status # "RUNNING"
PolicyKept(a, b) == b.reason = "policy" => a.reason = "policy"
Allowed(a, b) == Moves(a, b) /\ Released(a, b) /\ PolicyKept(a, b)

(* Old rows change as allowed, and at most one row is new.                 *)
IsNew(e) == e.status = "QUEUED" /\ e.owner = Nobody /\ e.reason = "none"
IsFirst(e) == e.trigger # "RETRY" /\ ~e.automatic
IsRetry(e) ==
    \E p \in Ids :
        /\ Retryable(p) /\ e.retryOf = p /\ e.trigger = "RETRY" /\ e.attempt = rows[p].attempt + 1
        /\ e.automatic => RetryNeeded(p)

RowsMove ==
    /\ rows' \in Seq(Execution)
    /\ Ids \subseteq Ids'
    /\ \A i \in Ids : Moves(rows[i], rows'[i])
    /\ \A i \in Ids' \ Ids : i = Len(rows) + 1 /\ IsNew(rows'[i]) /\ (IsFirst(rows'[i]) \/ IsRetry(rows'[i]))
RowsAdvance == RowsMove /\ \A i \in Ids : Allowed(rows[i], rows'[i])

LEMMA RowTyped ==
    ASSUME CrawlTypeOK, NEW i \in Ids
    PROVE  /\ i \in Nat \ {0} /\ i <= Len(rows) /\ rows[i] \in Execution
           /\ rows[i].job \in Jobs /\ rows[i].window \in Windows \cup {0}
           /\ rows[i].trigger \in {"SCHEDULED", "MANUAL", "RETRY"}
           /\ rows[i].retryOf \in Nat /\ rows[i].automatic \in BOOLEAN
           /\ rows[i].attempt \in 1..MaxAttempts /\ rows[i].status \in Statuses
           /\ rows[i].wait \in 0..2 /\ rows[i].owner \in Owners /\ rows[i].leased \in BOOLEAN
           /\ rows[i].reason \in Reasons /\ rows[i].staged \in BOOLEAN
<1>1. rows \in Seq(Execution)
  BY DEF CrawlTypeOK
<1>2. i \in 1..Len(rows) /\ rows[i] \in Execution
  BY <1>1 DEF Ids
<1> QED BY <1>1, <1>2 DEF Execution, Statuses, Owners, Reasons

(* An execution with new values in the columns that steps write. *)
LEMMA Written ==
    ASSUME NEW e \in Execution, NEW s \in Statuses, NEW o \in Owners, NEW l \in BOOLEAN,
           NEW r \in Reasons, NEW t \in BOOLEAN, NEW d \in 0..2
    PROVE  LET f == [e EXCEPT !.status = s, !.owner = o, !.leased = l, !.reason = r,
                              !.staged = t, !.wait = d]
           IN  /\ f \in Execution /\ Fixed(e, f)
               /\ f.status = s /\ f.owner = o /\ f.leased = l /\ f.reason = r /\ f.staged = t /\ f.wait = d
<1> DEFINE f == [e EXCEPT !.status = s, !.owner = o, !.leased = l, !.reason = r, !.staged = t, !.wait = d]
<1>1. f \in Execution
  BY DEF Execution, Statuses, Owners, Reasons
<1>2. /\ f.status = s /\ f.owner = o /\ f.leased = l /\ f.reason = r /\ f.staged = t /\ f.wait = d
      /\ Fixed(e, f)
  BY DEF Execution, Fixed
<1> QED BY <1>1, <1>2

(* Rows that are replaced one for one. *)
LEMMA RowsReplaced ==
    ASSUME CrawlTypeOK, rows' \in [Ids -> Execution], \A i \in Ids : Moves(rows[i], rows'[i])
    PROVE  RowsMove /\ Ids' = Ids
<1>1. rows \in Seq(Execution) /\ Ids = 1..Len(rows) /\ Len(rows) \in Nat
  BY DEF CrawlTypeOK, Ids
<1>2. rows' \in [1..Len(rows) -> Execution]
  BY <1>1
<1>3. rows' \in Seq(Execution) /\ DOMAIN rows' = 1..Len(rows)
  BY <1>1, <1>2, SeqDef
<1>4. Ids' = Ids
  BY <1>1, <1>3 DEF Ids
<1> QED BY <1>3, <1>4 DEF RowsMove

LEMMA RowsMapped ==
    ASSUME CrawlTypeOK, rows' \in [Ids -> Execution], \A i \in Ids : Allowed(rows[i], rows'[i])
    PROVE  RowsAdvance /\ Ids' = Ids
<1>1. \A i \in Ids : Moves(rows[i], rows'[i])
  BY DEF Allowed
<1> QED BY <1>1, RowsReplaced DEF RowsAdvance

(* Rows that are replaced one for one with another one after them. *)
LEMMA RowsAppended ==
    ASSUME CrawlTypeOK, NEW g \in [Ids -> Execution], NEW e \in Execution,
           rows' = Append(g, e), \A i \in Ids : Allowed(rows[i], g[i]),
           IsNew(e), IsFirst(e) \/ IsRetry(e)
    PROVE  RowsAdvance
<1>1. rows \in Seq(Execution) /\ Ids = 1..Len(rows) /\ Len(rows) \in Nat
  BY DEF CrawlTypeOK, Ids
<1>2. g \in Seq(Execution) /\ Len(g) = Len(rows)
  BY <1>1, SeqDef
<1>3. /\ rows' \in Seq(Execution) /\ Len(rows') = Len(rows) + 1
      /\ \A i \in 1..Len(rows) : rows'[i] = g[i]
      /\ rows'[Len(rows) + 1] = e
  BY <1>2
<1>4. Ids' = 1..(Len(rows) + 1)
  BY <1>3 DEF Ids
<1>5. Ids \subseteq Ids' /\ \A i \in Ids' \ Ids : i = Len(rows) + 1
  BY <1>1, <1>4
<1>6. RowsMove
  BY <1>1, <1>3, <1>4, <1>5 DEF RowsMove, Allowed
<1> QED BY <1>1, <1>3, <1>6 DEF RowsAdvance

(* One row is written. *)
LEMMA RowReplaced ==
    ASSUME CrawlTypeOK, NEW i \in Ids, NEW e \in Execution, rows' = [rows EXCEPT ![i] = e],
           Moves(rows[i], e)
    PROVE  RowsMove /\ Ids' = Ids /\ rows'[i] = e /\ \A j \in Ids \ {i} : rows'[j] = rows[j]
<1>1. rows \in [Ids -> Execution]
  BY DEF CrawlTypeOK, Ids
<1>2. \A j \in Ids : Moves(rows[j], rows[j])
  BY RowTyped DEF Moves, Fixed, Unchanged
<1>3. \A j \in Ids : rows'[j] = IF j = i THEN e ELSE rows[j]
  BY <1>1
<1>4. rows' \in [Ids -> Execution] /\ \A j \in Ids : Moves(rows[j], rows'[j])
  BY <1>1, <1>2, <1>3
<1> QED BY <1>3, <1>4, RowsReplaced

LEMMA RowWritten ==
    ASSUME CrawlTypeOK, NEW i \in Ids, NEW e \in Execution, rows' = [rows EXCEPT ![i] = e],
           Allowed(rows[i], e)
    PROVE  RowsAdvance /\ Ids' = Ids
<1>1. rows \in [Ids -> Execution]
  BY DEF CrawlTypeOK, Ids
<1>2. \A j \in Ids : Allowed(rows[j], rows[j])
  BY RowTyped DEF Allowed, Moves, Released, PolicyKept, Fixed, Unchanged
<1> QED BY <1>1, <1>2, RowsMapped

LEMMA RowsKept ==
    ASSUME CrawlTypeOK, UNCHANGED rows
    PROVE  RowsAdvance /\ Ids' = Ids
<1>1. rows \in [Ids -> Execution]
  BY DEF CrawlTypeOK, Ids
<1>2. \A j \in Ids : Allowed(rows[j], rows[j])
  BY RowTyped DEF Allowed, Moves, Released, PolicyKept, Fixed, Unchanged
<1> QED BY <1>1, <1>2, RowsMapped

Hands == worker' \in [Workers -> Hand'] /\ \A w \in Workers : Sound(worker'[w])
Others(w) == \A v \in Workers \ {w} : worker'[v] = worker[v]

(* One worker gets another state, and no row has gone. *)
LEMMA WorkerMoves ==
    ASSUME TypeInv, Ids \subseteq Ids', NEW w \in Workers, NEW x \in Hand', Sound(x),
           worker' = [worker EXCEPT ![w] = x]
    PROVE  Hands /\ Others(w) /\ worker'[w] = x
<1>1. worker \in [Workers -> Hand] /\ \A v \in Workers : Sound(worker[v])
  BY DEF TypeInv, CrawlTypeOK, Hand, Places
<1>2. worker \in [Workers -> Hand']
  BY <1>1 DEF Hand
<1>3. \A v \in Workers : worker'[v] = IF v = w THEN x ELSE worker[v]
  BY <1>1
<1> QED BY <1>1, <1>2, <1>3 DEF Hands, Others

LEMMA WorkersKept ==
    ASSUME TypeInv, Ids \subseteq Ids', UNCHANGED worker
    PROVE  Hands /\ \A w \in Workers : worker'[w] = worker[w]
<1>1. worker \in [Workers -> Hand] /\ \A v \in Workers : Sound(worker[v])
  BY DEF TypeInv, CrawlTypeOK, Hand, Places
<1>2. worker \in [Workers -> Hand']
  BY <1>1 DEF Hand
<1> QED BY <1>1, <1>2 DEF Hands

LEMMA HandIs ==
    ASSUME TypeInv, NEW w \in Workers
    PROVE  /\ worker[w] \in Hand /\ Sound(worker[w])
           /\ Row(w) \in Ids \cup {0} /\ 0 \notin Ids
           /\ worker[w].at \in Busy => Row(w) \in Ids
<1>1. worker[w] \in Hand /\ Sound(worker[w])
  BY DEF TypeInv, CrawlTypeOK, Hand, Places
<1>2. 0 \notin Ids
  BY DEF TypeInv, CrawlTypeOK, Ids
<1> QED BY <1>1, <1>2 DEF Hand, Row, Sound

LEMMA WorkerStops ==
    ASSUME TypeInv, Ids \subseteq Ids', NEW w \in Workers, Stop(w)
    PROVE  Hands /\ Others(w) /\ worker'[w] = Idle
<1>1. Idle \in Hand' /\ Sound(Idle)
  BY DEF Idle, Hand, Places, Sound, Busy
<1> QED BY <1>1, WorkerMoves DEF Stop

(* A busy worker goes to another place with its row. *)
LEMMA WorkerGoes ==
    ASSUME TypeInv, Ids \subseteq Ids', NEW w \in Workers, worker[w].at \in Busy \ {"stopping"},
           NEW at \in Busy, NEW outcome \in Finished \cup {"none", "retryable", "fatal"},
           worker' = [worker EXCEPT ![w].at = at, ![w].outcome = outcome],
           at = "failed" => outcome \in {"retryable", "fatal"},
           at \in {"ending", "staged"} => outcome \in {"SUCCESS", "FAILED", "SKIPPED"}
    PROVE  /\ Hands /\ Others(w)
           /\ worker'[w].at = at /\ worker'[w].row = worker[w].row
           /\ worker'[w].todo = {} /\ worker'[w].outcome = outcome
<1> DEFINE x == [worker[w] EXCEPT !.at = at, !.outcome = outcome]
<1>1. worker[w] \in Hand /\ Sound(worker[w])
  BY HandIs
<1>2. x \in Hand /\ x.at = at /\ x.outcome = outcome /\ x.row = worker[w].row /\ x.todo = worker[w].todo
  BY <1>1 DEF Hand, Busy, Places
<1>3. worker' = [worker EXCEPT ![w] = x]
  OBVIOUS
<1> HIDE DEF x
<1>4. x \in Hand'
  BY <1>2 DEF Hand
<1>5. Sound(x)
  BY <1>1, <1>2 DEF Sound, Busy
<1>6. worker[w].todo = {}
  BY <1>1 DEF Sound, Busy
<1>7. Hands /\ Others(w) /\ worker'[w] = x
  BY <1>3, <1>4, <1>5, WorkerMoves
<1> QED BY <1>2, <1>6, <1>7

LEMMA WorkerGoesOn ==
    ASSUME TypeInv, Ids \subseteq Ids', NEW w \in Workers, worker[w].at \in Busy \ {"stopping"},
           NEW at \in Busy \ {"failed", "ending", "staged"}, Go(w, at)
    PROVE  /\ Hands /\ Others(w)
           /\ worker'[w].at = at /\ worker'[w].row = worker[w].row /\ worker'[w].todo = {}
<1> DEFINE x == [worker[w] EXCEPT !.at = at]
<1>1. worker[w] \in Hand /\ Sound(worker[w])
  BY HandIs
<1>2. x \in Hand /\ x.at = at /\ x.row = worker[w].row /\ x.todo = worker[w].todo
  BY <1>1 DEF Hand, Busy, Places
<1>3. worker' = [worker EXCEPT ![w] = x]
  BY DEF Go
<1> HIDE DEF x
<1>4. x \in Hand'
  BY <1>2 DEF Hand
<1>5. Sound(x) /\ worker[w].todo = {}
  BY <1>1, <1>2 DEF Sound, Busy
<1>6. Hands /\ Others(w) /\ worker'[w] = x
  BY <1>3, <1>4, <1>5, WorkerMoves
<1> QED BY <1>2, <1>5, <1>6

-----------------------------------------------------------------------------
(* Every step advances the rows and leaves every worker in a sound state.  *)

Good == RowsMove /\ Hands

(* An ordinary step gives no row another owner, and sends no worker on to  *)
(* the retry or to the later jobs.                                         *)
Ordinary ==
    /\ Good /\ RowsAdvance
    /\ \A w \in Workers : worker'[w] = worker[w]
          \/ (worker'[w].at \notin {"retry", "stopping"} /\ worker'[w].row \in {0, worker[w].row})

LEMMA NewIsNew ==
    ASSUME CrawlTypeOK, NEW job \in Jobs, NEW window \in Windows \cup {0}, NEW trigger \in {"SCHEDULED", "MANUAL"}
    PROVE  LET e == NewExecution(job, window, trigger) IN e \in Execution /\ IsNew(e) /\ IsFirst(e)
<1>1. 1 \in 1..MaxAttempts
  BY CrawlAssumption
<1> QED BY <1>1 DEF NewExecution, Execution, IsNew, IsFirst

LEMMA RetryIsNew ==
    ASSUME CrawlTypeOK, NEW i \in Ids, Retryable(i), NEW automatic \in BOOLEAN, automatic => RetryNeeded(i)
    PROVE  NewRetry(i, automatic) \in Execution /\ IsNew(NewRetry(i, automatic)) /\ IsRetry(NewRetry(i, automatic))
<1> DEFINE e == NewRetry(i, automatic)
<1>1. rows[i].job \in Jobs /\ rows[i].attempt + 1 \in 1..MaxAttempts /\ i \in Nat
  BY RowTyped, CrawlAssumption DEF Retryable, AttemptLeft
<1> DEFINE first == NewExecution(rows[i].job, 0, "RETRY")
           wait == IF automatic THEN 1 ELSE 0
<1>4. 1 \in 1..MaxAttempts /\ wait \in 0..2
  BY CrawlAssumption
<1>5. first \in Execution
  BY <1>1, <1>4 DEF NewExecution, Execution
<1>6. e = [first EXCEPT !.retryOf = i, !.automatic = automatic, !.attempt = rows[i].attempt + 1, !.wait = wait]
  BY DEF NewRetry
<1>2. e \in Execution
  <2> HIDE DEF first, wait
  <2> QED BY <1>1, <1>4, <1>5, <1>6 DEF Execution
<1>3. /\ e.status = "QUEUED" /\ e.owner = Nobody /\ e.reason = "none" /\ e.trigger = "RETRY"
      /\ e.retryOf = i /\ e.automatic = automatic /\ e.attempt = rows[i].attempt + 1
  BY DEF NewRetry, NewExecution
<1> QED BY <1>2, <1>3 DEF IsNew, IsRetry

LEMMA RowsAsTheyAre ==
    ASSUME CrawlTypeOK
    PROVE  rows \in [Ids -> Execution] /\ \A i \in Ids : Allowed(rows[i], rows[i])
BY RowTyped DEF CrawlTypeOK, Ids, Allowed, Moves, Released, PolicyKept, Fixed, Unchanged

LEMMA RequestsOrdinary ==
    ASSUME TypeInv,
           \/ \E job \in Jobs, window \in Windows : CreateScheduledExecution(job, window)
           \/ \E job \in Jobs : CreateManualExecution(job)
           \/ \E i \in Ids : RetryExecution(i) \/ CancelExecution(i) \/ LeaseExpires(i)
           \/ TimePasses
    PROVE  Ordinary
<1>1. UNCHANGED worker /\ CrawlTypeOK
  BY DEF TypeInv, CreateScheduledExecution, CreateManualExecution, RetryExecution, CancelExecution,
         LeaseExpires, TimePasses
<1>2. SUFFICES RowsAdvance
  BY <1>1, WorkersKept DEF Ordinary, Good, RowsAdvance, RowsMove
<1>3. ASSUME NEW job \in Jobs, NEW window \in Windows, CreateScheduledExecution(job, window) PROVE RowsAdvance
  BY <1>1, <1>3, NewIsNew, RowsAsTheyAre, RowsAppended DEF CreateScheduledExecution
<1>4. ASSUME NEW job \in Jobs, CreateManualExecution(job) PROVE RowsAdvance
  BY <1>1, <1>4, NewIsNew, RowsAsTheyAre, RowsAppended DEF CreateManualExecution
<1>5. ASSUME NEW i \in Ids, RetryExecution(i) PROVE RowsAdvance
  BY <1>1, <1>5, RetryIsNew, RowsAsTheyAre, RowsAppended DEF RetryExecution
<1>6. ASSUME NEW i \in Ids, CancelExecution(i) PROVE RowsAdvance
  <2> DEFINE e == [rows[i] EXCEPT !.status = "CANCELLED", !.owner = Nobody, !.leased = FALSE]
  <2>1. rows[i] \in Execution /\ rows[i].status \in {"QUEUED", "RUNNING"}
    BY <1>1, <1>6, RowTyped DEF CancelExecution
  <2>2. e \in Execution /\ Fixed(rows[i], e) /\ e.status = "CANCELLED" /\ e.owner = Nobody
        /\ e.reason = rows[i].reason
    BY <2>1 DEF Execution, Fixed, Finished
  <2>3. rows' = [rows EXCEPT ![i] = e]
    BY <1>6 DEF CancelExecution
  <2> HIDE DEF e
  <2> QED BY <1>1, <2>1, <2>2, <2>3, RowWritten DEF Allowed, Moves, Released, PolicyKept, Finished
<1>7. ASSUME NEW i \in Ids, LeaseExpires(i) PROVE RowsAdvance
  <2> DEFINE e == [rows[i] EXCEPT !.leased = FALSE]
  <2>1. rows[i] \in Execution /\ rows[i].status = "RUNNING"
    BY <1>1, <1>7, RowTyped DEF LeaseExpires
  <2>2. e \in Execution /\ Fixed(rows[i], e) /\ e.status = "RUNNING" /\ e.owner = rows[i].owner
        /\ e.reason = rows[i].reason
    BY <2>1 DEF Execution, Fixed
  <2>3. rows' = [rows EXCEPT ![i] = e]
    BY <1>7 DEF LeaseExpires
  <2> HIDE DEF e
  <2> QED BY <1>1, <2>1, <2>2, <2>3, RowWritten DEF Allowed, Moves, Released, PolicyKept, Finished
<1>8. CASE TimePasses
  <2>1. ASSUME NEW i \in Ids PROVE rows'[i] \in Execution /\ Allowed(rows[i], rows'[i])
    <3>1. rows[i] \in Execution /\ rows[i].wait \in 0..2
      BY <1>1, RowTyped
    <3>2. rows'[i] = IF rows[i].wait > 0 THEN [rows[i] EXCEPT !.wait = @ - 1] ELSE rows[i]
      BY <1>8 DEF TimePasses
    <3>3. rows[i].wait > 0 => rows[i].wait - 1 \in 0..2
      BY <3>1
    <3>4. rows'[i] \in Execution /\ Fixed(rows[i], rows'[i]) /\ Unchanged(rows[i], rows'[i])
      BY <3>1, <3>2, <3>3 DEF Execution, Fixed, Unchanged
    <3> QED BY <3>4 DEF Allowed, Moves, Released, PolicyKept, Unchanged
  <2>2. rows' \in [Ids -> Execution]
    BY <1>8, <2>1 DEF TimePasses
  <2> QED BY <1>1, <2>1, <2>2, RowsMapped
<1> QED BY <1>3, <1>4, <1>5, <1>6, <1>7, <1>8

(* scheduleAutomaticRetry *)
LEMMA AutomaticRetryGood ==
    ASSUME CrawlTypeOK, NEW i \in Ids, ScheduleAutomaticRetry(i)
    PROVE  RowsAdvance
<1>1. CASE ~RetryNeeded(i)
  BY <1>1, RowsKept DEF ScheduleAutomaticRetry
<1>2. CASE RetryNeeded(i)
  <2> DEFINE g == [f \in Ids |-> IF f \in FollowingScheduledExecutions(i)
                                 THEN [rows[f] EXCEPT !.wait = 2] ELSE rows[f]]
  <2>1. ASSUME NEW f \in Ids PROVE g[f] \in Execution /\ Allowed(rows[f], g[f])
    <3>1. rows[f] \in Execution
      BY RowTyped
    <3>2. g[f] \in Execution /\ Fixed(rows[f], g[f]) /\ Unchanged(rows[f], g[f])
      BY <3>1 DEF Execution, Fixed, Unchanged
    <3> QED BY <3>2 DEF Allowed, Moves, Released, PolicyKept, Unchanged
  <2>2. g \in [Ids -> Execution]
    BY <2>1
  <2>3. rows' = Append(g, NewRetry(i, TRUE))
    BY <1>2 DEF ScheduleAutomaticRetry
  <2>4. NewRetry(i, TRUE) \in Execution /\ IsNew(NewRetry(i, TRUE)) /\ IsRetry(NewRetry(i, TRUE))
    BY <1>2, RetryIsNew DEF RetryNeeded
  <2> HIDE DEF g
  <2> QED BY <2>1, <2>2, <2>3, <2>4, RowsAppended
<1> QED BY <1>1, <1>2

LEMMA RecoveryOrdinary ==
    ASSUME TypeInv, NEW w \in Workers, RecoverExpiredLeases(w) \/ RecoverNext(w)
    PROVE  Ordinary
<1>1. CrawlTypeOK /\ worker[w] \in Hand /\ Sound(worker[w]) /\ DOMAIN worker = Workers
  BY HandIs DEF TypeInv, CrawlTypeOK
<1>2. CASE RecoverExpiredLeases(w)
  <2>1. ASSUME NEW i \in Ids PROVE rows'[i] \in Execution /\ Allowed(rows[i], rows'[i])
    <3> DEFINE e == [rows[i] EXCEPT !.status = "TIMEOUT", !.owner = Nobody, !.reason = "retryable"]
    <3>1. rows[i] \in Execution /\ Allowed(rows[i], rows[i])
      BY <1>1, RowTyped, RowsAsTheyAre
    <3>2. rows'[i] = IF i \in Abandoned THEN e ELSE rows[i]
      BY <1>2 DEF RecoverExpiredLeases
    <3>3. i \in Abandoned => rows[i].status = "RUNNING"
      BY DEF Abandoned
    <3>4. /\ e \in Execution /\ Fixed(rows[i], e)
          /\ e.status = "TIMEOUT" /\ e.owner = Nobody /\ e.reason = "retryable"
      BY <3>1 DEF Execution, Fixed, Finished
    <3>5. rows[i].status = "RUNNING" => Allowed(rows[i], e)
      <4> HIDE DEF e
      <4> QED BY <3>4 DEF Allowed, Moves, Released, PolicyKept, Finished
    <3> QED BY <3>1, <3>2, <3>3, <3>4, <3>5
  <2>2. rows' \in [Ids -> Execution]
    BY <1>2, <2>1 DEF RecoverExpiredLeases
  <2>3. RowsAdvance /\ Ids' = Ids
    BY <1>1, <2>1, <2>2, RowsMapped
  <2> DEFINE at == IF Abandoned = {} THEN "polling" ELSE "recovering"
             x == [worker[w] EXCEPT !.at = at, !.todo = Abandoned]
  <2>4. worker[w].at = "idle" /\ worker[w].row = 0
    BY <1>1, <1>2 DEF RecoverExpiredLeases, Sound, Busy
  <2>5. Abandoned \in SUBSET Ids /\ at \in {"polling", "recovering"}
    BY DEF Abandoned
  <2>6. x \in Hand /\ x.at = at /\ x.row = 0
    <3> HIDE DEF at
    <3> QED BY <1>1, <2>4, <2>5 DEF Hand, Places
  <2>7. worker' = [worker EXCEPT ![w] = x]
    BY <1>2 DEF RecoverExpiredLeases
  <2> HIDE DEF at, x
  <2>8. x \in Hand' /\ Sound(x)
    BY <2>3, <2>5, <2>6 DEF Hand, Sound, Busy
  <2>9. Hands /\ Others(w) /\ worker'[w] = x
    BY <2>3, <2>7, <2>8, WorkerMoves DEF RowsAdvance, RowsMove
  <2> QED BY <2>3, <2>4, <2>5, <2>6, <2>9 DEF Ordinary, Good, RowsAdvance, Others
<1>3. CASE RecoverNext(w)
  <2>1. worker[w].at = "recovering" /\ worker[w].row = 0
    BY <1>1, <1>3 DEF RecoverNext, Sound, Busy
  <2>2. PICK i \in worker[w].todo :
          /\ ScheduleAutomaticRetry(i)
          /\ worker' = [worker EXCEPT ![w].at = IF worker[w].todo \ {i} = {} THEN "polling" ELSE "recovering",
                                      ![w].todo = worker[w].todo \ {i}]
    BY <1>3 DEF RecoverNext
  <2>3. i \in Ids
    BY <1>1, <2>2 DEF Hand
  <2>4. RowsAdvance
    BY <1>1, <2>2, <2>3, AutomaticRetryGood
  <2> DEFINE at == IF worker[w].todo \ {i} = {} THEN "polling" ELSE "recovering"
             x == [worker[w] EXCEPT !.at = at, !.todo = worker[w].todo \ {i}]
  <2>5. at \in {"polling", "recovering"}
    OBVIOUS
  <2>6. x \in Hand /\ x.at = at /\ x.row = 0
    <3> HIDE DEF at
    <3> QED BY <1>1, <2>1, <2>5 DEF Hand, Places
  <2>7. worker' = [worker EXCEPT ![w] = x]
    BY <2>2
  <2> HIDE DEF at, x
  <2>8. Ids \subseteq Ids'
    BY <2>4 DEF RowsAdvance, RowsMove
  <2>9. x \in Hand' /\ Sound(x)
    BY <2>5, <2>6, <2>8 DEF Hand, Sound, Busy
  <2>10. Hands /\ Others(w) /\ worker'[w] = x
    BY <2>7, <2>8, <2>9, WorkerMoves
  <2> QED BY <2>1, <2>4, <2>5, <2>6, <2>10 DEF Ordinary, Good, RowsAdvance, Others
<1> QED BY <1>2, <1>3

(* The update of transitionExecution *)
LEMMA TransitionAllowed ==
    ASSUME CrawlTypeOK, NEW i \in Ids, NEW owner, NEW status \in Finished, NEW reason \in Reasons \ {"policy"},
           TransitionExecution(i, owner, status, reason)
    PROVE  /\ RowsAdvance /\ Ids' = Ids
           /\ rows[i].status = "RUNNING" /\ rows[i].owner = owner =>
                 rows'[i].status = status /\ rows'[i].reason = reason
<1>1. CASE rows[i].status = "RUNNING" /\ rows[i].owner = owner
  <2> DEFINE e == [rows[i] EXCEPT !.status = status, !.owner = Nobody, !.leased = FALSE, !.reason = reason]
  <2>1. rows[i] \in Execution /\ rows \in [Ids -> Execution]
    BY RowTyped, RowsAsTheyAre
  <2>2. /\ e \in Execution /\ Fixed(rows[i], e)
        /\ e.status = status /\ e.owner = Nobody /\ e.reason = reason
    BY <2>1 DEF Execution, Fixed, Finished, Reasons
  <2>3. rows' = [rows EXCEPT ![i] = e]
    BY <1>1 DEF TransitionExecution
  <2> HIDE DEF e
  <2>4. Allowed(rows[i], e)
    BY <1>1, <2>2 DEF Allowed, Moves, Released, PolicyKept, Finished
  <2> QED BY <2>1, <2>2, <2>3, <2>4, RowWritten
<1>2. CASE ~(rows[i].status = "RUNNING" /\ rows[i].owner = owner)
  BY <1>2, RowsKept DEF TransitionExecution
<1> QED BY <1>1, <1>2

(* The steps of execute() that neither retry nor stop other jobs. *)
LEMMA ExecuteOrdinary ==
    ASSUME TypeInv, NEW w \in Workers,
           Execute(w) \/ Crawl(w) \/ Stage(w) \/ EndExecution(w) \/ HeartbeatExecution(w) \/ StatementFails(w)
    PROVE  Ordinary
<1>1. /\ CrawlTypeOK /\ worker[w] \in Hand /\ Sound(worker[w])
      /\ worker[w].at \in Busy => Row(w) \in Ids
      /\ Row(w) # 0 => Row(w) \in Ids
  BY HandIs DEF TypeInv
<1>2. SUFFICES ASSUME RowsAdvance /\ Ids' = Ids
               PROVE  /\ Hands
                      /\ \A v \in Workers : worker'[v] = worker[v]
                            \/ (worker'[v].at \notin {"retry", "stopping"} /\ worker'[v].row \in {0, worker[v].row})
  <2>1. ASSUME UNCHANGED rows PROVE RowsAdvance /\ Ids' = Ids
    BY <1>1, <2>1, RowsKept
  <2>2. ASSUME Execute(w) \/ Crawl(w) \/ StatementFails(w) PROVE RowsAdvance /\ Ids' = Ids
    BY <2>1, <2>2 DEF Execute, Crawl, StatementFails
  <2>3. ASSUME Stage(w) PROVE RowsAdvance /\ Ids' = Ids
    <3>1. CASE MayStage(w)
      <4> DEFINE i == Row(w)
                 e == [rows[i] EXCEPT !.staged = TRUE]
      <4>1. i \in Ids
        BY <1>1, <2>3 DEF Stage, Busy
      <4>2. rows[i] \in Execution /\ rows[i].status = "RUNNING"
        BY <1>1, <3>1, <4>1, RowTyped DEF MayStage
      <4>3. /\ e \in Execution /\ Fixed(rows[i], e)
            /\ e.status = "RUNNING" /\ e.owner = rows[i].owner /\ e.reason = rows[i].reason
        BY <4>2 DEF Execution, Fixed
      <4>4. rows' = [rows EXCEPT ![i] = e]
        BY <2>3, <3>1 DEF Stage
      <4> HIDE DEF e, i
      <4> QED BY <1>1, <4>1, <4>2, <4>3, <4>4, RowWritten DEF Allowed, Moves, Released, PolicyKept, Finished
    <3>2. CASE ~MayStage(w)
      BY <2>1, <2>3, <3>2 DEF Stage
    <3> QED BY <3>1, <3>2
  <2>4. ASSUME EndExecution(w) PROVE RowsAdvance /\ Ids' = Ids
    <3>1. Row(w) \in Ids /\ worker[w].outcome \in Finished
      BY <1>1, <2>4 DEF EndExecution, Busy, Sound, Finished
    <3> DEFINE reason == IF worker[w].outcome \in {"FAILED", "SKIPPED"} THEN "fatal" ELSE "none"
    <3>2. reason \in Reasons \ {"policy"}
      BY DEF Reasons
    <3>3. TransitionExecution(Row(w), w, worker[w].outcome, reason)
      BY <2>4 DEF EndExecution
    <3> HIDE DEF reason
    <3> QED BY <1>1, <3>1, <3>2, <3>3, TransitionAllowed
  <2>5. ASSUME HeartbeatExecution(w) PROVE RowsAdvance /\ Ids' = Ids
    <3> DEFINE i == Row(w)
               e == [rows[i] EXCEPT !.leased = TRUE]
    <3>1. i \in Ids
      BY <1>1, <2>5 DEF HeartbeatExecution
    <3>2. rows[i] \in Execution /\ rows[i].status = "RUNNING"
      BY <1>1, <2>5, <3>1, RowTyped DEF HeartbeatExecution
    <3>3. /\ e \in Execution /\ Fixed(rows[i], e)
          /\ e.status = "RUNNING" /\ e.owner = rows[i].owner /\ e.reason = rows[i].reason
      BY <3>2 DEF Execution, Fixed
    <3>4. rows' = [rows EXCEPT ![i] = e]
      BY <2>5 DEF HeartbeatExecution
    <3> HIDE DEF e, i
    <3> QED BY <1>1, <3>1, <3>2, <3>3, <3>4, RowWritten DEF Allowed, Moves, Released, PolicyKept, Finished
  <2>6. RowsAdvance /\ Ids' = Ids
    BY <2>2, <2>3, <2>4, <2>5
  <2> QED BY <2>6 DEF Ordinary, Good, RowsAdvance
<1>3. CASE Stop(w)
  BY <1>2, <1>3, WorkerStops DEF Others, Idle
<1>4. ASSUME NEW outcome \in {"retryable", "fatal"}, worker[w].at \in Busy \ {"stopping"},
             worker' = [worker EXCEPT ![w].at = "failed", ![w].outcome = outcome]
      PROVE  /\ Hands /\ Others(w) /\ worker'[w].at = "failed" /\ worker'[w].row = worker[w].row
  <2>1. "failed" \in Busy /\ outcome \in Finished \cup {"none", "retryable", "fatal"}
    BY DEF Busy
  <2> QED BY <1>2, <1>4, <2>1, WorkerGoes
<1>5. ASSUME NEW at \in {"ending", "staged"}, NEW outcome \in {"SUCCESS", "FAILED", "SKIPPED"},
             worker[w].at \in Busy \ {"stopping"},
             worker' = [worker EXCEPT ![w].at = at, ![w].outcome = outcome]
      PROVE  /\ Hands /\ Others(w) /\ worker'[w].at = at /\ worker'[w].row = worker[w].row
  <2>1. at \in Busy /\ outcome \in Finished \cup {"none", "retryable", "fatal"} /\ at # "failed"
    BY DEF Busy, Finished
  <2> QED BY <1>2, <1>5, <2>1, WorkerGoes
<1>6. ASSUME NEW at \in {"crawling", "staging"}, worker[w].at \in Busy \ {"stopping"}, Go(w, at)
      PROVE  /\ Hands /\ Others(w) /\ worker'[w].at = at /\ worker'[w].row = worker[w].row
  <2>1. at \in Busy \ {"failed", "ending", "staged"}
    BY DEF Busy
  <2> QED BY <1>2, <1>6, <2>1, WorkerGoesOn
<1>7. CASE Execute(w)
  <2>1. worker[w].at \in Busy \ {"stopping"}
    BY <1>7 DEF Execute, Busy
  <2>2. \/ Stop(w) \/ Go(w, "crawling")
        \/ \E outcome \in {"SKIPPED", "FAILED"} :
              worker' = [worker EXCEPT ![w].at = "ending", ![w].outcome = outcome]
    BY <1>7 DEF Execute
  <2> QED BY <1>3, <1>5, <1>6, <2>1, <2>2 DEF Others
<1>8. CASE Crawl(w)
  <2>1. worker[w].at \in Busy \ {"stopping"}
    BY <1>8 DEF Crawl, Busy
  <2>2. \/ Stop(w) \/ Go(w, "staging")
        \/ \E error \in {"retryable", "fatal"} :
              worker' = [worker EXCEPT ![w].at = "failed", ![w].outcome = error]
    BY <1>8 DEF Crawl
  <2> QED BY <1>3, <1>4, <1>6, <2>1, <2>2 DEF Others
<1>9. CASE Stage(w)
  <2>1. worker[w].at \in Busy \ {"stopping"}
    BY <1>9 DEF Stage, Busy
  <2>2. \/ worker' = [worker EXCEPT ![w].at = "failed", ![w].outcome = "fatal"]
        \/ \E outcome \in {"SUCCESS", "FAILED"} :
              worker' = [worker EXCEPT ![w].at = "staged", ![w].outcome = outcome]
    BY <1>9 DEF Stage
  <2> QED BY <1>4, <1>5, <2>1, <2>2 DEF Others
<1>10. CASE EndExecution(w)
  <2>1. worker[w].at \in Busy \ {"stopping"}
    BY <1>10 DEF EndExecution, Busy
  <2>2. Stop(w) \/ worker' = [worker EXCEPT ![w].at = "failed", ![w].outcome = "fatal"]
    BY <1>10 DEF EndExecution
  <2> QED BY <1>3, <1>4, <2>1, <2>2 DEF Others
<1>11. CASE HeartbeatExecution(w)
  BY <1>2, <1>11, WorkersKept DEF HeartbeatExecution
<1>12. CASE StatementFails(w)
  <2>1. CASE worker[w].at \in {"crawling", "staging", "staged"}
    <3>1. worker[w].at \in Busy \ {"stopping"}
      BY <2>1 DEF Busy
    <3>2. worker' = [worker EXCEPT ![w].at = "failed", ![w].outcome = "fatal"]
      BY <1>12, <2>1 DEF StatementFails
    <3> QED BY <1>4, <3>1, <3>2 DEF Others
  <2>2. CASE worker[w].at \notin {"crawling", "staging", "staged"}
    BY <1>3, <1>12, <2>2 DEF StatementFails
  <2> QED BY <2>1, <2>2
<1> QED BY <1>7, <1>8, <1>9, <1>10, <1>11, <1>12

-----------------------------------------------------------------------------
(* The other steps: claims, crashes, failures and the stopping of jobs.    *)

Claimed(w, i) ==
    /\ rows[i].status = "QUEUED" /\ rows'[i].status = "RUNNING" /\ rows'[i].owner = w
    /\ Ids' = Ids /\ \A j \in Ids \ {i} : rows'[j] = rows[j]
    /\ worker'[w].at = "execute" /\ worker'[w].row = i

LEMMA ClaimGood ==
    ASSUME TypeInv, NEW w \in Workers, ClaimNextExecution(w)
    PROVE  /\ Good /\ Others(w) /\ \A i \in Ids : PolicyKept(rows[i], rows'[i])
           /\ Ordinary \/ \E i \in Ids : Claimed(w, i)
<1>1. CrawlTypeOK /\ \A i \in Ids : rows[i] \in Execution
  BY RowTyped DEF TypeInv
<1>2. CASE UNCHANGED rows /\ Stop(w)
  <2>1. RowsAdvance /\ Ids' = Ids
    BY <1>1, <1>2, RowsKept
  <2>2. Hands /\ Others(w) /\ worker'[w] = Idle
    BY <1>2, <2>1, WorkerStops
  <2> QED BY <2>1, <2>2 DEF Ordinary, Good, RowsAdvance, Allowed, Others, Idle
<1>3. ASSUME NEW i \in Ids, rows[i].status = "QUEUED", Stop(w),
             rows' = [rows EXCEPT ![i].status = "SKIPPED", ![i].reason = "fatal"]
      PROVE  Ordinary /\ Others(w)
  <2> DEFINE e == [rows[i] EXCEPT !.status = "SKIPPED", !.reason = "fatal"]
  <2>1. e \in Execution /\ Fixed(rows[i], e) /\ e.status = "SKIPPED" /\ e.reason = "fatal"
        /\ e.owner = rows[i].owner
    BY <1>1 DEF Execution, Fixed, Finished
  <2>2. rows' = [rows EXCEPT ![i] = e]
    BY <1>3
  <2> HIDE DEF e
  <2>6. rows[i].owner = Nobody
    BY <1>3 DEF TypeInv, OnlyRunningOwned
  <2>3. Allowed(rows[i], e)
    BY <1>3, <2>1, <2>6 DEF Allowed, Moves, Released, PolicyKept, Finished
  <2>4. RowsAdvance /\ Ids' = Ids
    BY <1>1, <2>1, <2>2, <2>3, RowWritten
  <2>5. Hands /\ Others(w) /\ worker'[w] = Idle
    BY <1>3, <2>4, WorkerStops
  <2> QED BY <2>4, <2>5 DEF Ordinary, Good, RowsAdvance, Others, Idle
<1>4. ASSUME NEW i \in Ids, rows[i].status = "QUEUED",
             rows' = [rows EXCEPT ![i].status = "RUNNING", ![i].owner = w, ![i].leased = TRUE],
             worker' = [worker EXCEPT ![w] = [Idle EXCEPT !.at = "execute", !.row = i]]
      PROVE  Good /\ Others(w) /\ Claimed(w, i) /\ \A j \in Ids : PolicyKept(rows[j], rows'[j])
  <2> DEFINE e == [rows[i] EXCEPT !.status = "RUNNING", !.owner = w, !.leased = TRUE]
             x == [Idle EXCEPT !.at = "execute", !.row = i]
  <2>1. e \in Execution /\ Fixed(rows[i], e) /\ e.status = "RUNNING" /\ e.owner = w /\ e.reason = rows[i].reason
    BY <1>1 DEF Execution, Fixed
  <2>2. rows' = [rows EXCEPT ![i] = e]
    BY <1>4
  <2>3. x.at = "execute" /\ x.row = i /\ x.todo = {}
    BY DEF Idle
  <2>10. i \in Ids' => x \in Hand'
    <3>1. Idle \in Hand'
      BY DEF Idle, Hand, Places
    <3> QED BY <3>1 DEF Hand, Places
  <2>4. worker' = [worker EXCEPT ![w] = x]
    BY <1>4
  <2> HIDE DEF e, x
  <2>5. Moves(rows[i], e)
    BY <1>4, <2>1 DEF Moves, Finished
  <2>6. RowsMove /\ Ids' = Ids /\ rows'[i] = e /\ \A j \in Ids \ {i} : rows'[j] = rows[j]
    BY <1>1, <2>1, <2>2, <2>5, RowReplaced
  <2>7. i # 0
    BY <1>1 DEF CrawlTypeOK, Ids
  <2>8. x \in Hand' /\ Sound(x)
    BY <2>3, <2>6, <2>7, <2>10 DEF Sound, Busy
  <2>9. Hands /\ Others(w) /\ worker'[w] = x
    BY <2>4, <2>6, <2>8, WorkerMoves
  <2> QED BY <1>4, <2>1, <2>3, <2>6, <2>9 DEF Good, Claimed, PolicyKept
<1>5. \/ UNCHANGED rows /\ Stop(w)
      \/ \E i \in Ids : rows[i].status = "QUEUED" /\ Stop(w)
            /\ rows' = [rows EXCEPT ![i].status = "SKIPPED", ![i].reason = "fatal"]
      \/ \E i \in Ids : rows[i].status = "QUEUED"
            /\ rows' = [rows EXCEPT ![i].status = "RUNNING", ![i].owner = w, ![i].leased = TRUE]
            /\ worker' = [worker EXCEPT ![w] = [Idle EXCEPT !.at = "execute", !.row = i]]
  BY DEF ClaimNextExecution, DueExecutions
<1>6. Ordinary => Good /\ \A i \in Ids : PolicyKept(rows[i], rows'[i])
  BY DEF Ordinary, RowsAdvance, Allowed
<1>7. CASE UNCHANGED rows /\ Stop(w)
  <2>1. Ids \subseteq Ids'
    BY <1>1, <1>7, RowsKept
  <2>2. Others(w)
    BY <1>7, <2>1, WorkerStops
  <2> QED BY <1>2, <1>6, <1>7, <2>2
<1> QED BY <1>3, <1>4, <1>5, <1>6, <1>7

LEMMA CrashGood ==
    ASSUME TypeInv, NEW w \in Workers, Crash(w)
    PROVE  /\ Good /\ Others(w) /\ worker'[w] = Idle /\ Ids' = Ids
           /\ \A i \in Ids : /\ rows'[i].status = rows[i].status /\ rows'[i].reason = rows[i].reason
                             /\ rows'[i].owner = IF rows[i].owner = w THEN Dead ELSE rows[i].owner
<1>1. CrawlTypeOK
  BY DEF TypeInv
<1>2. ASSUME NEW i \in Ids
      PROVE  /\ Moves(rows[i], rows'[i])
             /\ rows'[i].status = rows[i].status /\ rows'[i].reason = rows[i].reason
             /\ rows'[i].owner = IF rows[i].owner = w THEN Dead ELSE rows[i].owner
  <2> DEFINE e == [rows[i] EXCEPT !.owner = Dead]
  <2>1. rows[i] \in Execution
    BY <1>1, RowTyped
  <2>2. rows'[i] = IF rows[i].owner = w THEN e ELSE rows[i]
    BY DEF Crash
  <2>3. /\ e \in Execution /\ Fixed(rows[i], e) /\ e.owner = Dead
        /\ e.status = rows[i].status /\ e.reason = rows[i].reason
    BY <2>1 DEF Execution, Fixed
  <2>4. Moves(rows[i], rows[i])
    BY <2>1 DEF Moves, Fixed, Unchanged
  <2>5. rows[i].status \in Finished => rows[i].owner # w
    BY CrawlAssumption DEF TypeInv, OnlyRunningOwned, Finished
  <2> QED BY <2>2, <2>3, <2>4, <2>5 DEF Moves
<1>3. rows' \in [Ids -> Execution]
  BY <1>2 DEF Crash, Moves
<1>4. RowsMove /\ Ids' = Ids
  BY <1>1, <1>2, <1>3, RowsReplaced
<1>5. Hands /\ Others(w) /\ worker'[w] = Idle
  BY <1>4, WorkerStops DEF Crash
<1> QED BY <1>2, <1>4, <1>5 DEF Good

LEMMA RecordFailureGood ==
    ASSUME TypeInv, NEW w \in Workers, RecordFailure(w)
    PROVE  /\ Good /\ RowsAdvance /\ Others(w)
           /\ \/ worker'[w] = Idle
              \/ /\ rows'[Row(w)].status = "FAILED"
                 /\ worker'[w].at \in {"retry", "stopping"}
                 /\ worker'[w].at = "stopping" => rows'[Row(w)].reason = "fatal"
                 /\ rows[Row(w)].status = "RUNNING"
                 /\ worker'[w].row = Row(w) /\ worker'[w].todo = {}
<1>1. /\ CrawlTypeOK /\ worker[w].at \in Busy \ {"stopping"} /\ Row(w) \in Ids
      /\ worker[w].outcome \in {"retryable", "fatal"}
  BY HandIs DEF TypeInv, RecordFailure, Busy, Sound
<1>2. worker[w].outcome \in Reasons \ {"policy"} /\ "FAILED" \in Finished
  BY <1>1 DEF Reasons, Finished
<1>3. /\ RowsAdvance /\ Ids' = Ids
      /\ rows[Row(w)].status = "RUNNING" /\ rows[Row(w)].owner = w =>
            rows'[Row(w)].status = "FAILED" /\ rows'[Row(w)].reason = worker[w].outcome
  BY <1>1, <1>2, TransitionAllowed DEF RecordFailure
<1>4. CASE rows[Row(w)].owner # w
  BY <1>3, <1>4, WorkerStops DEF RecordFailure, Good, RowsAdvance
<1>5. CASE rows[Row(w)].owner = w
  <2>1. rows[Row(w)].status = "RUNNING"
    BY <1>1, <1>5, CrawlAssumption DEF TypeInv, OnlyRunningOwned
  <2>2. "retry" \in Busy \ {"failed", "ending", "staged"} /\ "stopping" \in Busy \ {"failed", "ending", "staged"}
    BY DEF Busy
  <2>3. CASE worker[w].outcome = "retryable"
    <3>1. Go(w, "retry")
      BY <1>5, <2>3 DEF RecordFailure
    <3> QED BY <1>1, <1>3, <1>5, <2>1, <2>2, <3>1, WorkerGoesOn DEF Good, RowsAdvance, Row
  <2>4. CASE worker[w].outcome = "fatal"
    <3>1. Go(w, "stopping")
      BY <1>5, <2>4 DEF RecordFailure
    <3>2. /\ Hands /\ Others(w)
          /\ worker'[w].at = "stopping" /\ worker'[w].row = Row(w) /\ worker'[w].todo = {}
      BY <1>1, <1>3, <2>2, <3>1, WorkerGoesOn DEF Row
    <3> QED BY <1>3, <1>5, <2>1, <2>4, <3>2 DEF Good, RowsAdvance
  <2> QED BY <1>1, <2>3, <2>4
<1> QED BY <1>4, <1>5

LEMMA RetryOrStopGood ==
    ASSUME TypeInv, NEW w \in Workers, RetryOrStop(w)
    PROVE  /\ Good /\ RowsAdvance /\ Others(w)
           /\ \/ worker'[w] = Idle
              \/ /\ ~RetryExists(Row(w)) /\ UNCHANGED rows
                 /\ worker'[w].at = "stopping" /\ worker'[w].row = Row(w) /\ worker'[w].todo = {}
<1>1. CrawlTypeOK /\ worker[w].at \in Busy \ {"stopping"} /\ Row(w) \in Ids
  BY HandIs DEF TypeInv, RetryOrStop, Busy
<1>2. RowsAdvance
  BY <1>1, AutomaticRetryGood DEF RetryOrStop
<1>3. CASE RetryExists(Row(w))
  BY <1>2, <1>3, WorkerStops DEF RetryOrStop, Good, RowsAdvance, RowsMove
<1>4. CASE ~RetryExists(Row(w))
  <2>1. Go(w, "stopping") /\ UNCHANGED rows
    BY <1>4 DEF RetryOrStop, RetryExists, ScheduleAutomaticRetry
  <2>2. "stopping" \in Busy \ {"failed", "ending", "staged"}
    BY DEF Busy
  <2>3. Ids \subseteq Ids'
    BY <1>2 DEF RowsAdvance, RowsMove
  <2>4. /\ Hands /\ Others(w)
        /\ worker'[w].at = "stopping" /\ worker'[w].row = Row(w) /\ worker'[w].todo = {}
    BY <1>1, <2>1, <2>2, <2>3, WorkerGoesOn DEF Row
  <2> QED BY <1>2, <1>4, <2>1, <2>4 DEF Good, RowsAdvance
<1> QED BY <1>3, <1>4

(* A worker that is stopping jobs takes up or puts down some of them. *)
LEMMA WorkerTakes ==
    ASSUME TypeInv, Ids \subseteq Ids', NEW w \in Workers, worker[w].at = "stopping",
           NEW todo \in SUBSET Ids, worker' = [worker EXCEPT ![w].todo = todo]
    PROVE  /\ Hands /\ Others(w)
           /\ worker'[w].at = "stopping" /\ worker'[w].row = Row(w) /\ worker'[w].todo = todo
<1> DEFINE x == [worker[w] EXCEPT !.todo = todo]
<1>1. worker[w] \in Hand /\ Sound(worker[w])
  BY HandIs
<1>2. x \in Hand /\ x.at = "stopping" /\ x.row = worker[w].row /\ x.todo = todo
  BY <1>1 DEF Hand
<1>3. worker' = [worker EXCEPT ![w] = x]
  OBVIOUS
<1> HIDE DEF x
<1>4. x \in Hand' /\ Sound(x)
  BY <1>1, <1>2 DEF Hand, Sound, Busy
<1>5. Hands /\ Others(w) /\ worker'[w] = x
  BY <1>3, <1>4, WorkerMoves
<1> QED BY <1>2, <1>5 DEF Row

LEMMA ListFollowingGood ==
    ASSUME TypeInv, NEW w \in Workers, ListFollowing(w)
    PROVE  /\ Good /\ RowsAdvance /\ Others(w) /\ UNCHANGED rows /\ worker[w].at = "stopping"
           /\ \/ worker'[w] = Idle
              \/ /\ Policy[rows[Row(w)].job] \in {"STOP_CYCLE", "RETRY_THEN_STOP"}
                 /\ worker'[w].at = "stopping" /\ worker'[w].row = Row(w)
                 /\ worker'[w].todo = FollowingScheduledExecutions(Row(w))
<1>1. RowsAdvance /\ Ids' = Ids
  BY RowsKept DEF TypeInv, ListFollowing
<1>2. CASE Stop(w)
  BY <1>1, <1>2, WorkerStops DEF ListFollowing, Good, RowsAdvance
<1>3. CASE ~Stop(w)
  <2> DEFINE todo == FollowingScheduledExecutions(Row(w))
  <2>1. todo \in SUBSET Ids
    BY DEF FollowingScheduledExecutions
  <2>2. worker' = [worker EXCEPT ![w].todo = todo] /\ Policy[rows[Row(w)].job] \in {"STOP_CYCLE", "RETRY_THEN_STOP"}
    BY <1>3 DEF ListFollowing
  <2>3. UNCHANGED rows /\ worker[w].at = "stopping"
    BY DEF ListFollowing
  <2> HIDE DEF todo
  <2>4. /\ Hands /\ Others(w)
        /\ worker'[w].at = "stopping" /\ worker'[w].row = Row(w) /\ worker'[w].todo = todo
    BY <1>1, <2>1, <2>2, <2>3, WorkerTakes
  <2> QED BY <1>1, <2>2, <2>3, <2>4 DEF Good, RowsAdvance, todo
<1> QED BY <1>2, <1>3

LEMMA StopFollowingGood ==
    ASSUME TypeInv, NEW w \in Workers, StopFollowing(w)
    PROVE  /\ Good /\ Others(w) /\ worker[w].at = "stopping" /\ Ids' = Ids
           /\ \A i \in Ids : Released(rows[i], rows'[i])
           /\ \A i \in Ids : PolicyKept(rows[i], rows'[i]) \/ i \in worker[w].todo
           /\ \/ worker'[w] = Idle
              \/ /\ worker'[w].at = "stopping" /\ worker'[w].row = Row(w)
                 /\ worker'[w].todo \subseteq worker[w].todo
<1>1. CrawlTypeOK /\ worker[w].at = "stopping" /\ worker[w] \in Hand
  BY HandIs DEF TypeInv, StopFollowing
<1>2. PICK f \in worker[w].todo :
          /\ IF rows[f].status = "QUEUED"
             THEN rows' = [rows EXCEPT ![f].status = "SKIPPED", ![f].reason = "policy"]
             ELSE UNCHANGED rows
          /\ IF worker[w].todo = {f} THEN Stop(w)
                                     ELSE worker' = [worker EXCEPT ![w].todo = @ \ {f}]
  BY DEF StopFollowing
<1>3. f \in Ids
  BY <1>1, <1>2 DEF Hand
<1>4. /\ RowsMove /\ Ids' = Ids /\ \A i \in Ids : Released(rows[i], rows'[i])
      /\ \A i \in Ids : PolicyKept(rows[i], rows'[i]) \/ i = f
  <2>1. CASE rows[f].status # "QUEUED"
    BY <1>1, <1>2, <2>1, RowsKept DEF RowsAdvance, Allowed
  <2>2. CASE rows[f].status = "QUEUED"
    <3> DEFINE e == [rows[f] EXCEPT !.status = "SKIPPED", !.reason = "policy"]
    <3>1. rows[f] \in Execution /\ rows[f].owner = Nobody
      BY <1>1, <1>3, <2>2, RowTyped DEF TypeInv, OnlyRunningOwned
    <3>2. e \in Execution /\ Fixed(rows[f], e) /\ e.status = "SKIPPED" /\ e.owner = Nobody
      BY <3>1 DEF Execution, Fixed, Finished
    <3>3. rows' = [rows EXCEPT ![f] = e]
      BY <1>2, <2>2
    <3> HIDE DEF e
    <3>4. Moves(rows[f], e) /\ Released(rows[f], e)
      BY <2>2, <3>1, <3>2 DEF Moves, Released, Finished
    <3>5. RowsMove /\ Ids' = Ids /\ rows'[f] = e /\ \A j \in Ids \ {f} : rows'[j] = rows[j]
      BY <1>1, <1>3, <3>2, <3>3, <3>4, RowReplaced
    <3> QED BY <3>4, <3>5 DEF Released, PolicyKept
  <2> QED BY <2>1, <2>2
<1>5. CASE Stop(w)
  BY <1>1, <1>2, <1>4, <1>5, WorkerStops DEF Good
<1>6. CASE ~Stop(w)
  <2> DEFINE todo == worker[w].todo \ {f}
  <2>1. todo \in SUBSET Ids /\ todo \subseteq worker[w].todo
    BY <1>1 DEF Hand
  <2>2. worker' = [worker EXCEPT ![w].todo = todo]
    BY <1>2, <1>6
  <2> HIDE DEF todo
  <2>3. /\ Hands /\ Others(w)
        /\ worker'[w].at = "stopping" /\ worker'[w].row = Row(w) /\ worker'[w].todo = todo
    BY <1>1, <1>4, <2>1, <2>2, WorkerTakes
  <2> QED BY <1>1, <1>2, <1>4, <2>1, <2>3 DEF Good
<1> QED BY <1>5, <1>6

-----------------------------------------------------------------------------
(* All steps.                                                              *)

Extraordinary ==
    \E w \in Workers : \/ ClaimNextExecution(w) \/ Crash(w) \/ RecordFailure(w)
                       \/ RetryOrStop(w) \/ ListFollowing(w) \/ StopFollowing(w)

LEMMA StepKinds ==
    ASSUME TypeInv, [CrawlNext]_crawlVars
    PROVE  Ordinary \/ Extraordinary
<1>1. ASSUME UNCHANGED <<rows, worker>> PROVE Ordinary
  <2>1. RowsAdvance /\ Ids' = Ids
    BY <1>1, RowsKept DEF TypeInv
  <2> QED BY <1>1, <2>1, WorkersKept DEF Ordinary, Good, RowsAdvance
<1>2. CASE UNCHANGED crawlVars
  BY <1>1, <1>2 DEF crawlVars
<1>3. ASSUME NEW job \in Jobs, SetEnabled(job) PROVE Ordinary
  BY <1>1, <1>3 DEF SetEnabled
<1>4. CASE CycleLeavesOpen
  BY <1>1, <1>4 DEF CycleLeavesOpen
<1>5. CASE \/ \E job \in Jobs, window \in Windows : CreateScheduledExecution(job, window)
           \/ \E job \in Jobs : CreateManualExecution(job)
           \/ \E i \in Ids : RetryExecution(i) \/ CancelExecution(i) \/ LeaseExpires(i)
           \/ TimePasses
  BY <1>5, RequestsOrdinary
<1>6. ASSUME NEW w \in Workers, WorkerStep(w) \/ HeartbeatExecution(w) \/ Crash(w) \/ StatementFails(w)
      PROVE  Ordinary \/ Extraordinary
  <2>1. CASE RecoverExpiredLeases(w) \/ RecoverNext(w)
    BY <2>1, RecoveryOrdinary
  <2>2. CASE \/ Execute(w) \/ Crawl(w) \/ Stage(w) \/ EndExecution(w) \/ HeartbeatExecution(w)
             \/ StatementFails(w)
    BY <2>2, ExecuteOrdinary
  <2>3. CASE \/ ClaimNextExecution(w) \/ Crash(w) \/ RecordFailure(w)
             \/ RetryOrStop(w) \/ ListFollowing(w) \/ StopFollowing(w)
    BY <2>3 DEF Extraordinary
  <2> QED BY <1>6, <2>1, <2>2, <2>3 DEF WorkerStep
<1> QED BY <1>2, <1>3, <1>4, <1>5, <1>6 DEF CrawlNext

(* No step opens the cycle again. *)
LEMMA Switches ==
    ASSUME CrawlTypeOK, [CrawlNext]_crawlVars
    PROVE  /\ cycleOpen' \in BOOLEAN /\ enabled' \subseteq Jobs /\ upsets' \in Nat
           /\ cycleOpen' => cycleOpen
<1>1. cycleOpen \in BOOLEAN /\ enabled \subseteq Jobs /\ upsets \in Nat
  BY DEF CrawlTypeOK
<1>2. ASSUME UNCHANGED <<cycleOpen, enabled>>, upsets' \in {upsets, upsets + 1}
      PROVE  /\ cycleOpen' \in BOOLEAN /\ enabled' \subseteq Jobs /\ upsets' \in Nat
             /\ cycleOpen' => cycleOpen
  BY <1>1, <1>2
<1>3. CASE UNCHANGED crawlVars
  BY <1>2, <1>3 DEF crawlVars
<1>4. ASSUME NEW job \in Jobs, SetEnabled(job)
      PROVE  enabled' \subseteq Jobs /\ upsets' \in Nat /\ cycleOpen' = cycleOpen
  BY <1>1, <1>4 DEF SetEnabled
<1>5. CASE CycleLeavesOpen
  BY <1>1, <1>5 DEF CycleLeavesOpen
<1>6. CASE \/ \E job \in Jobs, window \in Windows : CreateScheduledExecution(job, window)
           \/ \E job \in Jobs : CreateManualExecution(job)
           \/ \E i \in Ids : RetryExecution(i) \/ CancelExecution(i) \/ LeaseExpires(i)
           \/ TimePasses
  BY <1>2, <1>6 DEF CreateScheduledExecution, CreateManualExecution, RetryExecution, CancelExecution,
                    LeaseExpires, TimePasses
<1>7. ASSUME NEW w \in Workers, WorkerStep(w) \/ HeartbeatExecution(w) \/ Crash(w) \/ StatementFails(w)
      PROVE  UNCHANGED <<cycleOpen, enabled>> /\ upsets' \in {upsets, upsets + 1}
  BY <1>7 DEF WorkerStep, HeartbeatExecution, Crash, StatementFails, RecoverExpiredLeases, RecoverNext,
              ClaimNextExecution, Execute, Crawl, Stage, EndExecution, RecordFailure, RetryOrStop,
              ListFollowing, StopFollowing
<1> QED BY <1>1, <1>2, <1>3, <1>4, <1>5, <1>6, <1>7 DEF CrawlNext

(* A step that hands no execution to a worker, whatever it does else. *)
Calm ==
    /\ RowsMove /\ \A i \in Ids : Released(rows[i], rows'[i])
    /\ \A w \in Workers : worker'[w].row \in {0, worker[w].row}

LEMMA StepCalm ==
    ASSUME TypeInv, [CrawlNext]_crawlVars
    PROVE  /\ Good
           /\ \/ Calm
              \/ \E w \in Workers, i \in Ids : Others(w) /\ Claimed(w, i)
              \/ \E w \in Workers : Crash(w)
<1>1. CASE Ordinary
  BY <1>1 DEF Ordinary, Good, RowsAdvance, Allowed, Calm
<1>2. ASSUME NEW w \in Workers, ClaimNextExecution(w)
      PROVE  Good /\ (Ordinary \/ \E i \in Ids : Others(w) /\ Claimed(w, i))
  BY <1>2, ClaimGood
<1>3. ASSUME NEW w \in Workers, Crash(w) PROVE Good
  BY <1>3, CrashGood
<1>4. ASSUME NEW w \in Workers,
             RecordFailure(w) \/ RetryOrStop(w) \/ ListFollowing(w) \/ StopFollowing(w)
      PROVE  Good /\ Calm
  <2>1. /\ Good /\ Others(w) /\ \A i \in Ids : Released(rows[i], rows'[i])
        /\ worker'[w] = Idle \/ worker'[w].row = Row(w)
    BY <1>4, RecordFailureGood, RetryOrStopGood, ListFollowingGood, StopFollowingGood DEF RowsAdvance, Allowed
  <2> QED BY <2>1 DEF Calm, Good, Others, Idle, Row
<1> QED BY <1>1, <1>2, <1>3, <1>4, StepKinds DEF Extraordinary

LEMMA StepTypeInv ==
    ASSUME TypeInv, [CrawlNext]_crawlVars
    PROVE  TypeInv'
<1>1. CrawlTypeOK'
  <2>1. RowsMove /\ Hands
    BY StepCalm DEF Good
  <2> QED BY <2>1, Switches DEF TypeInv, CrawlTypeOK, RowsMove, Hands, Hand, Places
<1>2. \A w \in Workers : Sound(worker'[w])
  BY StepCalm DEF Good, Hands
<1>3. ASSUME NEW i \in Ids', rows'[i].status # "RUNNING" PROVE rows'[i].owner = Nobody
  <2>1. CASE i \notin Ids
    BY <2>1, StepCalm DEF Good, RowsMove, IsNew
  <2>2. CASE i \in Ids /\ Calm
    BY <1>3, <2>2 DEF Calm, Released, TypeInv, OnlyRunningOwned
  <2>3. ASSUME i \in Ids, NEW w \in Workers, NEW j \in Ids, Claimed(w, j) PROVE rows'[i].owner = Nobody
    BY <1>3, <2>3 DEF Claimed, TypeInv, OnlyRunningOwned
  <2>4. ASSUME i \in Ids, NEW w \in Workers, Crash(w) PROVE rows'[i].owner = Nobody
    BY <1>3, <2>4, CrashGood, CrawlAssumption DEF TypeInv, OnlyRunningOwned
  <2> QED BY <2>1, <2>2, <2>3, <2>4, StepCalm
<1> QED BY <1>1, <1>2, <1>3 DEF TypeInv, OnlyRunningOwned

LEMMA InitTypeInv ==
    ASSUME CrawlInit
    PROVE  TypeInv
<1>1. rows \in Seq(Execution) /\ Ids = {}
  BY DEF CrawlInit, Ids
<1>2. Idle \in Hand /\ Sound(Idle)
  BY DEF Idle, Hand, Places, Sound, Busy
<1>3. worker \in [Workers -> Hand] /\ \A w \in Workers : Sound(worker[w])
  BY <1>2 DEF CrawlInit
<1> QED BY <1>1, <1>3 DEF CrawlInit, TypeInv, CrawlTypeOK, OnlyRunningOwned, Hand, Places

LEMMA CrawlSound == CrawlSpec => []TypeInv
<1>1. TypeInv /\ [CrawlNext]_crawlVars => TypeInv'
  BY StepTypeInv
<1> QED BY <1>1, InitTypeInv, PTL DEF CrawlSpec

(* The columns of the queue and what every worker has in its hands keep    *)
(* their types: a worker at work has a row, the jobs it stops exist.       *)
THEOREM CrawlTypeCorrect == CrawlSpec => []CrawlTypeOK
<1>1. TypeInv => CrawlTypeOK
  BY DEF TypeInv
<1> QED BY <1>1, CrawlSound, PTL

-----------------------------------------------------------------------------
(* Finished executions, and whose an execution is.                         *)

(* No worker that comes late, no recovery, cancellation or failure policy  *)
(* changes an execution that has ended.                                    *)
THEOREM CrawlHistoryKept == CrawlSpec => FinishedIsFinal
<1>1. ASSUME TypeInv, [CrawlNext]_crawlVars, NEW i \in Ids, rows[i].status \in Finished
      PROVE  [rows'[i] EXCEPT !.wait = 0] = [rows[i] EXCEPT !.wait = 0]
  <2>1. Moves(rows[i], rows'[i]) /\ rows[i] \in Execution
    BY <1>1, StepCalm, RowTyped DEF Good, RowsMove, TypeInv
  <2>2. rows'[i] \in Execution /\ Fixed(rows[i], rows'[i]) /\ Unchanged(rows[i], rows'[i])
    BY <1>1, <2>1 DEF Moves
  <2>3. ASSUME NEW a \in Execution, NEW b \in Execution, Fixed(a, b), Unchanged(a, b)
        PROVE  [b EXCEPT !.wait = 0] = [a EXCEPT !.wait = 0]
    BY <2>3 DEF Execution, Fixed, Unchanged
  <2> QED BY <2>1, <2>2, <2>3
<1>2. TypeInv /\ [CrawlNext]_crawlVars =>
        [\A i \in Ids : rows[i].status \in Finished =>
            [rows'[i] EXCEPT !.wait = 0] = [rows[i] EXCEPT !.wait = 0]]_crawlVars
  BY <1>1
<1> QED BY <1>2, CrawlSound, PTL DEF CrawlSpec, FinishedIsFinal

Held ==
    \A w \in Workers : Row(w) # 0 =>
        /\ rows[Row(w)].status # "QUEUED"
        /\ rows[Row(w)].owner \in {w, Nobody}
        /\ \A v \in Workers : Row(v) = Row(w) => v = w

LEMMA StepHeld ==
    ASSUME TypeInv, Held, [CrawlNext]_crawlVars
    PROVE  Held'
<1>1. ASSUME NEW w \in Workers, Row(w)' # 0
      PROVE  /\ rows'[Row(w)'].status # "QUEUED"
             /\ rows'[Row(w)'].owner \in {w, Nobody}
             /\ \A v \in Workers : Row(v)' = Row(w)' => v = w
  <2>1. RowsMove /\ \A v \in Workers : Row(v)' = worker'[v].row /\ Row(v) = worker[v].row
    BY StepCalm DEF Good, Row
  <2>2. CASE Calm
    <3>1. Row(w)' = Row(w) /\ Row(w) \in Ids
      BY <1>1, <2>1, <2>2, HandIs DEF Calm
    <3>2. Moves(rows[Row(w)], rows'[Row(w)]) /\ Released(rows[Row(w)], rows'[Row(w)])
      BY <2>2, <3>1 DEF Calm, RowsMove
    <3>3. \A v \in Workers : Row(v)' = Row(w)' => Row(v) = Row(w)
      BY <1>1, <2>1, <2>2, <3>1 DEF Calm
    <3> QED BY <1>1, <3>1, <3>2, <3>3 DEF Held, Moves, Released
  <2>3. ASSUME NEW u \in Workers, NEW i \in Ids, Others(u), Claimed(u, i)
        PROVE  /\ rows'[Row(w)'].status # "QUEUED"
               /\ rows'[Row(w)'].owner \in {w, Nobody}
               /\ \A v \in Workers : Row(v)' = Row(w)' => v = w
    <3>1. Row(u)' = i /\ \A v \in Workers \ {u} : Row(v)' = Row(v)
      BY <2>1, <2>3 DEF Others, Claimed
    <3>2. \A v \in Workers : Row(v) # i
      BY <2>3, HandIs DEF Held, Claimed
    <3>3. \A v \in Workers : Row(v) # 0 => Row(v) \in Ids \ {i}
      BY <3>2, HandIs
    <3> QED BY <1>1, <2>3, <3>1, <3>2, <3>3 DEF Held, Claimed
  <2>4. ASSUME NEW u \in Workers, Crash(u)
        PROVE  /\ rows'[Row(w)'].status # "QUEUED"
               /\ rows'[Row(w)'].owner \in {w, Nobody}
               /\ \A v \in Workers : Row(v)' = Row(w)' => v = w
    <3>1. Row(u)' = 0 /\ \A v \in Workers \ {u} : Row(v)' = Row(v)
      BY <2>1, <2>4, CrashGood DEF Others, Idle
    <3>2. Row(w) \in Ids /\ w # u
      BY <1>1, <3>1, HandIs
    <3> QED BY <1>1, <2>4, <3>1, <3>2, CrashGood, CrawlAssumption DEF Held
  <2> QED BY <2>2, <2>3, <2>4, StepCalm
<1> QED BY <1>1 DEF Held

LEMMA CrawlHeld == CrawlSpec => []Held
<1>1. CrawlInit => Held
  BY DEF CrawlInit, Held, Row, Idle
<1>2. TypeInv /\ Held /\ [CrawlNext]_crawlVars => Held'
  BY StepHeld
<1> QED BY <1>1, <1>2, CrawlSound, PTL DEF CrawlSpec

(* However leases run out under a worker that is still busy and whoever    *)
(* recovers and claims next, no execution is in the hands of two workers.  *)
THEOREM CrawlOneWorkerEach == CrawlSpec => []OneWorkerEach
<1>1. Held => OneWorkerEach
  BY DEF Held, OneWorkerEach
<1> QED BY <1>1, CrawlHeld, PTL

-----------------------------------------------------------------------------
(* Retries.                                                                *)

Chained ==
    \A i \in Ids :
        /\ rows[i].automatic => rows[i].trigger = "RETRY"
        /\ rows[i].trigger = "RETRY" =>
              /\ rows[i].retryOf \in Ids
              /\ rows[rows[i].retryOf].status \in {"FAILED", "TIMEOUT"}
              /\ rows[rows[i].retryOf].reason = "retryable"
              /\ rows[i].attempt = rows[rows[i].retryOf].attempt + 1

RetriedOnce ==
    \A i, j \in Ids :
        rows[i].automatic /\ rows[j].automatic /\ rows[i].retryOf = rows[j].retryOf => i = j

LEMMA StepChained ==
    ASSUME TypeInv, Chained, RetriedOnce, [CrawlNext]_crawlVars
    PROVE  Chained' /\ RetriedOnce'
<1>1. RowsMove
  BY StepCalm DEF Good
<1>2. ASSUME NEW p \in Ids, rows[p].status \in {"FAILED", "TIMEOUT"}
      PROVE  /\ p \in Ids' /\ rows'[p].status = rows[p].status /\ rows'[p].reason = rows[p].reason
             /\ rows'[p].attempt = rows[p].attempt
  BY <1>1, <1>2 DEF RowsMove, Moves, Unchanged, Fixed, Finished
<1>3. ASSUME NEW i \in Ids
      PROVE  /\ rows'[i].automatic = rows[i].automatic /\ rows'[i].trigger = rows[i].trigger
             /\ rows'[i].retryOf = rows[i].retryOf /\ rows'[i].attempt = rows[i].attempt
  BY <1>1 DEF RowsMove, Moves, Fixed
<1>4. ASSUME NEW i \in Ids' \ Ids
      PROVE  IsFirst(rows'[i]) \/ IsRetry(rows'[i])
  BY <1>1 DEF RowsMove
<1>5. ASSUME NEW i \in Ids'
      PROVE  /\ rows'[i].automatic => rows'[i].trigger = "RETRY"
             /\ rows'[i].trigger = "RETRY" =>
                   /\ rows'[i].retryOf \in Ids'
                   /\ rows'[rows'[i].retryOf].status \in {"FAILED", "TIMEOUT"}
                   /\ rows'[rows'[i].retryOf].reason = "retryable"
                   /\ rows'[i].attempt = rows'[rows'[i].retryOf].attempt + 1
  <2>1. CASE i \in Ids
    BY <1>2, <1>3, <2>1 DEF Chained
  <2>2. CASE i \notin Ids /\ IsFirst(rows'[i])
    BY <2>2 DEF IsFirst
  <2>3. CASE i \notin Ids /\ IsRetry(rows'[i])
    BY <1>2, <2>3 DEF IsRetry, Retryable
  <2> QED BY <1>4, <2>1, <2>2, <2>3
<1>6. ASSUME NEW i \in Ids, NEW j \in Ids' \ Ids, rows'[i].automatic, rows'[j].automatic
      PROVE  rows'[i].retryOf # rows'[j].retryOf
  <2>1. IsRetry(rows'[j])
    BY <1>4, <1>6 DEF IsFirst
  <2>2. PICK p \in Ids : rows'[j].retryOf = p /\ RetryNeeded(p)
    BY <1>6, <2>1 DEF IsRetry
  <2>3. i \notin AutomaticRetries(p)
    BY <2>2 DEF RetryNeeded
  <2> QED BY <1>3, <1>6, <2>2, <2>3 DEF AutomaticRetries
<1>7. ASSUME NEW i \in Ids', NEW j \in Ids', rows'[i].automatic, rows'[j].automatic,
             rows'[i].retryOf = rows'[j].retryOf
      PROVE  i = j
  <2>1. CASE i \in Ids /\ j \in Ids
    BY <1>3, <1>7, <2>1 DEF RetriedOnce
  <2>2. CASE i \notin Ids /\ j \notin Ids
    BY <1>1, <2>2 DEF RowsMove
  <2> QED BY <1>6, <1>7, <2>1, <2>2
<1> QED BY <1>5, <1>7 DEF Chained, RetriedOnce

LEMMA CrawlChained == CrawlSpec => [](Chained /\ RetriedOnce)
<1>1. CrawlInit => Chained /\ RetriedOnce
  BY DEF CrawlInit, Ids, Chained, RetriedOnce
<1>2. TypeInv /\ (Chained /\ RetriedOnce) /\ [CrawlNext]_crawlVars => (Chained /\ RetriedOnce)'
  BY StepChained
<1> QED BY <1>1, <1>2, CrawlSound, PTL DEF CrawlSpec

(* Retries form chains within the limit of attempts, and recovery, workers *)
(* and requests together never make two automatic retries of an execution. *)
THEOREM CrawlRetriesFormChains == CrawlSpec => []RetriesFormChains
<1>1. ASSUME TypeInv, Chained, RetriedOnce, NEW i \in Ids
      PROVE  /\ Cardinality(AutomaticRetries(i)) <= 1
             /\ rows[i].attempt <= MaxAttempts
             /\ rows[i].trigger = "RETRY" =>
                   LET previous == rows[rows[i].retryOf]
                   IN  /\ previous.status \in {"FAILED", "TIMEOUT"}
                       /\ previous.reason = "retryable"
                       /\ rows[i].attempt = previous.attempt + 1
  <2>1. rows[i].attempt \in 1..MaxAttempts /\ MaxAttempts \in Nat
    BY <1>1, RowTyped, CrawlAssumption DEF TypeInv
  <2>2. Cardinality(AutomaticRetries(i)) <= 1
    <3>1. CASE AutomaticRetries(i) = {}
      BY <3>1, FS_EmptySet
    <3>2. CASE AutomaticRetries(i) # {}
      <4>1. PICK r : r \in AutomaticRetries(i)
        BY <3>2
      <4>2. AutomaticRetries(i) = {r}
        BY <1>1, <4>1 DEF AutomaticRetries, RetriedOnce
      <4> QED BY <4>2, FS_Singleton
    <3> QED BY <3>1, <3>2
  <2> QED BY <1>1, <2>1, <2>2 DEF Chained
<1>2. TypeInv /\ Chained /\ RetriedOnce => RetriesFormChains
  BY <1>1 DEF RetriesFormChains
<1> QED BY <1>2, CrawlSound, CrawlChained, PTL

-----------------------------------------------------------------------------
(* The failure policy.                                                     *)

(* An execution that has failed and will never be retried automatically,  *)
(* in the rows R; and one of an earlier job that stops the later ones.     *)
NotRetried(R, i) == \A r \in DOMAIN R : ~(R[r].retryOf = i /\ R[r].automatic)
RetriesLeft(R, open, i) ==
    /\ R[i].reason = "retryable" /\ R[i].attempt < MaxAttempts /\ open
    /\ Policy[R[i].job] \in {"RETRY_THEN_CONTINUE", "RETRY_THEN_STOP"}
Settled(R, open, i) ==
    /\ i \in DOMAIN R /\ R[i].status \in {"FAILED", "TIMEOUT"}
    /\ NotRetried(R, i) /\ ~RetriesLeft(R, open, i)

Stops(R, i, f) ==
    /\ R[i].job < R[f].job /\ R[i].window = R[f].window
    /\ Policy[R[i].job] \in {"STOP_CYCLE", "RETRY_THEN_STOP"}

PolicyApplied ==
    /\ \A f \in Ids : rows[f].reason = "policy" =>
          \E i \in Ids : Settled(rows, cycleOpen, i) /\ Stops(rows, i, f)
    /\ \A w \in Workers : worker[w].at = "retry" => rows[worker[w].row].status = "FAILED"
    /\ \A w \in Workers : worker[w].at = "stopping" =>
          /\ Settled(rows, cycleOpen, worker[w].row)
          /\ \A f \in worker[w].todo : Stops(rows, worker[w].row, f)

LEMMA StepPolicy ==
    ASSUME TypeInv, Chained, PolicyApplied, [CrawlNext]_crawlVars
    PROVE  PolicyApplied'
<1>1. RowsMove
  BY StepCalm DEF Good
<1>2. /\ \A i \in Ids : Moves(rows[i], rows'[i])
      /\ \A i \in Ids : Fixed(rows[i], rows'[i])
      /\ \A i \in Ids : rows[i].status \in Finished => Unchanged(rows[i], rows'[i])
      /\ Ids \subseteq Ids'
  BY <1>1 DEF RowsMove, Moves
<1>3. ASSUME NEW i \in Ids, NotRetried(rows, i), ~RetryNeeded(i)
      PROVE  NotRetried(rows', i)
  <2>1. SUFFICES ASSUME NEW r \in Ids', rows'[r].retryOf = i, rows'[r].automatic PROVE FALSE
    BY DEF NotRetried, Ids
  <2>2. CASE r \in Ids
    BY <1>2, <1>3, <2>1, <2>2 DEF NotRetried, Fixed, Ids
  <2>3. CASE r \notin Ids
    <3>1. IsRetry(rows'[r])
      BY <1>1, <2>1, <2>3 DEF RowsMove, IsFirst
    <3> QED BY <1>3, <2>1, <3>1 DEF IsRetry
  <2> QED BY <2>2, <2>3
<1>4. ASSUME NEW i, Settled(rows, cycleOpen, i) PROVE Settled(rows', cycleOpen', i)
  <2>1. i \in Ids /\ ~RetryNeeded(i) /\ rows[i].status \in Finished
    BY <1>4 DEF Settled, RetriesLeft, RetryNeeded, Retryable, AttemptLeft, Ids, Finished
  <2>2. NotRetried(rows', i)
    BY <1>3, <1>4, <2>1 DEF Settled
  <2>3. Unchanged(rows[i], rows'[i]) /\ Fixed(rows[i], rows'[i]) /\ i \in DOMAIN rows'
    BY <1>2, <2>1 DEF Ids
  <2>4. cycleOpen' => cycleOpen
    BY Switches DEF TypeInv
  <2> QED BY <1>4, <2>2, <2>3, <2>4 DEF Settled, RetriesLeft, Unchanged, Fixed
<1>5. ASSUME NEW i \in Ids, NEW f \in Ids, Stops(rows, i, f) PROVE Stops(rows', i, f)
  BY <1>2, <1>5 DEF Stops, Fixed
<1>6. ASSUME NEW f \in Ids', rows'[f].reason = "policy"
      PROVE  \E i \in Ids' : Settled(rows', cycleOpen', i) /\ Stops(rows', i, f)
  <2>1. f \in Ids
    BY <1>1, <1>6 DEF RowsMove, IsNew
  <2>2. \/ rows[f].reason = "policy"
        \/ \E w \in Workers : worker[w].at = "stopping" /\ f \in worker[w].todo /\ Row(w) \in Ids
    <3>1. ASSUME NEW w \in Workers, StopFollowing(w)
          PROVE  PolicyKept(rows[f], rows'[f]) \/ (worker[w].at = "stopping" /\ f \in worker[w].todo /\ Row(w) \in Ids)
      BY <2>1, <3>1, StopFollowingGood, HandIs DEF Busy
    <3>2. ASSUME NEW w \in Workers,
                 ClaimNextExecution(w) \/ Crash(w) \/ RecordFailure(w) \/ RetryOrStop(w) \/ ListFollowing(w)
          PROVE  PolicyKept(rows[f], rows'[f])
      BY <2>1, <3>2, ClaimGood, CrashGood, RecordFailureGood, RetryOrStopGood, ListFollowingGood
         DEF RowsAdvance, Allowed, PolicyKept
    <3>3. Ordinary => PolicyKept(rows[f], rows'[f])
      BY <2>1 DEF Ordinary, RowsAdvance, Allowed
    <3> QED BY <1>6, <3>1, <3>2, <3>3, StepKinds DEF Extraordinary, PolicyKept
  <2>3. PICK i \in Ids : Settled(rows, cycleOpen, i) /\ Stops(rows, i, f)
    <3>1. CASE rows[f].reason = "policy"
      BY <2>1, <3>1 DEF PolicyApplied
    <3>2. ASSUME NEW w \in Workers, worker[w].at = "stopping", f \in worker[w].todo, Row(w) \in Ids
          PROVE  \E i \in Ids : Settled(rows, cycleOpen, i) /\ Stops(rows, i, f)
      BY <3>2 DEF PolicyApplied, Row
    <3> QED BY <2>2, <3>1, <3>2
  <2>4. Settled(rows', cycleOpen', i)
    BY <1>4, <2>3
  <2>5. Stops(rows', i, f)
    BY <1>5, <2>1, <2>3
  <2> QED BY <1>2, <2>4, <2>5
<1> DEFINE Settles(w) == /\ Settled(rows', cycleOpen', worker'[w].row)
                         /\ \A f \in worker'[w].todo : Stops(rows', worker'[w].row, f)
<1>7. ASSUME NEW w \in Workers
      PROVE  /\ worker'[w].at = "retry" => rows'[worker'[w].row].status = "FAILED"
             /\ worker'[w].at = "stopping" => Settles(w)
  <2>1. /\ worker[w].at \in {"retry", "stopping"} => Row(w) \in Ids
        /\ worker[w].todo \subseteq Ids /\ Row(w) = worker[w].row
    BY HandIs DEF Busy, Hand, Row
  <2>2. CASE worker'[w] = worker[w]
    BY <1>2, <1>4, <1>5, <2>1, <2>2 DEF PolicyApplied, Unchanged, Finished
  <2>3. ASSUME RecordFailure(w)
        PROVE  /\ worker'[w].at = "retry" => rows'[worker'[w].row].status = "FAILED"
               /\ worker'[w].at = "stopping" => Settles(w)
    <3>1. CASE worker'[w] = Idle
      BY <3>1 DEF Idle
    <3>2. CASE worker'[w] # Idle
      <4> DEFINE i == Row(w)
      <4>1. /\ worker'[w].row = i /\ rows'[i].status = "FAILED" /\ rows[i].status = "RUNNING"
            /\ worker'[w].at = "stopping" => rows'[i].reason = "fatal"
            /\ worker'[w].todo = {}
        BY <2>3, <3>2, RecordFailureGood
      <4>2. i \in Ids
        BY <2>3, HandIs DEF RecordFailure, Busy
      <4>3. NotRetried(rows, i) /\ ~RetryNeeded(i)
        BY <4>1 DEF NotRetried, Ids, Chained, RetryNeeded, Retryable
      <4>4. NotRetried(rows', i)
        BY <1>3, <4>2, <4>3
      <4> HIDE DEF i
      <4>5. worker'[w].at = "stopping" => ~RetriesLeft(rows', cycleOpen', i)
        BY <4>1 DEF RetriesLeft
      <4>6. i \in DOMAIN rows'
        BY <1>2, <4>2 DEF Ids
      <4> QED BY <4>1, <4>4, <4>5, <4>6 DEF Settled
    <3> QED BY <3>1, <3>2
  <2>4. ASSUME RetryOrStop(w)
        PROVE  /\ worker'[w].at # "retry"
               /\ worker'[w].at = "stopping" => Settles(w)
    <3>1. CASE worker'[w] = Idle
      BY <3>1 DEF Idle
    <3>2. CASE worker'[w] # Idle
      <4>1. /\ ~RetryExists(Row(w)) /\ worker'[w].at = "stopping"
            /\ worker'[w].row = Row(w) /\ worker'[w].todo = {}
        BY <2>4, <3>2, RetryOrStopGood
      <4>2. worker[w].at = "retry"
        BY <2>4 DEF RetryOrStop
      <4>3. Settled(rows, cycleOpen, Row(w))
        <5>1. Row(w) \in Ids /\ rows[Row(w)].status = "FAILED"
          BY <2>1, <4>2 DEF PolicyApplied
        <5>2. NotRetried(rows, Row(w)) /\ ~RetryNeeded(Row(w)) /\ AutomaticRetries(Row(w)) = {}
          BY <4>1 DEF RetryExists, AutomaticRetries, NotRetried, Ids
        <5> QED BY <5>1, <5>2 DEF Settled, RetriesLeft, RetryNeeded, Retryable, AttemptLeft, Ids
      <4> QED BY <1>4, <4>1, <4>3
    <3> QED BY <3>1, <3>2
  <2>5. ASSUME ListFollowing(w)
        PROVE  /\ worker'[w].at # "retry"
               /\ worker'[w].at = "stopping" => Settles(w)
    <3>1. CASE worker'[w] = Idle
      BY <3>1 DEF Idle
    <3>2. CASE worker'[w] # Idle
      <4>1. /\ Policy[rows[Row(w)].job] \in {"STOP_CYCLE", "RETRY_THEN_STOP"}
            /\ worker[w].at = "stopping" /\ worker'[w].at = "stopping"
            /\ worker'[w].row = Row(w) /\ worker'[w].todo = FollowingScheduledExecutions(Row(w))
        BY <2>5, <3>2, ListFollowingGood
      <4>2. Row(w) \in Ids /\ Settled(rows, cycleOpen, Row(w))
        BY <2>1, <4>1 DEF PolicyApplied
      <4>3. ASSUME NEW f \in FollowingScheduledExecutions(Row(w)) PROVE f \in Ids /\ Stops(rows, Row(w), f)
        <5>1. f \in Ids /\ rows[f].window = rows[Row(w)].window /\ rows[f].job > rows[Row(w)].job
          BY DEF FollowingScheduledExecutions
        <5>2. rows[f].job \in Nat /\ rows[Row(w)].job \in Nat
          BY <4>2, <5>1, RowTyped, CrawlAssumption DEF TypeInv
        <5> QED BY <4>1, <5>1, <5>2 DEF Stops
      <4> QED BY <1>4, <1>5, <4>1, <4>2, <4>3
    <3> QED BY <3>1, <3>2
  <2>6. ASSUME StopFollowing(w)
        PROVE  /\ worker'[w].at # "retry"
               /\ worker'[w].at = "stopping" => Settles(w)
    <3>1. CASE worker'[w] = Idle
      BY <3>1 DEF Idle
    <3>2. CASE worker'[w] # Idle
      <4>1. /\ worker[w].at = "stopping" /\ worker'[w].at = "stopping"
            /\ worker'[w].row = Row(w) /\ worker'[w].todo \subseteq worker[w].todo
        BY <2>6, <3>2, StopFollowingGood
      <4> QED BY <1>4, <1>5, <2>1, <4>1 DEF PolicyApplied
    <3> QED BY <3>1, <3>2
  <2>7. ASSUME NEW u \in Workers, u # w,
               \/ ClaimNextExecution(u) \/ Crash(u) \/ RecordFailure(u)
               \/ RetryOrStop(u) \/ ListFollowing(u) \/ StopFollowing(u)
        PROVE  worker'[w] = worker[w]
    <3>1. Others(u)
      BY <2>7, ClaimGood, CrashGood, RecordFailureGood, RetryOrStopGood, ListFollowingGood, StopFollowingGood
    <3> QED BY <2>7, <3>1 DEF Others
  <2>8. ASSUME ClaimNextExecution(w) \/ Crash(w) \/ Ordinary
        PROVE  worker'[w] = worker[w] \/ worker'[w].at \notin {"retry", "stopping"}
    BY <2>8, ClaimGood, CrashGood DEF Ordinary, Claimed, Idle
  <2>9. CASE worker'[w] # worker[w] /\ Extraordinary
    BY <2>3, <2>4, <2>5, <2>6, <2>7, <2>8, <2>9 DEF Extraordinary
  <2> QED BY <2>2, <2>8, <2>9, StepKinds
<1> QED BY <1>6, <1>7 DEF PolicyApplied

(* Whatever is retried, recovered, cancelled and restarted in between, an  *)
(* execution is skipped by the failure policy only behind a failed one of  *)
(* an earlier job of its window that is not tried again.                   *)
THEOREM CrawlStoppedByFailure == CrawlSpec => []StoppedByFailure
<1>1. CrawlInit => PolicyApplied
  <2>1. ASSUME CrawlInit, NEW w \in Workers PROVE worker[w].at = "idle"
    BY <2>1 DEF CrawlInit, Idle
  <2>2. CrawlInit => Ids = {}
    BY DEF CrawlInit, Ids
  <2> QED BY <2>1, <2>2 DEF PolicyApplied
<1>2. TypeInv /\ (Chained /\ RetriedOnce) /\ PolicyApplied /\ [CrawlNext]_crawlVars => PolicyApplied'
  BY StepPolicy
<1>3. PolicyApplied => StoppedByFailure
  BY DEF PolicyApplied, StoppedByFailure, Settled, Stops, NotRetried, AutomaticRetries, Ids
<1> QED BY <1>1, <1>2, <1>3, CrawlSound, CrawlChained, PTL DEF CrawlSpec
-----------------------------------------------------------------------------
(* Results are staged before an execution is a success.                    *)

(* An execution that says SUCCESS has its records in the staging table.    *)
ResultsStaged == \A i \in Ids : rows[i].status = "SUCCESS" => rows[i].staged

(* A worker past the staging of its row, which it alone did; who ends an   *)
(* execution without that ends it otherwise.                               *)
HandsStaged ==
    \A w \in Workers :
        /\ worker[w].at = "staged" => rows[Row(w)].staged
        /\ worker[w].at = "ending" => worker[w].outcome # "SUCCESS"

(* What is staged stays staged; only who has staged records a success.     *)
Succeeds(i) == \E w \in Workers : worker[w].at = "staged" /\ Row(w) = i
Keeps(i) ==
    /\ rows[i].staged => rows'[i].staged
    /\ rows'[i].status = "SUCCESS" => rows[i].status = "SUCCESS" \/ Succeeds(i)

LEMMA QueueKeepsStaged ==
    ASSUME TypeInv, NEW i \in Ids,
           \/ \E job \in Jobs, window \in Windows : CreateScheduledExecution(job, window)
           \/ \E job \in Jobs : CreateManualExecution(job) \/ SetEnabled(job)
           \/ \E j \in Ids : RetryExecution(j) \/ CancelExecution(j) \/ LeaseExpires(j)
           \/ CycleLeavesOpen
           \/ TimePasses
    PROVE  Keeps(i) /\ UNCHANGED worker
<1>1. /\ rows[i] \in Execution /\ rows \in Seq(Execution)
      /\ \A e : i \in DOMAIN rows => Append(rows, e)[i] = rows[i]
  BY RowTyped DEF TypeInv, CrawlTypeOK, Ids
<1>2. CASE \E job \in Jobs, window \in Windows : CreateScheduledExecution(job, window)
  BY <1>1, <1>2 DEF CreateScheduledExecution, Keeps, Ids
<1>3. CASE \E job \in Jobs : CreateManualExecution(job)
  BY <1>1, <1>3 DEF CreateManualExecution, Keeps, Ids
<1>4. CASE \E job \in Jobs : SetEnabled(job)
  BY <1>4 DEF SetEnabled, Keeps
<1>5. CASE \E j \in Ids : RetryExecution(j)
  BY <1>1, <1>5 DEF RetryExecution, Keeps, Ids
<1>6. ASSUME NEW j \in Ids, CancelExecution(j) PROVE Keeps(i) /\ UNCHANGED worker
  <2>1. PICK e : e = [rows[j] EXCEPT !.status = "CANCELLED", !.owner = Nobody, !.leased = FALSE]
    OBVIOUS
  <2>2. rows' = [rows EXCEPT ![j] = e] /\ UNCHANGED worker
    BY <1>6, <2>1 DEF CancelExecution
  <2>3. rows[j] \in Execution /\ rows \in [Ids -> Execution]
    BY RowTyped, RowsAsTheyAre DEF TypeInv
  <2>4. e.status = "CANCELLED" /\ e.staged = rows[j].staged
    BY <2>1, <2>3 DEF Execution
  <2> QED BY <2>2, <2>3, <2>4 DEF Keeps
<1>7. ASSUME NEW j \in Ids, LeaseExpires(j) PROVE Keeps(i) /\ UNCHANGED worker
  BY <1>1, <1>7 DEF LeaseExpires, Keeps, Ids, Execution
<1>8. CASE CycleLeavesOpen
  BY <1>8 DEF CycleLeavesOpen, Keeps
<1>9. CASE TimePasses
  BY <1>1, <1>9 DEF TimePasses, Keeps, Execution
<1> QED BY <1>2, <1>3, <1>4, <1>5, <1>6, <1>7, <1>8, <1>9

LEMMA RetryKeepsStaged ==
    ASSUME TypeInv, NEW i \in Ids, NEW j \in Ids, ScheduleAutomaticRetry(j)
    PROVE  Keeps(i)
<1>1. rows[i] \in Execution /\ rows \in Seq(Execution) /\ Ids = 1..Len(rows)
  BY RowTyped DEF TypeInv, CrawlTypeOK, Ids
<1>2. CASE ~RetryNeeded(j)
  BY <1>2 DEF ScheduleAutomaticRetry, Keeps
<1>3. CASE RetryNeeded(j)
  <2> DEFINE g == [f \in Ids |-> IF f \in FollowingScheduledExecutions(j)
                                 THEN [rows[f] EXCEPT !.wait = 2] ELSE rows[f]]
  <2>1. g[i].staged = rows[i].staged /\ g[i].status = rows[i].status
    BY <1>1 DEF Execution
  <2>2. g \in [1..Len(rows) -> Execution]
    <3>1. ASSUME NEW f \in Ids PROVE g[f] \in Execution
      BY RowTyped DEF TypeInv, Execution
    <3> QED BY <1>1, <3>1
  <2>3. rows' = Append(g, NewRetry(j, TRUE))
    BY <1>3 DEF ScheduleAutomaticRetry
  <2> HIDE DEF g
  <2>4. g \in Seq(Execution) /\ i \in 1..Len(g)
    BY <1>1, <2>2, SeqDef
  <2>5. ASSUME NEW e \in Execution PROVE Append(g, e)[i] = g[i]
    BY <2>4, AppendProperties
  <2>6. NewRetry(j, TRUE) \in Execution
    BY <1>3, RetryIsNew DEF TypeInv, RetryNeeded
  <2>7. rows'[i] = g[i]
    BY <2>3, <2>5, <2>6
  <2> QED BY <2>1, <2>7 DEF Keeps
<1> QED BY <1>2, <1>3

LEMMA TransitionKeepsStaged ==
    ASSUME TypeInv, NEW i \in Ids, NEW j \in Ids, NEW owner, NEW status, NEW reason,
           TransitionExecution(j, owner, status, reason)
    PROVE  /\ rows[i].staged => rows'[i].staged
           /\ rows'[i].status = "SUCCESS" => rows[i].status = "SUCCESS" \/ (i = j /\ status = "SUCCESS")
<1>1. rows[i] \in Execution /\ rows[j] \in Execution /\ rows \in [Ids -> Execution]
  BY RowTyped, RowsAsTheyAre DEF TypeInv
<1>2. PICK e : e = [rows[j] EXCEPT !.status = status, !.owner = Nobody, !.leased = FALSE, !.reason = reason]
  OBVIOUS
<1>3. e.status = status /\ e.staged = rows[j].staged
  BY <1>1, <1>2 DEF Execution
<1>4. rows' = rows \/ rows' = [rows EXCEPT ![j] = e]
  BY <1>2 DEF TransitionExecution
<1> QED BY <1>1, <1>3, <1>4

(* The state a worker is left in.                                          *)
HandKept(w) ==
    /\ worker'[w].at = "staged" =>
          /\ worker'[w].row = worker[w].row
          /\ worker[w].at = "staged" \/ (Stage(w) /\ MayStage(w))
    /\ worker'[w].at = "ending" => worker'[w].outcome # "SUCCESS" \/ worker'[w] = worker[w]

LEMMA WorkerKeepsStaged ==
    ASSUME TypeInv, HandsStaged, NEW i \in Ids, NEW w \in Workers,
           WorkerStep(w) \/ HeartbeatExecution(w) \/ Crash(w) \/ StatementFails(w)
    PROVE  Keeps(i)
<1>1. /\ rows[i] \in Execution /\ rows \in [Ids -> Execution]
      /\ worker[w] \in Hand /\ Sound(worker[w]) /\ (worker[w].at \in Busy => Row(w) \in Ids)
      /\ Row(w) # 0 => Row(w) \in Ids
  BY RowTyped, RowsAsTheyAre, HandIs DEF TypeInv
<1>2. CASE RecoverExpiredLeases(w)
  <2>1. rows'[i] = IF i \in Abandoned
                   THEN [rows[i] EXCEPT !.status = "TIMEOUT", !.owner = Nobody, !.reason = "retryable"]
                   ELSE rows[i]
    BY <1>2 DEF RecoverExpiredLeases
  <2> QED BY <1>1, <2>1 DEF Keeps, Execution
<1>3. CASE RecoverNext(w)
  <2>1. worker[w].todo \subseteq Ids
    BY <1>1 DEF Hand
  <2> QED BY <1>3, <2>1, RetryKeepsStaged DEF RecoverNext
<1>4. CASE ClaimNextExecution(w)
  <2>1. ASSUME NEW j \in DueExecutions, rows' = [rows EXCEPT ![j].status = "RUNNING", ![j].owner = w, ![j].leased = TRUE]
        PROVE  Keeps(i)
    <3>1. rows' = [rows EXCEPT ![j] = [rows[j] EXCEPT !.status = "RUNNING", !.owner = w, !.leased = TRUE]]
      BY <2>1
    <3> QED BY <1>1, <3>1 DEF Keeps, Execution
  <2>2. ASSUME NEW j \in DueExecutions, rows' = [rows EXCEPT ![j].status = "SKIPPED", ![j].reason = "fatal"]
        PROVE  Keeps(i)
    <3>1. rows' = [rows EXCEPT ![j] = [rows[j] EXCEPT !.status = "SKIPPED", !.reason = "fatal"]]
      BY <2>2
    <3> QED BY <1>1, <3>1 DEF Keeps, Execution
  <2> QED BY <1>4, <2>1, <2>2 DEF ClaimNextExecution, Keeps
<1>5. CASE Execute(w) \/ Crawl(w) \/ ListFollowing(w) \/ StatementFails(w)
  BY <1>5 DEF Execute, Crawl, ListFollowing, StatementFails, Keeps
<1>6. CASE Stage(w)
  <2>1. rows' = rows \/ rows' = [rows EXCEPT ![Row(w)] = [rows[Row(w)] EXCEPT !.staged = TRUE]]
    BY <1>6 DEF Stage
  <2> QED BY <1>1, <2>1 DEF Keeps, Execution
<1>7. CASE EndExecution(w)
  <2>1. Row(w) \in Ids /\ worker[w].at \in {"ending", "staged"}
    BY <1>1, <1>7 DEF EndExecution, Busy
  <2>2. worker[w].outcome = "SUCCESS" => worker[w].at = "staged"
    BY <2>1 DEF HandsStaged
  <2> QED BY <1>7, <2>1, <2>2, TransitionKeepsStaged DEF EndExecution, Keeps, Succeeds
<1>8. CASE RecordFailure(w)
  <2>1. Row(w) \in Ids
    BY <1>1, <1>8 DEF RecordFailure, Busy
  <2> QED BY <1>8, <2>1, TransitionKeepsStaged DEF RecordFailure, Keeps
<1>9. CASE RetryOrStop(w)
  <2>1. Row(w) \in Ids
    BY <1>1, <1>9 DEF RetryOrStop, Busy
  <2> QED BY <1>9, <2>1, RetryKeepsStaged DEF RetryOrStop
<1>10. CASE StopFollowing(w)
  <2>1. PICK f \in worker[w].todo : rows' = rows \/ rows' = [rows EXCEPT ![f].status = "SKIPPED", ![f].reason = "policy"]
    BY <1>10 DEF StopFollowing
  <2>2. f \in Ids
    BY <1>1 DEF Hand
  <2>3. PICK e : e = [rows[f] EXCEPT !.status = "SKIPPED", !.reason = "policy"]
    OBVIOUS
  <2>4. rows' = rows \/ rows' = [rows EXCEPT ![f] = e]
    BY <2>1, <2>3
  <2>5. e.status = "SKIPPED" /\ e.staged = rows[f].staged
    BY <1>1, <2>2, <2>3 DEF Execution
  <2> QED BY <1>1, <2>2, <2>4, <2>5 DEF Keeps
<1>11. CASE HeartbeatExecution(w)
  <2>1. rows' = [rows EXCEPT ![Row(w)] = [rows[Row(w)] EXCEPT !.leased = TRUE]]
    BY <1>11 DEF HeartbeatExecution
  <2> QED BY <1>1, <2>1 DEF Keeps, Execution
<1>12. CASE Crash(w)
  <2>1. rows'[i] = IF rows[i].owner = w THEN [rows[i] EXCEPT !.owner = Dead] ELSE rows[i]
    BY <1>12 DEF Crash
  <2> QED BY <1>1, <2>1 DEF Keeps, Execution
<1> QED BY <1>2, <1>3, <1>4, <1>5, <1>6, <1>7, <1>8, <1>9, <1>10, <1>11, <1>12 DEF WorkerStep

Goes(w, at, outcome) == worker' = [worker EXCEPT ![w].at = at, ![w].outcome = outcome]
Turns(w, at, todo) == worker' = [worker EXCEPT ![w].at = at, ![w].todo = todo]

LEMMA HandsKept ==
    ASSUME TypeInv, NEW w \in Workers, NEW v \in Workers,
           WorkerStep(w) \/ HeartbeatExecution(w) \/ Crash(w) \/ StatementFails(w)
    PROVE  HandKept(v)
<1>1. /\ worker[w] \in Hand /\ worker \in [Workers -> Hand]
      /\ Idle.at = "idle"
  BY HandIs DEF Idle, TypeInv, CrawlTypeOK, Hand, Places
<1>2. CASE v # w
  <2>1. worker'[v] = worker[v]
    BY <1>1, <1>2 DEF WorkerStep, RecoverExpiredLeases, RecoverNext, ClaimNextExecution, Execute, Crawl, Stage,
           EndExecution, RecordFailure, RetryOrStop, ListFollowing, StopFollowing, HeartbeatExecution, Crash,
           StatementFails, Go, Stop
  <2> QED BY <2>1 DEF HandKept
<1>3. CASE v = w
  <2> SUFFICES HandKept(w)
    BY <1>3
  <2>1. worker'[w].at \notin {"staged", "ending"} => HandKept(w)
    BY DEF HandKept
  <2>2. Stop(w) => HandKept(w)
    BY <1>1, <2>1 DEF Stop
  <2>3. ASSUME NEW at, at \notin {"staged", "ending"}, Go(w, at) PROVE HandKept(w)
    <3>1. worker'[w] = [worker[w] EXCEPT !.at = at]
      BY <1>1, <2>3 DEF Go
    <3> QED BY <1>1, <2>1, <2>3, <3>1 DEF Hand
  <2>4. ASSUME NEW at, NEW outcome, Goes(w, at, outcome)
        PROVE  worker'[w].at = at /\ worker'[w].outcome = outcome /\ worker'[w].row = worker[w].row
    <3>1. worker'[w] = [worker[w] EXCEPT !.at = at, !.outcome = outcome]
      BY <1>1, <2>4 DEF Goes
    <3> QED BY <1>1, <3>1 DEF Hand
  <2>5. ASSUME NEW at, at \notin {"staged", "ending"}, NEW todo, Turns(w, at, todo) PROVE HandKept(w)
    <3>1. worker'[w] = [worker[w] EXCEPT !.at = at, !.todo = todo]
      BY <1>1, <2>5 DEF Turns
    <3> QED BY <1>1, <2>1, <2>5, <3>1 DEF Hand
  <2>6. ASSUME NEW outcome, Goes(w, "failed", outcome) PROVE HandKept(w)
    BY <2>1, <2>4, <2>6
  <2>7. CASE RecoverExpiredLeases(w)
    <3>1. PICK at : at = IF Abandoned = {} THEN "polling" ELSE "recovering"
      OBVIOUS
    <3>2. at \notin {"staged", "ending"} /\ Turns(w, at, Abandoned)
      BY <2>7, <3>1 DEF RecoverExpiredLeases, Turns
    <3> QED BY <2>5, <3>2
  <2>8. CASE RecoverNext(w)
    <3>1. PICK i \in worker[w].todo :
            worker' = [worker EXCEPT ![w].at = IF worker[w].todo \ {i} = {} THEN "polling" ELSE "recovering",
                                     ![w].todo = worker[w].todo \ {i}]
      BY <2>8 DEF RecoverNext
    <3>2. PICK at : at = IF worker[w].todo \ {i} = {} THEN "polling" ELSE "recovering"
      OBVIOUS
    <3>3. at \notin {"staged", "ending"} /\ Turns(w, at, worker[w].todo \ {i})
      BY <3>1, <3>2 DEF Turns
    <3> QED BY <2>5, <3>3
  <2>9. CASE ClaimNextExecution(w)
    <3>1. ASSUME NEW i, worker' = [worker EXCEPT ![w] = [Idle EXCEPT !.at = "execute", !.row = i]] PROVE HandKept(w)
      <4>1. PICK x : x = [Idle EXCEPT !.at = "execute", !.row = i]
        OBVIOUS
      <4>2. x.at = "execute"
        BY <4>1 DEF Idle
      <4>3. worker'[w] = x
        BY <1>1, <3>1, <4>1
      <4> QED BY <2>1, <4>2, <4>3
    <3>2. \/ Stop(w)
          \/ \E i \in DueExecutions : worker' = [worker EXCEPT ![w] = [Idle EXCEPT !.at = "execute", !.row = i]]
      BY <2>9 DEF ClaimNextExecution
    <3> QED BY <2>2, <3>1, <3>2
  <2>10. CASE Execute(w)
    <3>1. Stop(w) \/ Go(w, "crawling") \/ Goes(w, "ending", "SKIPPED") \/ Goes(w, "ending", "FAILED")
      BY <2>10 DEF Execute, Goes
    <3>2. ASSUME NEW outcome \in {"SKIPPED", "FAILED"}, Goes(w, "ending", outcome) PROVE HandKept(w)
      BY <2>4, <3>2 DEF HandKept
    <3> QED BY <2>2, <2>3, <3>1, <3>2
  <2>11. CASE Crawl(w)
    <3>1. Stop(w) \/ Go(w, "staging") \/ \E error \in {"retryable", "fatal"} : Goes(w, "failed", error)
      BY <2>11 DEF Crawl, Goes
    <3> QED BY <2>2, <2>3, <2>6, <3>1
  <2>12. CASE Stage(w)
    <3>1. (MayStage(w) /\ \E outcome \in {"SUCCESS", "FAILED"} : Goes(w, "staged", outcome)) \/ Goes(w, "failed", "fatal")
      BY <2>12 DEF Stage, Goes
    <3>2. ASSUME MayStage(w), NEW outcome, Goes(w, "staged", outcome) PROVE HandKept(w)
      <4>1. worker'[w].at = "staged" /\ worker'[w].row = worker[w].row
        BY <2>4, <3>2
      <4> QED BY <2>12, <3>2, <4>1 DEF HandKept
    <3> QED BY <2>6, <3>1, <3>2
  <2>13. CASE EndExecution(w)
    <3>1. Stop(w) \/ Goes(w, "failed", "fatal")
      BY <2>13 DEF EndExecution, Goes
    <3> QED BY <2>2, <2>6, <3>1
  <2>14. CASE RecordFailure(w) \/ RetryOrStop(w)
    <3>1. Stop(w) \/ Go(w, "retry") \/ Go(w, "stopping")
      BY <2>14 DEF RecordFailure, RetryOrStop
    <3> QED BY <2>2, <2>3, <3>1
  <2>15. CASE ListFollowing(w) \/ StopFollowing(w)
    <3>1. ASSUME NEW todo, worker' = [worker EXCEPT ![w].todo = todo] PROVE HandKept(w)
      <4>1. worker[w].at = "stopping"
        BY <2>15 DEF ListFollowing, StopFollowing
      <4>2. worker'[w] = [worker[w] EXCEPT !.todo = todo]
        BY <1>1, <3>1
      <4>3. worker'[w].at = "stopping"
        BY <1>1, <4>1, <4>2 DEF Hand
      <4> QED BY <2>1, <4>3
    <3>2. Stop(w) \/ \E todo : worker' = [worker EXCEPT ![w].todo = todo]
      BY <2>15 DEF ListFollowing, StopFollowing
    <3> QED BY <2>2, <3>1, <3>2
  <2>16. CASE HeartbeatExecution(w)
    BY <2>16 DEF HeartbeatExecution, HandKept
  <2>17. CASE Crash(w) \/ StatementFails(w)
    <3>1. Stop(w) \/ Goes(w, "failed", "fatal")
      BY <2>17 DEF Crash, StatementFails, Goes
    <3> QED BY <2>2, <2>6, <3>1
  <2> QED BY <2>7, <2>8, <2>9, <2>10, <2>11, <2>12, <2>13, <2>14, <2>15, <2>16, <2>17 DEF WorkerStep
<1> QED BY <1>2, <1>3

LEMMA StepStaged ==
    ASSUME TypeInv, ResultsStaged, HandsStaged, [CrawlNext]_crawlVars
    PROVE  (ResultsStaged /\ HandsStaged)'
<1>1. CASE UNCHANGED crawlVars
  BY <1>1 DEF crawlVars, ResultsStaged, HandsStaged, Ids, Row
<1>2. ASSUME NEW w \in Workers, worker[w].at = "staged" PROVE Row(w) \in Ids /\ rows[Row(w)].staged
  BY <1>2, HandIs DEF HandsStaged, Busy
<1>3. ASSUME \A i \in Ids : Keeps(i), RowsMove PROVE ResultsStaged'
  <2> SUFFICES ASSUME NEW i \in Ids', rows'[i].status = "SUCCESS" PROVE rows'[i].staged
    BY DEF ResultsStaged
  <2>1. i \in Ids
    BY <1>3 DEF RowsMove, IsNew
  <2> QED BY <1>2, <1>3, <2>1 DEF Keeps, Succeeds, ResultsStaged
<1>4. RowsMove
  BY StepCalm DEF Good
<1>5. CASE \/ \E job \in Jobs, window \in Windows : CreateScheduledExecution(job, window)
           \/ \E job \in Jobs : CreateManualExecution(job) \/ SetEnabled(job)
           \/ \E j \in Ids : RetryExecution(j) \/ CancelExecution(j) \/ LeaseExpires(j)
           \/ CycleLeavesOpen
           \/ TimePasses
  <2>1. ASSUME NEW i \in Ids PROVE Keeps(i)
    BY <1>5, <2>1, QueueKeepsStaged
  <2>2. HandsStaged'
    <3> SUFFICES ASSUME NEW w \in Workers
                 PROVE  /\ worker'[w].at = "staged" => rows'[worker'[w].row].staged
                        /\ worker'[w].at = "ending" => worker'[w].outcome # "SUCCESS"
      BY DEF HandsStaged, Row
    <3>1. UNCHANGED worker
      BY <1>5 DEF CreateScheduledExecution, CreateManualExecution, SetEnabled, RetryExecution, CancelExecution,
             LeaseExpires, CycleLeavesOpen, TimePasses
    <3> QED BY <1>2, <2>1, <3>1 DEF HandsStaged, Keeps, Row
  <2> QED BY <1>3, <1>4, <2>1, <2>2
<1>6. ASSUME NEW w \in Workers, WorkerStep(w) \/ HeartbeatExecution(w) \/ Crash(w) \/ StatementFails(w)
      PROVE  (ResultsStaged /\ HandsStaged)'
  <2>1. ASSUME NEW i \in Ids PROVE Keeps(i)
    BY <1>6, <2>1, WorkerKeepsStaged
  <2>2. HandsStaged'
    <3> SUFFICES ASSUME NEW v \in Workers
                 PROVE  /\ worker'[v].at = "staged" => rows'[worker'[v].row].staged
                        /\ worker'[v].at = "ending" => worker'[v].outcome # "SUCCESS"
      BY DEF HandsStaged, Row
    <3>1. HandKept(v)
      BY <1>6, HandsKept
    <3>2. ASSUME Stage(v), MayStage(v) PROVE rows'[Row(v)].staged
      <4>1. Row(v) \in Ids /\ rows \in [Ids -> Execution]
        BY <3>2, HandIs, RowsAsTheyAre DEF Stage, Busy, TypeInv
      <4>2. rows' = [rows EXCEPT ![Row(v)] = [rows[Row(v)] EXCEPT !.staged = TRUE]]
        BY <3>2 DEF Stage
      <4> QED BY <4>1, <4>2 DEF Execution
    <3> QED BY <1>2, <2>1, <3>1, <3>2 DEF HandKept, HandsStaged, Keeps, Row
  <2> QED BY <1>3, <1>4, <2>1, <2>2
<1> QED BY <1>1, <1>5, <1>6 DEF CrawlNext

(* An execution that is a success has staged its rows, whoever lost its    *)
(* lease, was cancelled or came late before: the worker that stages under  *)
(* its lease is the one that may record the success.                       *)
THEOREM CrawlResultsStaged == CrawlSpec => []ResultsStaged
<1>1. CrawlInit => ResultsStaged /\ HandsStaged
  BY DEF CrawlInit, ResultsStaged, HandsStaged, Ids, Idle
<1>2. TypeInv /\ (ResultsStaged /\ HandsStaged) /\ [CrawlNext]_crawlVars => (ResultsStaged /\ HandsStaged)'
  BY StepStaged
<1> QED BY <1>1, <1>2, CrawlSound, PTL DEF CrawlSpec

-----------------------------------------------------------------------------
(* The queue keeps what it is given.                                       *)

(* No execution leaves the queue, what is inserted stays as inserted, and  *)
(* a step adds at most one execution: a new one, or a retry of one that    *)
(* has failed for a reason that may pass and has an attempt left.          *)
THEOREM CrawlQueueGrows == CrawlSpec => [][RowsMove]_crawlVars
<1>1. TypeInv /\ [CrawlNext]_crawlVars => [RowsMove]_crawlVars
  BY StepCalm DEF Good
<1> QED BY <1>1, CrawlSound, PTL DEF CrawlSpec
=============================================================================
