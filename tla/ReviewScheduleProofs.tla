------------------------ MODULE ReviewScheduleProofs ------------------------
(***************************************************************************)
(* What is true of the review schedule for any number of employees,        *)
(* levels, cadences and requests: the tables keep their types and keys, no *)
(* two transactions hold an employee, only publications move the date of   *)
(* the last completed review, and every due date is the one that the       *)
(* cadences give if no two requests run that nothing serializes.           *)
(***************************************************************************)
EXTENDS ReviewSchedule, TLAPS

-----------------------------------------------------------------------------
(* The cadence in effect                                                   *)

LEMMA TierType ==
    ASSUME NEW d \in Database, NEW c \in Cadences \cup {Null}
    PROVE  /\ Tier(d, c) \in Cadences \cup {Null}
           /\ Tier(d, c) # Null => Tier(d, c) = c /\ d.cadence[c].stored /\ d.cadence[c].active
BY DEF Tier

(* A due date counts from the base by an interval that a cadence has.      *)
LEMMA EffectiveIntervalType ==
    ASSUME NEW d \in Database, NEW e \in Employees
    PROVE  EffectiveInterval(d, e) \in Intervals \cup {0}
<1>1. \A c \in Cadences : IntervalOf(d, c) \in Intervals
  BY DEF Database, CadenceRow, IntervalOf
<1>2. OverrideTier(d, e) \in Cadences \cup {Null}
  BY TierType DEF OverrideTier, Database, EmployeeRow
<1>3. LevelTier(d, e) \in Cadences \cup {Null}
  BY TierType DEF LevelTier, Database, EmployeeRow
<1>4. ASSUME StandardTiers(d) # {}
      PROVE  (CHOOSE c \in StandardTiers(d) : TRUE) \in Cadences
  BY <1>4 DEF StandardTiers
<1> HIDE DEF OverrideTier, LevelTier, StandardTiers, IntervalOf
<1> QED BY <1>1, <1>2, <1>3, <1>4 DEF EffectiveInterval

LEMMA ScheduleFromType ==
    ASSUME NEW d \in Database, NEW e \in Employees, NEW base \in Nat
    PROVE  ScheduleFrom(d, e, base) \in Schedule
<1>1. EffectiveInterval(d, e) \in Nat
  <2>1. EffectiveInterval(d, e) \in Intervals \cup {0}
    BY EffectiveIntervalType
  <2>2. Intervals \subseteq Nat
    BY ScheduleAssumption
  <2>3. 0 \in Nat
    OBVIOUS
  <2> QED BY <2>1, <2>2, <2>3, Zenon
<1>2. DueDate(base, EffectiveInterval(d, e)) \in Nat
  BY <1>1 DEF DueDate
<1>3. base = 0 => DueDate(base, EffectiveInterval(d, e)) = 0
  BY DEF DueDate
<1> QED BY <1>2, <1>3 DEF ScheduleFrom, Schedule

-----------------------------------------------------------------------------
(* The writes                                                              *)

(* The tables keep their types, and the schedules what they are.           *)
KeepsSchedules(d, t) ==
    t \in Database /\ \A e \in Employees : t.employee[e].schedule = d.employee[e].schedule

LEMMA WithOverrideKeeps ==
    ASSUME NEW d \in Database, NEW S, NEW c \in Cadences \cup {Null}
    PROVE  KeepsSchedules(d, WithOverride(d, S, c))
<1>1. d.employee \in [Employees -> EmployeeRow]
  BY DEF Database
<1>2. \A e \in Employees : /\ [d.employee[e] EXCEPT !.override = c] \in EmployeeRow
                           /\ [d.employee[e] EXCEPT !.override = c].schedule = d.employee[e].schedule
  BY <1>1 DEF EmployeeRow
<1>3. WithOverride(d, S, c).employee =
          [e \in Employees |-> IF e \in S THEN [d.employee[e] EXCEPT !.override = c] ELSE d.employee[e]]
  BY DEF WithOverride, Database
<1>4. WithOverride(d, S, c).employee \in [Employees -> EmployeeRow]
  BY <1>1, <1>2, <1>3
<1>5. WithOverride(d, S, c) \in Database
  BY <1>4 DEF WithOverride, Database
<1> QED BY <1>1, <1>2, <1>3, <1>5 DEF KeepsSchedules

LEMMA WithLevelKeeps ==
    ASSUME NEW d \in Database, NEW S, NEW l \in Levels
    PROVE  KeepsSchedules(d, WithLevel(d, S, l))
<1>1. d.employee \in [Employees -> EmployeeRow]
  BY DEF Database
<1>2. ASSUME NEW row \in EmployeeRow
      PROVE  MovedTo(row, l) \in EmployeeRow /\ MovedTo(row, l).schedule = row.schedule
  <2>1. row.version + 1 \in Nat
    BY DEF EmployeeRow
  <2>2. \A n \in Nat : /\ [row EXCEPT !.level = l, !.version = n] \in EmployeeRow
                       /\ [row EXCEPT !.level = l, !.version = n].schedule = row.schedule
    BY DEF EmployeeRow
  <2> QED BY <2>1, <2>2 DEF MovedTo
<1>3. WithLevel(d, S, l).employee = [e \in Employees |-> IF e \in S THEN MovedTo(d.employee[e], l) ELSE d.employee[e]]
  BY DEF WithLevel, Database
<1>4. WithLevel(d, S, l).employee \in [Employees -> EmployeeRow]
  BY <1>1, <1>2, <1>3
<1>5. WithLevel(d, S, l) \in Database
  BY <1>4 DEF WithLevel, Database
<1> QED BY <1>1, <1>2, <1>3, <1>5 DEF KeepsSchedules

LEMMA WithDefaultKeeps ==
    ASSUME NEW d \in Database, NEW l, NEW c \in Cadences \cup {Null}
    PROVE  KeepsSchedules(d, WithDefault(d, l, c))
BY DEF KeepsSchedules, WithDefault, Database

LEMMA WithCadenceKeeps ==
    ASSUME NEW d \in Database, NEW c, NEW row \in CadenceRow
    PROVE  KeepsSchedules(d, WithCadence(d, c, row))
BY DEF KeepsSchedules, WithCadence, Database

LEMMA WithoutCadenceKeeps ==
    ASSUME NEW d \in Database, NEW c
    PROVE  KeepsSchedules(d, WithoutCadence(d, c))
<1> DEFINE freed(e) == [d.employee[e] EXCEPT !.override = Null]
           employees == [e \in Employees |-> IF d.employee[e].override = c THEN freed(e) ELSE d.employee[e]]
           defaults == Nulled(d.default, c)
           cadences == [d.cadence EXCEPT ![c] = Gone(@)]
<1>1. d.employee \in [Employees -> EmployeeRow]
  BY DEF Database
<1>2. \A e \in Employees : freed(e) \in EmployeeRow /\ freed(e).schedule = d.employee[e].schedule
  BY <1>1 DEF EmployeeRow
<1>3. WithoutCadence(d, c) = [d EXCEPT !.cadence = cadences, !.default = defaults, !.employee = employees]
  BY DEF WithoutCadence
<1>4. defaults \in [Levels -> Cadences \cup {Null}]
  BY DEF Nulled, Database
<1>5. cadences \in [Cadences -> CadenceRow]
  <2>1. \A row \in CadenceRow : Gone(row) \in CadenceRow
    BY DEF Gone, CadenceRow
  <2> QED BY <2>1 DEF Database
<1> HIDE DEF freed, defaults, cadences
<1>6. employees \in [Employees -> EmployeeRow]
  BY <1>1, <1>2
<1>7. \A e \in Employees : employees[e].schedule = d.employee[e].schedule
  BY <1>2
<1> HIDE DEF employees
<1>8. WithoutCadence(d, c) \in Database /\ WithoutCadence(d, c).employee = employees
  BY <1>3, <1>4, <1>5, <1>6 DEF Database
<1> QED BY <1>7, <1>8 DEF KeepsSchedules

LEMMA WrittenKeeps ==
    ASSUME NEW d \in Database, NEW q \in Request
    PROVE  KeepsSchedules(d, Written(d, q))
<1>1. CASE q.op = "publish"
  BY <1>1 DEF Written, KeepsSchedules
<1>2. CASE q.op = "override"
  <2>1. q.to \in Cadences \cup {Null} /\ Written(d, q) = WithOverride(d, q.who, q.to)
    BY <1>2 DEF Written, Request
  <2> QED BY <2>1, WithOverrideKeeps
<1>3. CASE q.op = "move"
  <2>1. q.to \in Levels /\ Written(d, q) = WithLevel(d, q.who, q.to)
    BY <1>3 DEF Written, Request
  <2> QED BY <2>1, WithLevelKeeps
<1>4. CASE q.op \in {"default", "levelName"}
  <2>1. q.to \in Cadences \cup {Null} /\ Written(d, q) = WithDefault(d, q.of, q.to)
    BY <1>4 DEF Written, Request
  <2> QED BY <2>1, WithDefaultKeeps
<1>5. CASE q.op \in {"update", "cadenceName", "create"}
  <2>1. q.row \in CadenceRow /\ Written(d, q) = WithCadence(d, q.of, q.row)
    BY <1>5 DEF Written, Request
  <2> QED BY <2>1, WithCadenceKeeps
<1>6. CASE q.op = "delete"
  <2>1. Written(d, q) = WithoutCadence(d, q.of)
    BY <1>6 DEF Written
  <2> QED BY <2>1, WithoutCadenceKeeps
<1> QED BY <1>1, <1>2, <1>3, <1>4, <1>5, <1>6 DEF Request, Operations

(* saveSchedules writes the schedules of the employees it is given.        *)
LEMMA SavedSchedules ==
    ASSUME NEW d \in Database, NEW q \in Request
    PROVE  /\ Saved(d, q) \in Database
           /\ \A e \in Employees : Base(Saved(d, q), e) =
                 IF e \in q.who THEN q.schedule[e].base ELSE Base(d, e)
<1>1. d.employee \in [Employees -> EmployeeRow] /\ q.schedule \in [Employees -> Schedule]
  BY DEF Database, Request
<1>2. Saved(d, q).employee = [e \in Employees |->
          IF e \in q.who THEN [d.employee[e] EXCEPT !.schedule = q.schedule[e]] ELSE d.employee[e]]
  BY DEF Saved, Database
<1>3. Saved(d, q).employee \in [Employees -> EmployeeRow]
  <2>1. \A e \in Employees : [d.employee[e] EXCEPT !.schedule = q.schedule[e]] \in EmployeeRow
    <3> SUFFICES ASSUME NEW e \in Employees PROVE [d.employee[e] EXCEPT !.schedule = q.schedule[e]] \in EmployeeRow
      OBVIOUS
    <3>1. d.employee[e] \in EmployeeRow /\ q.schedule[e] \in Schedule
      BY <1>1
    <3> QED BY <3>1 DEF EmployeeRow
  <2> QED BY <1>1, <1>2, <2>1
<1>4. Saved(d, q) \in Database
  BY <1>3 DEF Saved, Database
<1>5. \A e \in Employees : Base(Saved(d, q), e) = IF e \in q.who THEN q.schedule[e].base ELSE Base(d, e)
  BY <1>1, <1>2 DEF Base, EmployeeRow
<1> QED BY <1>4, <1>5

-----------------------------------------------------------------------------
(* Types                                                                   *)

(* A due date that is saved is there only with a completed review, and     *)
(* every reference is of the type of its column.                           *)
LEMMA InitScheduleTypeOK == ScheduleInit => ScheduleTypeOK
<1> SUFFICES ASSUME ScheduleInit PROVE ScheduleTypeOK
  OBVIOUS
<1>1. db \in Database /\ MaxRequests \in Nat
  BY ScheduleAssumption DEF ScheduleInit
<1>2. request \in [Requests -> Request \cup {Idle}]
  BY DEF ScheduleInit
<1>3. today \in Nat /\ made \in 0..MaxRequests
  <2>1. today = 1 /\ made = 0
    BY DEF ScheduleInit
  <2> QED BY <1>1, <2>1
<1>4. overlaps \in BOOLEAN
  BY Zenon DEF ScheduleInit
<1> QED BY <1>1, <1>2, <1>3, <1>4 DEF ScheduleTypeOK

LEMMA IdleIsNoRequest == Idle \notin Request
<1>1. \A q \in Request : q.at \in Stages
  BY DEF Request
<1>2. Idle.at \notin Stages
  BY DEF Idle, Stages
<1> QED BY <1>1, <1>2

LEMMA BlankType ==
    /\ \A op \in Operations \ {"move"} : Blank(op) \in Request
    /\ \A e \in Employees, k, l \in Levels, v \in Nat :
          [Blank("move") EXCEPT !.who = {e}, !.of = k, !.to = l, !.version = v] \in Request
<1>1. (CHOOSE row \in CadenceRow : TRUE) \in CadenceRow
  <2>1. CadenceRow # {}
    <3>1. PICK i \in Intervals : TRUE
      BY ScheduleAssumption
    <3>2. [stored |-> TRUE, interval |-> i, active |-> TRUE, standard |-> TRUE] \in CadenceRow
      BY DEF CadenceRow
    <3> QED BY <3>2
  <2> QED BY <2>1
<1>2. [base |-> 0, due |-> 0] \in Schedule
  BY DEF Schedule
<1>3. ASSUME NEW op \in Operations \ {"move"} PROVE Blank(op) \in Request
  BY <1>1, <1>2 DEF Blank, Request, Stages
<1>4. ASSUME NEW e \in Employees, NEW k \in Levels, NEW l \in Levels, NEW v \in Nat
      PROVE  [Blank("move") EXCEPT !.who = {e}, !.of = k, !.to = l, !.version = v] \in Request
  BY <1>1, <1>2 DEF Blank, Request, Stages, Operations
<1> QED BY <1>3, <1>4

LEMMA AskTypeOK ==
    ASSUME ScheduleTypeOK, NEW r \in Requests, NEW asked \in Request, Ask(r, asked), today' \in Nat
    PROVE  ScheduleTypeOK'
<1>1. request' \in [Requests -> Request \cup {Idle}]
  BY DEF ScheduleTypeOK, Ask
<1>2. made' \in 0..MaxRequests
  <2>1. MaxRequests \in Nat
    BY ScheduleAssumption
  <2> QED BY <2>1 DEF ScheduleTypeOK, Ask
<1>3. overlaps' \in BOOLEAN
  BY DEF ScheduleTypeOK, Ask
<1> QED BY <1>1, <1>2, <1>3 DEF ScheduleTypeOK, Ask

LEMMA PublishEvaluationsTypeOK ==
    ASSUME ScheduleTypeOK, NEW r \in Requests, NEW S \in SUBSET Employees, PublishEvaluations(r, S)
    PROVE  ScheduleTypeOK'
<1>1. Blank("publish") \in Request
  BY BlankType DEF Operations
<1>2. today + 1 \in Nat
  BY DEF ScheduleTypeOK
<1>3. [Blank("publish") EXCEPT !.who = S, !.date = today + 1] \in Request
  <2>1. \A n \in Nat : [Blank("publish") EXCEPT !.who = S, !.date = n] \in Request
    BY <1>1 DEF Request
  <2> QED BY <1>2, <2>1
<1> QED BY <1>2, <1>3, AskTypeOK DEF PublishEvaluations

LEMMA UpdateCadenceOverrideTypeOK ==
    ASSUME ScheduleTypeOK, NEW r \in Requests, NEW e \in Employees, NEW c \in Cadences \cup {Null},
           UpdateCadenceOverride(r, e, c)
    PROVE  ScheduleTypeOK'
<1>1. Blank("override") \in Request /\ Blank("override").op = "override"
  BY BlankType DEF Operations, Blank
<1>2. [Blank("override") EXCEPT !.who = {e}, !.to = c] \in Request
  BY <1>1 DEF Request
<1> QED BY <1>2, AskTypeOK DEF UpdateCadenceOverride, ScheduleTypeOK

LEMMA UpdateEmployeeTypeOK ==
    ASSUME ScheduleTypeOK, NEW r \in Requests, NEW e \in Employees, NEW l \in Levels, UpdateEmployee(r, e, l)
    PROVE  ScheduleTypeOK'
<1> DEFINE asked == [Blank("move") EXCEPT !.who = {e}, !.of = db.employee[e].level, !.to = l,
                                          !.version = db.employee[e].version]
<1>1. db.employee[e].level \in Levels /\ db.employee[e].version \in Nat
  BY DEF ScheduleTypeOK, Database, EmployeeRow
<1>3. asked \in Request
  BY <1>1, BlankType
<1> HIDE DEF asked
<1>4. Ask(r, asked) /\ today' = today
  BY DEF UpdateEmployee, asked
<1> QED BY <1>3, <1>4, AskTypeOK DEF ScheduleTypeOK

LEMMA UpdateJobLevelTypeOK ==
    ASSUME ScheduleTypeOK, NEW r \in Requests, NEW l \in Levels, NEW c \in Cadences \cup {Null},
           UpdateJobLevel(r, l, c)
    PROVE  ScheduleTypeOK'
<1> DEFINE op == IF c = db.default[l] THEN "levelName" ELSE "default"
<1>1. op \in {"levelName", "default"}
  OBVIOUS
<1>2. Blank(op) \in Request /\ Blank(op).op = op
  BY <1>1, BlankType DEF Operations, Blank
<1>3. Ask(r, [Blank(op) EXCEPT !.of = l, !.to = c]) /\ today' = today
  BY DEF UpdateJobLevel
<1> HIDE DEF op
<1>4. [Blank(op) EXCEPT !.of = l, !.to = c] \in Request
  BY <1>1, <1>2 DEF Request
<1> QED BY <1>3, <1>4, AskTypeOK DEF ScheduleTypeOK

LEMMA CadenceTypeOK ==
    ASSUME ScheduleTypeOK, NEW r \in Requests, NEW c \in Cadences, NEW row \in CadenceRow,
           \/ UpdateCadence(r, c, row) \/ CreateCadence(r, c, row) \/ DeleteCadence(r, c)
    PROVE  ScheduleTypeOK'
<1>1. ASSUME NEW op \in {"cadenceName", "update", "create", "delete"}, NEW given \in CadenceRow,
             NEW b \in BOOLEAN
      PROVE  [Blank(op) EXCEPT !.of = c, !.row = given, !.fallback = b] \in Request
  <2>1. Blank(op) \in Request
    BY BlankType DEF Operations
  <2> QED BY <2>1 DEF Request
<1>2. db.cadence[c] \in CadenceRow
  BY DEF ScheduleTypeOK, Database
<1>3. CASE UpdateCadence(r, c, row)
  <2> DEFINE op == IF row = db.cadence[c] THEN "cadenceName" ELSE "update"
             b == db.cadence[c].standard \/ row.standard
  <2>1. b \in BOOLEAN /\ op \in {"cadenceName", "update", "create", "delete"}
    OBVIOUS
  <2>2. Ask(r, [Blank(op) EXCEPT !.of = c, !.row = row, !.fallback = b]) /\ today' = today
    BY <1>3 DEF UpdateCadence
  <2> HIDE DEF op, b
  <2> QED BY <1>1, <2>1, <2>2, AskTypeOK DEF ScheduleTypeOK
<1>4. CASE CreateCadence(r, c, row)
  BY <1>1, <1>4, AskTypeOK DEF CreateCadence, ScheduleTypeOK
<1>5. CASE DeleteCadence(r, c)
  BY <1>1, <1>2, <1>5, AskTypeOK DEF DeleteCadence, ScheduleTypeOK
<1> QED BY <1>3, <1>4, <1>5

(* A request that goes on is still a request.                              *)
LEMMA BecomesTypeOK ==
    ASSUME ScheduleTypeOK, NEW r \in Requests, NEW q \in Request \cup {Idle},
           request' = [request EXCEPT ![r] = q], db' \in Database, UNCHANGED <<today, made, overlaps>>
    PROVE  ScheduleTypeOK'
BY DEF ScheduleTypeOK

LEMMA FindEmployeesTypeOK ==
    ASSUME ScheduleTypeOK, NEW r \in Requests, FindEmployees(r)
    PROVE  ScheduleTypeOK'
<1> DEFINE q == request[r]
           found == {Join(db, e) : e \in {f \in Employees : Wanted(q, Join(db, f))}}
<1>1. q \in Request /\ db \in Database
  BY DEF ScheduleTypeOK, FindEmployees
<1>2. \A e \in Employees : Join(db, e) \in JoinedRow
  <2> SUFFICES ASSUME NEW e \in Employees PROVE Join(db, e) \in JoinedRow
    OBVIOUS
  <2>1. /\ db.employee[e].level \in Levels /\ db.employee[e].override \in Cadences \cup {Null}
        /\ \A l \in Levels : db.default[l] \in Cadences \cup {Null}
    BY <1>1 DEF Database, EmployeeRow
  <2>2. OverrideTier(db, e) \in Cadences \cup {Null} /\ LevelTier(db, e) \in Cadences \cup {Null}
    BY <1>1, <2>1, TierType DEF OverrideTier, LevelTier
  <2> QED BY <2>1, <2>2 DEF Join, JoinedRow
<1>3. found \in SUBSET JoinedRow
  BY <1>2
<1>4. /\ request' = [request EXCEPT ![r] = [q EXCEPT !.at = "locking", !.found = found]]
      /\ UNCHANGED <<db, today, made, overlaps>>
  BY DEF FindEmployees
<1> HIDE DEF q, found
<1>5. [q EXCEPT !.at = "locking", !.found = found] \in Request
  BY <1>1, <1>3 DEF Request, Stages
<1> QED BY <1>1, <1>4, <1>5, BecomesTypeOK

LEMMA LockEmployeesTypeOK ==
    ASSUME ScheduleTypeOK, NEW r \in Requests, LockEmployees(r)
    PROVE  ScheduleTypeOK'
<1> DEFINE q == request[r]
           locked == {t.employee : t \in {u \in q.found : Wanted(q, Rejoin(u))}}
           schedule == [e \in Employees |->
                            [base |-> IF q.op = "publish" THEN q.date ELSE Base(db, e), due |-> 0]]
<1>1. q \in Request /\ db \in Database
  BY DEF ScheduleTypeOK, LockEmployees
<1>2. locked \in SUBSET Employees
  BY <1>1 DEF Request, JoinedRow
<1>3. schedule \in [Employees -> Schedule]
  <2>1. q.date \in Nat /\ \A e \in Employees : Base(db, e) \in Nat
    BY <1>1 DEF Request, Base, Database, EmployeeRow, Schedule
  <2> QED BY <2>1 DEF Schedule
<1>4. /\ request' = [request EXCEPT ![r] = [q EXCEPT !.at = "locked", !.found = {}, !.who = locked,
                                                     !.schedule = schedule]]
      /\ UNCHANGED <<db, today, made, overlaps>>
  BY DEF LockEmployees
<1> HIDE DEF q, locked, schedule
<1>5. [q EXCEPT !.at = "locked", !.found = {}, !.who = locked, !.schedule = schedule] \in Request
  BY <1>1, <1>2, <1>3 DEF Request, Stages
<1> QED BY <1>1, <1>4, <1>5, BecomesTypeOK

LEMMA RecalculateTypeOK ==
    ASSUME ScheduleTypeOK, NEW r \in Requests, Recalculate(r)
    PROVE  ScheduleTypeOK'
<1> DEFINE q == request[r]
           schedule == [e \in Employees |-> ScheduleFrom(Written(db, q), e, q.schedule[e].base)]
<1>1. q \in Request /\ db \in Database
  BY DEF ScheduleTypeOK, Recalculate
<1>2. schedule \in [Employees -> Schedule]
  <2>1. Written(db, q) \in Database
    BY <1>1, WrittenKeeps DEF KeepsSchedules
  <2>2. \A e \in Employees : q.schedule[e].base \in Nat
    BY <1>1 DEF Request, Schedule
  <2> QED BY <2>1, <2>2, ScheduleFromType
<1>3. /\ request' = [request EXCEPT ![r] = [q EXCEPT !.at = "saved", !.schedule = schedule]]
      /\ UNCHANGED <<db, today, made, overlaps>>
  BY DEF Recalculate
<1> HIDE DEF q, schedule
<1>4. [q EXCEPT !.at = "saved", !.schedule = schedule] \in Request
  BY <1>1, <1>2 DEF Request, Stages
<1> QED BY <1>1, <1>3, <1>4, BecomesTypeOK

LEMMA EndTypeOK ==
    ASSUME ScheduleTypeOK, NEW r \in Requests, Commit(r) \/ WriteOnly(r) \/ Rollback(r)
    PROVE  ScheduleTypeOK'
<1>1. CASE Commit(r)
  <2>1. request[r] \in Request /\ db \in Database
    BY <1>1 DEF ScheduleTypeOK, Commit
  <2>2. Written(db, request[r]) \in Database
    BY <2>1, WrittenKeeps DEF KeepsSchedules
  <2>3. db' \in Database
    BY <1>1, <2>1, <2>2, SavedSchedules DEF Commit
  <2> QED BY <1>1, <2>3, BecomesTypeOK DEF Commit
<1>2. CASE WriteOnly(r)
  <2>1. request[r] \in Request /\ db \in Database
    BY <1>2 DEF ScheduleTypeOK, WriteOnly
  <2>2. db' \in Database
    BY <1>2, <2>1, WrittenKeeps DEF KeepsSchedules, WriteOnly
  <2> QED BY <1>2, <2>2, BecomesTypeOK DEF WriteOnly
<1>3. CASE Rollback(r)
  <2>1. db' \in Database
    BY <1>3 DEF Rollback, ScheduleTypeOK
  <2> QED BY <1>3, <2>1, BecomesTypeOK DEF Rollback
<1> QED BY <1>1, <1>2, <1>3

LEMMA StepScheduleTypeOK == ScheduleTypeOK /\ [ScheduleNext]_scheduleVars => ScheduleTypeOK'
<1> SUFFICES ASSUME ScheduleTypeOK, [ScheduleNext]_scheduleVars PROVE ScheduleTypeOK'
  OBVIOUS
<1>1. CASE UNCHANGED scheduleVars
  BY <1>1 DEF scheduleVars, ScheduleTypeOK
<1>2. ASSUME NEW r \in Requests, RequestMade(r) PROVE ScheduleTypeOK'
  <2>1. CASE \E S \in SUBSET Employees : PublishEvaluations(r, S)
    BY <2>1, PublishEvaluationsTypeOK
  <2>2. CASE \E e \in Employees, c \in Cadences \cup {Null} : UpdateCadenceOverride(r, e, c)
    BY <2>2, UpdateCadenceOverrideTypeOK
  <2>3. CASE \E e \in Employees, l \in Levels : UpdateEmployee(r, e, l)
    BY <2>3, UpdateEmployeeTypeOK
  <2>4. CASE \E l \in Levels, c \in Cadences \cup {Null} : UpdateJobLevel(r, l, c)
    BY <2>4, UpdateJobLevelTypeOK
  <2>5. CASE \E c \in Cadences, row \in CadenceRow : UpdateCadence(r, c, row) \/ CreateCadence(r, c, row)
    BY <2>5, CadenceTypeOK
  <2>6. CASE \E c \in Cadences : DeleteCadence(r, c)
    <3>1. ASSUME NEW c \in Cadences PROVE db.cadence[c] \in CadenceRow
      BY DEF ScheduleTypeOK, Database
    <3> QED BY <2>6, <3>1, CadenceTypeOK
  <2> QED BY <1>2, <2>1, <2>2, <2>3, <2>4, <2>5, <2>6 DEF RequestMade
<1>3. ASSUME NEW r \in Requests, RequestStep(r) PROVE ScheduleTypeOK'
  BY <1>3, FindEmployeesTypeOK, LockEmployeesTypeOK, RecalculateTypeOK, EndTypeOK DEF RequestStep
<1> QED BY <1>1, <1>2, <1>3 DEF ScheduleNext

(* The tables and the requests keep their types: in every row of employee  *)
(* a due date is there only with the date of a completed review.           *)
THEOREM ScheduleTypeInvariant == ScheduleSpec => []ScheduleTypeOK
BY InitScheduleTypeOK, StepScheduleTypeOK, PTL DEF ScheduleSpec

-----------------------------------------------------------------------------
(* The locks, and the date of the last review                              *)

Holding(r) == request[r] # Idle /\ request[r].at \in {"locked", "saved"}

(* FOR UPDATE OF e: no two transactions hold an employee.                  *)
HoldersApart ==
    \A r, p \in Requests : r # p /\ Holding(r) /\ Holding(p) =>
        \A e \in Employees : ~(e \in request[r].who /\ e \in request[p].who)

(* The base that a transaction is going to write is still the one in the   *)
(* table, unless it publishes.                                             *)
BaseAsRead ==
    \A r \in Requests : Holding(r) =>
        \A e \in request[r].who : request[r].schedule[e].base =
            IF request[r].op = "publish" THEN request[r].date ELSE Base(db, e)

ScheduleInv == ScheduleTypeOK /\ HoldersApart /\ BaseAsRead

LEMMA HoldingIsRunning ==
    ASSUME ScheduleTypeOK, NEW r \in Requests, Holding(r)
    PROVE  Running(r, Operations, {"locked", "saved"}) /\ request[r] \in Request /\ request[r].who \subseteq Employees
<1>1. request[r] \in Request
  BY DEF ScheduleTypeOK, Holding
<1>2. request[r].op \in Operations /\ request[r].who \subseteq Employees
  BY <1>1 DEF Request
<1> QED BY <1>1, <1>2 DEF Running, Holding

(* A step of a request that holds nothing after it, and moves no base.     *)
LEMMA NotHoldingKeeps ==
    ASSUME ScheduleInv, NEW r \in Requests, NEW q,
           request' = [request EXCEPT ![r] = q], q = Idle \/ q.at \in {"checked", "locking"},
           \A e \in Employees : Base(db', e) = Base(db, e)
    PROVE  HoldersApart' /\ BaseAsRead'
<1>1. request \in [Requests -> Request \cup {Idle}]
  BY DEF ScheduleInv, ScheduleTypeOK
<1>2. ASSUME NEW p \in Requests, Holding(p)'
      PROVE  Holding(p) /\ request'[p] = request[p] /\ request[p].who \subseteq Employees
  <2>1. p # r
    BY <1>1, <1>2 DEF Holding, Idle
  <2>2. request'[p] = request[p]
    BY <1>1, <2>1
  <2>3. Holding(p)
    BY <1>2, <2>2 DEF Holding
  <2> QED BY <2>2, <2>3, HoldingIsRunning DEF ScheduleInv
<1>3. HoldersApart'
  BY <1>2 DEF ScheduleInv, HoldersApart
<1>4. BaseAsRead'
  <2> SUFFICES ASSUME NEW p \in Requests, Holding(p)', NEW e \in request'[p].who
               PROVE  request'[p].schedule[e].base =
                          IF request'[p].op = "publish" THEN request'[p].date ELSE Base(db', e)
    BY DEF BaseAsRead
  <2>1. Holding(p) /\ request'[p] = request[p] /\ e \in Employees
    BY <1>2
  <2> QED BY <2>1 DEF ScheduleInv, BaseAsRead
<1> QED BY <1>3, <1>4

LEMMA MadeIsAsked ==
    ASSUME NEW r \in Requests, RequestMade(r)
    PROVE  \E asked : asked.at = "checked" /\ Ask(r, asked)
<1>1. CASE \E S \in SUBSET Employees : PublishEvaluations(r, S)
  BY <1>1 DEF PublishEvaluations, Blank
<1>2. CASE \E e \in Employees, c \in Cadences \cup {Null} : UpdateCadenceOverride(r, e, c)
  BY <1>2 DEF UpdateCadenceOverride, Blank
<1>3. CASE \E e \in Employees, l \in Levels : UpdateEmployee(r, e, l)
  BY <1>3 DEF UpdateEmployee, Blank
<1>4. CASE \E l \in Levels, c \in Cadences \cup {Null} : UpdateJobLevel(r, l, c)
  BY <1>4 DEF UpdateJobLevel, Blank
<1>5. CASE \E c \in Cadences, row \in CadenceRow : UpdateCadence(r, c, row) \/ CreateCadence(r, c, row)
  BY <1>5 DEF UpdateCadence, CreateCadence, Blank
<1>6. CASE \E c \in Cadences : DeleteCadence(r, c)
  BY <1>6 DEF DeleteCadence, Blank
<1> QED BY <1>1, <1>2, <1>3, <1>4, <1>5, <1>6 DEF RequestMade

LEMMA AskKeeps ==
    ASSUME ScheduleInv, NEW r \in Requests, RequestMade(r)
    PROVE  HoldersApart' /\ BaseAsRead'
<1>1. PICK asked : asked.at = "checked" /\ Ask(r, asked)
  BY MadeIsAsked
<1>2. request' = [request EXCEPT ![r] = asked] /\ db' = db
  BY <1>1 DEF Ask
<1> QED BY <1>1, <1>2, NotHoldingKeeps

LEMMA WriteOnlyBases ==
    ASSUME ScheduleTypeOK, NEW r \in Requests, WriteOnly(r), NEW e \in Employees
    PROVE  Base(db', e) = Base(db, e)
<1>1. request[r] \in Request /\ db \in Database /\ db' = Written(db, request[r])
  BY DEF ScheduleTypeOK, WriteOnly
<1> QED BY <1>1, WrittenKeeps DEF KeepsSchedules, Base

LEMMA CommitBases ==
    ASSUME ScheduleTypeOK, NEW r \in Requests, Commit(r), NEW e \in Employees
    PROVE  Base(db', e) = IF e \in request[r].who THEN request[r].schedule[e].base ELSE Base(db, e)
<1>1. request[r] \in Request /\ db \in Database /\ db' = Saved(Written(db, request[r]), request[r])
  BY DEF ScheduleTypeOK, Commit
<1>2. Written(db, request[r]) \in Database /\ Base(Written(db, request[r]), e) = Base(db, e)
  BY <1>1, WrittenKeeps DEF KeepsSchedules, Base
<1> QED BY <1>1, <1>2, SavedSchedules

LEMMA LockEmployeesKeeps ==
    ASSUME ScheduleInv, NEW r \in Requests, LockEmployees(r)
    PROVE  HoldersApart' /\ BaseAsRead'
<1> DEFINE q == request[r]
           locked == {t.employee : t \in {u \in q.found : Wanted(q, Rejoin(u))}}
           next == request'[r]
<1>1. q \in Request /\ request \in [Requests -> Request \cup {Idle}]
  BY DEF ScheduleInv, ScheduleTypeOK, LockEmployees
<1>2. /\ next.who = locked /\ next.op = q.op /\ next.date = q.date
      /\ next.schedule = [e \in Employees |->
            [base |-> IF q.op = "publish" THEN q.date ELSE Base(db, e), due |-> 0]]
      /\ db' = db
  BY <1>1 DEF LockEmployees, Request
<1>3. \A p \in Requests \ {r} : request'[p] = request[p]
  BY <1>1 DEF LockEmployees
<1>4. locked \subseteq {t.employee : t \in q.found} /\ locked \subseteq Employees
  BY <1>1 DEF Request, JoinedRow
<1>5. ASSUME NEW p \in Requests \ {r}, Holding(p)', NEW e \in Employees, e \in request[p].who
      PROVE  e \notin locked
  <2>1. Holding(p)
    BY <1>3, <1>5 DEF Holding
  <2>2. HoldsEmployee(p, e)
    BY <1>5, <2>1, HoldingIsRunning DEF HoldsEmployee, ScheduleInv
  <2>3. \A t \in q.found : ~HoldsEmployee(p, t.employee)
    BY DEF LockEmployees, EmployeeFree, Others
  <2> QED BY <1>4, <2>2, <2>3
<1>6. HoldersApart'
  <2> SUFFICES ASSUME NEW a \in Requests, NEW b \in Requests, a # b, Holding(a)', Holding(b)',
                      NEW e \in Employees, e \in request'[a].who, e \in request'[b].who
               PROVE  FALSE
    BY DEF HoldersApart
  <2>1. CASE a = r
    BY <1>2, <1>3, <1>5, <2>1
  <2>2. CASE b = r
    BY <1>2, <1>3, <1>5, <2>2
  <2>3. CASE a # r /\ b # r
    <3>1. request'[a] = request[a] /\ request'[b] = request[b]
      BY <1>3, <2>3
    <3>2. Holding(a) /\ Holding(b)
      BY <3>1 DEF Holding
    <3> QED BY <3>1, <3>2 DEF ScheduleInv, HoldersApart
  <2> QED BY <2>1, <2>2, <2>3
<1>7. BaseAsRead'
  <2> SUFFICES ASSUME NEW p \in Requests, Holding(p)', NEW e \in request'[p].who
               PROVE  request'[p].schedule[e].base =
                          IF request'[p].op = "publish" THEN request'[p].date ELSE Base(db', e)
    BY DEF BaseAsRead
  <2>1. CASE p = r
    BY <1>2, <1>4, <2>1
  <2>2. CASE p # r
    <3>1. request'[p] = request[p]
      BY <1>3, <2>2
    <3>2. Holding(p)
      BY <3>1 DEF Holding
    <3> QED BY <1>2, <3>1, <3>2 DEF ScheduleInv, BaseAsRead
  <2> QED BY <2>1, <2>2
<1> QED BY <1>6, <1>7

LEMMA RecalculateKeeps ==
    ASSUME ScheduleInv, NEW r \in Requests, Recalculate(r)
    PROVE  HoldersApart' /\ BaseAsRead'
<1>1. request[r] \in Request /\ request \in [Requests -> Request \cup {Idle}]
  BY DEF ScheduleInv, ScheduleTypeOK, Recalculate
<1>2. Holding(r)
  BY DEF Recalculate, Holding
<1>3. /\ request'[r].who = request[r].who /\ request'[r].op = request[r].op /\ request'[r].date = request[r].date
      /\ \A e \in Employees : request'[r].schedule[e] = ScheduleFrom(Written(db, request[r]), e, request[r].schedule[e].base)
      /\ db' = db
  BY <1>1 DEF Recalculate, Request
<1>4. ASSUME NEW e \in Employees PROVE request'[r].schedule[e].base = request[r].schedule[e].base
  <2>1. \A base : ScheduleFrom(Written(db, request[r]), e, base).base = base
    BY DEF ScheduleFrom
  <2>2. request'[r].schedule[e].base =
            ScheduleFrom(Written(db, request[r]), e, request[r].schedule[e].base).base
    BY <1>3
  <2> QED BY <2>1, <2>2, Zenon
<1>5. ASSUME NEW p \in Requests, Holding(p)'
      PROVE  /\ Holding(p) /\ request'[p].who = request[p].who /\ request[p].who \subseteq Employees
             /\ request'[p].op = request[p].op /\ request'[p].date = request[p].date
             /\ \A e \in Employees : request'[p].schedule[e].base = request[p].schedule[e].base
  <2>1. CASE p = r
    BY <1>2, <1>3, <1>4, <2>1, HoldingIsRunning DEF ScheduleInv
  <2>2. CASE p # r
    <3>1. request'[p] = request[p]
      BY <1>1, <2>2 DEF Recalculate
    <3>2. Holding(p)
      BY <1>5, <3>1 DEF Holding
    <3> QED BY <3>1, <3>2, HoldingIsRunning DEF ScheduleInv
  <2> QED BY <2>1, <2>2
<1>6. HoldersApart'
  BY <1>5 DEF ScheduleInv, HoldersApart
<1>7. BaseAsRead'
  <2> SUFFICES ASSUME NEW p \in Requests, Holding(p)', NEW e \in request'[p].who
               PROVE  request'[p].schedule[e].base =
                          IF request'[p].op = "publish" THEN request'[p].date ELSE Base(db', e)
    BY DEF BaseAsRead
  <2>1. Holding(p) /\ e \in request[p].who /\ e \in Employees
    BY <1>5
  <2> QED BY <1>3, <1>5, <2>1 DEF ScheduleInv, BaseAsRead
<1> QED BY <1>6, <1>7

LEMMA CommitKeeps ==
    ASSUME ScheduleInv, NEW r \in Requests, Commit(r)
    PROVE  HoldersApart' /\ BaseAsRead'
<1>1. request[r] \in Request /\ request \in [Requests -> Request \cup {Idle}]
  BY DEF ScheduleInv, ScheduleTypeOK, Commit
<1>2. Holding(r)
  BY DEF Commit, Holding
<1>3. ASSUME NEW p \in Requests, Holding(p)'
      PROVE  p # r /\ Holding(p) /\ request'[p] = request[p] /\ request[p].who \subseteq Employees
  <2>1. p # r
    BY <1>1, <1>3 DEF Holding, Idle, Commit
  <2>2. request'[p] = request[p]
    BY <1>1, <2>1 DEF Commit
  <2>3. Holding(p)
    BY <1>3, <2>2 DEF Holding
  <2> QED BY <2>1, <2>2, <2>3, HoldingIsRunning DEF ScheduleInv
<1>4. HoldersApart'
  BY <1>3 DEF ScheduleInv, HoldersApart
<1>5. BaseAsRead'
  <2> SUFFICES ASSUME NEW p \in Requests, Holding(p)', NEW e \in request'[p].who
               PROVE  request'[p].schedule[e].base =
                          IF request'[p].op = "publish" THEN request'[p].date ELSE Base(db', e)
    BY DEF BaseAsRead
  <2>1. p # r /\ Holding(p) /\ request'[p] = request[p] /\ e \in Employees
    BY <1>3
  <2>2. e \notin request[r].who
    BY <1>2, <2>1 DEF ScheduleInv, HoldersApart
  <2>3. Base(db', e) = Base(db, e)
    BY <2>1, <2>2, CommitBases DEF ScheduleInv
  <2> QED BY <2>1, <2>3 DEF ScheduleInv, BaseAsRead
<1> QED BY <1>4, <1>5

LEMMA InitScheduleInv == ScheduleInit => ScheduleInv
BY InitScheduleTypeOK DEF ScheduleInit, ScheduleInv, HoldersApart, BaseAsRead, Holding

LEMMA StepScheduleInv == ScheduleInv /\ [ScheduleNext]_scheduleVars => ScheduleInv'
<1> SUFFICES ASSUME ScheduleInv, [ScheduleNext]_scheduleVars PROVE HoldersApart' /\ BaseAsRead'
  BY StepScheduleTypeOK DEF ScheduleInv
<1>1. CASE UNCHANGED scheduleVars
  BY <1>1 DEF scheduleVars, ScheduleInv, HoldersApart, BaseAsRead, Holding, Base
<1>2. ASSUME NEW r \in Requests, RequestMade(r) PROVE HoldersApart' /\ BaseAsRead'
  BY <1>2, AskKeeps
<1>3. ASSUME NEW r \in Requests, FindEmployees(r) PROVE HoldersApart' /\ BaseAsRead'
  <2>1. \A q \in Request : \A found : [q EXCEPT !.at = "locking", !.found = found].at = "locking"
    BY DEF Request
  <2>2. request[r] \in Request /\ db' = db
    BY <1>3 DEF ScheduleInv, ScheduleTypeOK, FindEmployees
  <2> QED BY <1>3, <2>1, <2>2, NotHoldingKeeps DEF FindEmployees
<1>4. ASSUME NEW r \in Requests, WriteOnly(r) PROVE HoldersApart' /\ BaseAsRead'
  <2>1. request' = [request EXCEPT ![r] = Idle]
    BY <1>4 DEF WriteOnly
  <2> QED BY <1>4, <2>1, NotHoldingKeeps, WriteOnlyBases DEF ScheduleInv
<1>5. ASSUME NEW r \in Requests, Rollback(r) PROVE HoldersApart' /\ BaseAsRead'
  BY <1>5, NotHoldingKeeps DEF Rollback
<1> QED BY <1>1, <1>2, <1>3, <1>4, <1>5, LockEmployeesKeeps, RecalculateKeeps, CommitKeeps
        DEF ScheduleNext, RequestStep

(* What the locks are for: no two transactions hold an employee, and what  *)
(* a transaction is going to write back is still what is in the table.     *)
THEOREM LocksProtectBases == ScheduleSpec => [](HoldersApart /\ BaseAsRead)
<1>1. ScheduleInv => HoldersApart /\ BaseAsRead
  BY DEF ScheduleInv
<1> QED BY <1>1, InitScheduleInv, StepScheduleInv, PTL DEF ScheduleSpec

(* However many requests interleave, the completion date of an employee    *)
(* moves only in the commit of a publication of one of its evaluations.    *)
THEOREM PublicationsMoveBases == ScheduleSpec => BaseIsPublished
<1>1. ScheduleInv /\ [ScheduleNext]_scheduleVars =>
          [\A e \in Employees : Base(db', e) # Base(db, e) =>
              \E r \in Requests : /\ Running(r, {"publish"}, {"saved"}) /\ e \in request[r].who
                                  /\ request' = [request EXCEPT ![r] = Idle]
                                  /\ Base(db', e) = request[r].date]_scheduleVars
  <2> SUFFICES ASSUME ScheduleInv, ScheduleNext, NEW e \in Employees, Base(db', e) # Base(db, e)
               PROVE  \E r \in Requests : /\ Running(r, {"publish"}, {"saved"}) /\ e \in request[r].who
                                          /\ request' = [request EXCEPT ![r] = Idle]
                                          /\ Base(db', e) = request[r].date
    OBVIOUS
  <2>1. \A r \in Requests : ~RequestMade(r)
    BY MadeIsAsked DEF Ask
  <2>2. \A r \in Requests : ~(FindEmployees(r) \/ LockEmployees(r) \/ Recalculate(r) \/ Rollback(r))
    BY DEF FindEmployees, LockEmployees, Recalculate, Rollback
  <2>3. \A r \in Requests : ~WriteOnly(r)
    BY WriteOnlyBases DEF ScheduleInv
  <2>4. PICK r \in Requests : Commit(r)
    BY <2>1, <2>2, <2>3 DEF ScheduleNext, RequestStep
  <2>5. e \in request[r].who /\ Base(db', e) = request[r].schedule[e].base
    BY <2>4, CommitBases DEF ScheduleInv
  <2>6. Holding(r) /\ request[r].at = "saved" /\ request' = [request EXCEPT ![r] = Idle]
    BY <2>4 DEF Commit, Holding
  <2>7. Base(db', e) = IF request[r].op = "publish" THEN request[r].date ELSE Base(db, e)
    BY <2>5, <2>6 DEF ScheduleInv, BaseAsRead
  <2>8. request[r].op = "publish" /\ Base(db', e) = request[r].date
    BY <2>7
  <2>9. Running(r, {"publish"}, {"saved"})
    BY <2>6, <2>8 DEF Running, Holding
  <2> QED BY <2>5, <2>6, <2>8, <2>9
<1> QED BY <1>1, InitScheduleInv, StepScheduleInv, PTL DEF ScheduleSpec, BaseIsPublished

-----------------------------------------------------------------------------
(* What the writes leave in the tables                                     *)

(* A row of employee, apart from the schedule.                             *)
SameRow(d, t, e) ==
    /\ t.employee[e].level = d.employee[e].level
    /\ t.employee[e].override = d.employee[e].override
    /\ t.employee[e].version = d.employee[e].version

SameTables(d, t) ==
    t.cadence = d.cadence /\ t.default = d.default /\ \A e \in Employees : SameRow(d, t, e)

LEMMA SavedTables ==
    ASSUME NEW d \in Database, NEW q \in Request
    PROVE  /\ SameTables(d, Saved(d, q))
           /\ \A e \in Employees : Saved(d, q).employee[e].schedule =
                 IF e \in q.who THEN q.schedule[e] ELSE d.employee[e].schedule
<1>1. d.employee \in [Employees -> EmployeeRow]
  BY DEF Database
<1>2. /\ Saved(d, q).cadence = d.cadence /\ Saved(d, q).default = d.default
      /\ Saved(d, q).employee = [e \in Employees |->
            IF e \in q.who THEN [d.employee[e] EXCEPT !.schedule = q.schedule[e]] ELSE d.employee[e]]
  BY DEF Saved, Database
<1>3. ASSUME NEW e \in Employees
      PROVE  /\ SameRow(d, Saved(d, q), e)
             /\ Saved(d, q).employee[e].schedule = IF e \in q.who THEN q.schedule[e] ELSE d.employee[e].schedule
  <2>1. d.employee[e] \in EmployeeRow
    BY <1>1
  <2>2. Saved(d, q).employee[e] =
            IF e \in q.who THEN [d.employee[e] EXCEPT !.schedule = q.schedule[e]] ELSE d.employee[e]
    BY <1>2
  <2>3. CASE e \in q.who
    <3>1. Saved(d, q).employee[e] = [d.employee[e] EXCEPT !.schedule = q.schedule[e]]
      BY <2>2, <2>3
    <3> QED BY <2>1, <2>3, <3>1 DEF SameRow, EmployeeRow
  <2>4. CASE e \notin q.who
    BY <2>2, <2>4 DEF SameRow
  <2> QED BY <2>3, <2>4
<1> QED BY <1>2, <1>3 DEF SameTables

LEMMA WithOverrideTables ==
    ASSUME NEW d \in Database, NEW S, NEW c
    PROVE  /\ WithOverride(d, S, c).cadence = d.cadence /\ WithOverride(d, S, c).default = d.default
           /\ \A e \in Employees :
                 /\ WithOverride(d, S, c).employee[e].level = d.employee[e].level
                 /\ WithOverride(d, S, c).employee[e].version = d.employee[e].version
                 /\ WithOverride(d, S, c).employee[e].override = IF e \in S THEN c ELSE d.employee[e].override
<1>1. \A e \in Employees : d.employee[e] \in EmployeeRow
  BY DEF Database
<1>2. /\ WithOverride(d, S, c).cadence = d.cadence /\ WithOverride(d, S, c).default = d.default
      /\ WithOverride(d, S, c).employee =
             [e \in Employees |-> IF e \in S THEN [d.employee[e] EXCEPT !.override = c] ELSE d.employee[e]]
  BY DEF WithOverride, Database
<1>3. ASSUME NEW e \in Employees
      PROVE  WithOverride(d, S, c).employee[e] =
                IF e \in S THEN [d.employee[e] EXCEPT !.override = c] ELSE d.employee[e]
  BY <1>2
<1>4. \A row \in EmployeeRow : LET u == [row EXCEPT !.override = c]
                               IN  u.level = row.level /\ u.version = row.version /\ u.override = c
  BY DEF EmployeeRow
<1> QED BY <1>1, <1>2, <1>3, <1>4

LEMMA WithLevelTables ==
    ASSUME NEW d \in Database, NEW S, NEW l
    PROVE  /\ WithLevel(d, S, l).cadence = d.cadence /\ WithLevel(d, S, l).default = d.default
           /\ \A e \in Employees :
                 /\ WithLevel(d, S, l).employee[e].override = d.employee[e].override
                 /\ WithLevel(d, S, l).employee[e].level = IF e \in S THEN l ELSE d.employee[e].level
                 /\ WithLevel(d, S, l).employee[e].version =
                       IF e \in S THEN d.employee[e].version + 1 ELSE d.employee[e].version
<1>1. \A e \in Employees : d.employee[e] \in EmployeeRow
  BY DEF Database
<1>2. /\ WithLevel(d, S, l).cadence = d.cadence /\ WithLevel(d, S, l).default = d.default
      /\ WithLevel(d, S, l).employee =
             [e \in Employees |-> IF e \in S THEN MovedTo(d.employee[e], l) ELSE d.employee[e]]
  BY DEF WithLevel, Database
<1>3. ASSUME NEW e \in Employees
      PROVE  WithLevel(d, S, l).employee[e] = IF e \in S THEN MovedTo(d.employee[e], l) ELSE d.employee[e]
  BY <1>2
<1>4. \A row \in EmployeeRow : /\ MovedTo(row, l).level = l /\ MovedTo(row, l).override = row.override
                               /\ MovedTo(row, l).version = row.version + 1
  BY DEF EmployeeRow, MovedTo
<1> QED BY <1>1, <1>2, <1>3, <1>4

LEMMA WithDefaultTables ==
    ASSUME NEW d \in Database, NEW l, NEW c
    PROVE  /\ WithDefault(d, l, c).cadence = d.cadence
           /\ \A k \in Levels : WithDefault(d, l, c).default[k] = IF k = l THEN c ELSE d.default[k]
           /\ WithDefault(d, l, c).employee = d.employee
BY DEF WithDefault, Database

LEMMA WithCadenceTables ==
    ASSUME NEW d \in Database, NEW c, NEW row
    PROVE  /\ \A b \in Cadences : WithCadence(d, c, row).cadence[b] = IF b = c THEN row ELSE d.cadence[b]
           /\ WithCadence(d, c, row).default = d.default
           /\ WithCadence(d, c, row).employee = d.employee
BY DEF WithCadence, Database

LEMMA WithoutCadenceTables ==
    ASSUME NEW d \in Database, NEW c \in Cadences
    PROVE  /\ \A b \in Cadences : WithoutCadence(d, c).cadence[b] = IF b = c THEN Gone(d.cadence[c]) ELSE d.cadence[b]
           /\ \A l \in Levels : WithoutCadence(d, c).default[l] = IF d.default[l] = c THEN Null ELSE d.default[l]
           /\ \A e \in Employees :
                 /\ WithoutCadence(d, c).employee[e].level = d.employee[e].level
                 /\ WithoutCadence(d, c).employee[e].version = d.employee[e].version
                 /\ WithoutCadence(d, c).employee[e].override =
                       IF d.employee[e].override = c THEN Null ELSE d.employee[e].override
<1>1. \A e \in Employees : d.employee[e] \in EmployeeRow
  BY DEF Database
<1>2. DOMAIN d.default = Levels /\ DOMAIN d.cadence = Cadences
  BY DEF Database
<1>3. /\ WithoutCadence(d, c).cadence = [d.cadence EXCEPT ![c] = Gone(d.cadence[c])]
      /\ WithoutCadence(d, c).default = Nulled(d.default, c)
      /\ WithoutCadence(d, c).employee = [e \in Employees |->
             IF d.employee[e].override = c THEN [d.employee[e] EXCEPT !.override = Null] ELSE d.employee[e]]
  BY DEF WithoutCadence, Database
<1>4. ASSUME NEW e \in Employees
      PROVE  WithoutCadence(d, c).employee[e] =
                IF d.employee[e].override = c THEN [d.employee[e] EXCEPT !.override = Null] ELSE d.employee[e]
  BY <1>3
<1>5. \A row \in EmployeeRow : LET u == [row EXCEPT !.override = Null]
                               IN  u.level = row.level /\ u.version = row.version /\ u.override = Null
  BY DEF EmployeeRow
<1>6. \A b \in Cadences : WithoutCadence(d, c).cadence[b] = IF b = c THEN Gone(d.cadence[c]) ELSE d.cadence[b]
  BY <1>2, <1>3
<1>7. \A l \in Levels : WithoutCadence(d, c).default[l] = IF d.default[l] = c THEN Null ELSE d.default[l]
  BY <1>2, <1>3 DEF Nulled
<1>8. ASSUME NEW e \in Employees
      PROVE  /\ WithoutCadence(d, c).employee[e].level = d.employee[e].level
             /\ WithoutCadence(d, c).employee[e].version = d.employee[e].version
             /\ WithoutCadence(d, c).employee[e].override =
                   IF d.employee[e].override = c THEN Null ELSE d.employee[e].override
  BY <1>1, <1>4, <1>5
<1> QED BY <1>6, <1>7, <1>8, Zenon

LEMMA GoneRow ==
    ASSUME NEW row \in CadenceRow
    PROVE  ~Gone(row).stored /\ ~Gone(row).active /\ ~Gone(row).standard
BY DEF Gone, CadenceRow

-----------------------------------------------------------------------------
(* The keys of the tables                                                  *)

(* No foreign key is left without its cadence.                             *)
ReferencesStored(d) == \A c \in Cadences : Referenced(d, c) => d.cadence[c].stored

(* What a request for a cadence is given; one that finds nothing changed   *)
(* writes at once.                                                         *)
Given(q) ==
    /\ q.op \in {"levelName", "cadenceName"} => q.at = "checked"
    /\ q.op \in CadenceWrites \cup {"cadenceName"} => q.of \in Cadences
    /\ q.op \in {"create", "update", "cadenceName"} => q.row.stored

(* What a transaction has written and not committed refers to what is      *)
(* there and stays there, and makes no second standard cadence.            *)
ReferencesHeld ==
    \A r \in Requests : Running(r, {"override", "default"}, {"saved"}) /\ request[r].to # Null =>
        /\ db.cadence[request[r].to].stored
        /\ \A p \in Requests : Running(p, {"delete"}, {"saved"}) => request[p].of # request[r].to
StandardHeld ==
    \A r \in Requests : Running(r, {"update", "create"}, {"saved"}) /\ request[r].row.standard =>
        /\ \A c \in Cadences \ {request[r].of} : ~(db.cadence[c].stored /\ db.cadence[c].standard)
        /\ \A p \in Requests : Running(p, {"update", "create"}, {"saved"}) /\ request[p].row.standard => p = r

KeysInv ==
    /\ ReferencesStored(db) /\ OneStandard(db) /\ ReferencesHeld /\ StandardHeld
    /\ \A r \in Requests : request[r] # Idle => Given(request[r])

(* A write that refers to nothing but what is there leaves no reference    *)
(* without its cadence.                                                    *)
LEMMA WriteKeepsReferences ==
    ASSUME NEW d \in Database, NEW t \in Database, NEW p \in Request, Given(p), SameTables(Written(d, p), t),
           p.op \in {"override", "default", "levelName"} /\ p.to # Null => d.cadence[p.to].stored,
           ReferencesStored(d)
    PROVE  ReferencesStored(t)
<1> SUFFICES ASSUME NEW c \in Cadences, Referenced(t, c) PROVE t.cadence[c].stored
  BY DEF ReferencesStored
<1>1. /\ Referenced(d, c) => d.cadence[c].stored
      /\ \A e \in Employees : d.employee[e].override = c => Referenced(d, c)
      /\ \A l \in Levels : d.default[l] = c => Referenced(d, c)
  BY DEF ReferencesStored, Referenced
<1>2. c # Null
  BY ScheduleAssumption
<1>3. CASE p.op = "publish"
  <2>1. Referenced(d, c) /\ t.cadence = d.cadence
    BY <1>3 DEF Written, SameTables, SameRow, Referenced
  <2> QED BY <1>1, <2>1
<1>4. CASE p.op = "override"
  <2>1. Written(d, p) = WithOverride(d, p.who, p.to)
    BY <1>4 DEF Written
  <2>2. /\ t.cadence = d.cadence /\ t.default = d.default
        /\ \A e \in Employees : t.employee[e].override = IF e \in p.who THEN p.to ELSE d.employee[e].override
    BY <2>1, WithOverrideTables DEF SameTables, SameRow
  <2> QED BY <1>1, <1>2, <1>4, <2>2 DEF Referenced
<1>5. CASE p.op = "move"
  <2>1. Written(d, p) = WithLevel(d, p.who, p.to)
    BY <1>5 DEF Written
  <2>2. /\ t.cadence = d.cadence /\ t.default = d.default
        /\ \A e \in Employees : t.employee[e].override = d.employee[e].override
    BY <2>1, WithLevelTables DEF SameTables, SameRow
  <2> QED BY <1>1, <2>2 DEF Referenced
<1>6. CASE p.op \in {"default", "levelName"}
  <2>1. Written(d, p) = WithDefault(d, p.of, p.to)
    BY <1>6 DEF Written
  <2>2. /\ t.cadence = d.cadence
        /\ \A l \in Levels : t.default[l] = IF l = p.of THEN p.to ELSE d.default[l]
        /\ \A e \in Employees : t.employee[e].override = d.employee[e].override
    BY <2>1, WithDefaultTables DEF SameTables, SameRow
  <2> QED BY <1>1, <1>2, <1>6, <2>2 DEF Referenced
<1>7. CASE p.op \in {"update", "cadenceName", "create"}
  <2>1. Written(d, p) = WithCadence(d, p.of, p.row) /\ p.row.stored
    BY <1>7 DEF Written, Given
  <2>2. /\ \A b \in Cadences : t.cadence[b] = IF b = p.of THEN p.row ELSE d.cadence[b]
        /\ t.default = d.default
        /\ \A e \in Employees : t.employee[e].override = d.employee[e].override
    BY <2>1, WithCadenceTables DEF SameTables, SameRow
  <2> QED BY <1>1, <2>1, <2>2 DEF Referenced
<1>8. CASE p.op = "delete"
  <2>1. Written(d, p) = WithoutCadence(d, p.of) /\ p.of \in Cadences
    BY <1>8 DEF Written, Given, CadenceWrites
  <2>2. /\ \A b \in Cadences : b # p.of => t.cadence[b] = d.cadence[b]
        /\ \A l \in Levels : t.default[l] = IF d.default[l] = p.of THEN Null ELSE d.default[l]
    BY <2>1, WithoutCadenceTables DEF SameTables
  <2>3. \A e \in Employees : t.employee[e].override =
            IF d.employee[e].override = p.of THEN Null ELSE d.employee[e].override
    <3> SUFFICES ASSUME NEW e \in Employees
                 PROVE  t.employee[e].override = IF d.employee[e].override = p.of THEN Null ELSE d.employee[e].override
      OBVIOUS
    <3>1. t.employee[e].override = WithoutCadence(d, p.of).employee[e].override
      BY <2>1 DEF SameTables, SameRow
    <3>2. WithoutCadence(d, p.of).employee[e].override =
              IF d.employee[e].override = p.of THEN Null ELSE d.employee[e].override
      BY <2>1, WithoutCadenceTables
    <3> QED BY <3>1, <3>2
  <2> QED BY <1>1, <1>2, <2>2, <2>3 DEF Referenced
<1> QED BY <1>3, <1>4, <1>5, <1>6, <1>7, <1>8 DEF Request, Operations

(* What a write does to the cadences.                                      *)
LEMMA WrittenCadences ==
    ASSUME NEW d \in Database, NEW t \in Database, NEW p \in Request, Given(p), SameTables(Written(d, p), t),
           NEW c \in Cadences
    PROVE  \/ t.cadence[c] = d.cadence[c]
           \/ c = p.of /\ p.op \in {"update", "cadenceName", "create"} /\ t.cadence[c] = p.row
           \/ c = p.of /\ p.op = "delete" /\ ~t.cadence[c].stored
<1>1. CASE p.op \in {"publish", "override", "move", "default", "levelName"}
  BY <1>1, WithOverrideTables, WithLevelTables, WithDefaultTables DEF Written, SameTables
<1>2. CASE p.op \in {"update", "cadenceName", "create"}
  <2>1. Written(d, p) = WithCadence(d, p.of, p.row)
    BY <1>2 DEF Written
  <2> QED BY <1>2, <2>1, WithCadenceTables DEF SameTables
<1>3. CASE p.op = "delete"
  <2>1. Written(d, p) = WithoutCadence(d, p.of) /\ p.of \in Cadences /\ d.cadence[p.of] \in CadenceRow
    BY <1>3 DEF Written, Given, CadenceWrites, Database
  <2>2. t.cadence[c] = IF c = p.of THEN Gone(d.cadence[p.of]) ELSE d.cadence[c]
    BY <2>1, WithoutCadenceTables DEF SameTables
  <2> QED BY <1>3, <2>1, <2>2, GoneRow
<1> QED BY <1>1, <1>2, <1>3 DEF Request, Operations

(* A step of a request that has nothing saved after it, and writes nothing. *)
LEMMA UnsavedKeepsKeys ==
    ASSUME ScheduleTypeOK, KeysInv, NEW r \in Requests, NEW u, request' = [request EXCEPT ![r] = u], db' = db,
           u = Idle \/ (u.at # "saved" /\ Given(u))
    PROVE  KeysInv'
<1>1. request'[r] = u /\ \A s \in Requests : s # r => request'[s] = request[s]
  BY DEF ScheduleTypeOK
<1>2. ASSUME NEW s \in Requests, NEW ops, Running(s, ops, {"saved"})'
      PROVE  Running(s, ops, {"saved"}) /\ request'[s] = request[s]
  BY <1>1, <1>2 DEF Running
<1>3. ReferencesHeld' /\ StandardHeld'
  BY <1>2 DEF KeysInv, ReferencesHeld, StandardHeld
<1>4. \A s \in Requests : request'[s] # Idle => Given(request'[s])
  BY <1>1 DEF KeysInv
<1> QED BY <1>3, <1>4 DEF KeysInv

LEMMA MadeIsGiven ==
    ASSUME NEW r \in Requests, RequestMade(r)
    PROVE  \E asked : asked.at = "checked" /\ Given(asked) /\ Ask(r, asked)
<1>1. CASE \E S \in SUBSET Employees : PublishEvaluations(r, S)
  BY <1>1 DEF PublishEvaluations, Blank, Given, CadenceWrites
<1>2. CASE \E e \in Employees, c \in Cadences \cup {Null} : UpdateCadenceOverride(r, e, c)
  BY <1>2 DEF UpdateCadenceOverride, Blank, Given, CadenceWrites
<1>3. CASE \E e \in Employees, l \in Levels : UpdateEmployee(r, e, l)
  BY <1>3 DEF UpdateEmployee, Blank, Given, CadenceWrites
<1>4. CASE \E l \in Levels, c \in Cadences \cup {Null} : UpdateJobLevel(r, l, c)
  BY <1>4 DEF UpdateJobLevel, Blank, Given, CadenceWrites
<1>5. CASE \E c \in Cadences, row \in CadenceRow : UpdateCadence(r, c, row) \/ CreateCadence(r, c, row)
  BY <1>5 DEF UpdateCadence, CreateCadence, Blank, Given, CadenceWrites
<1>6. CASE \E c \in Cadences : DeleteCadence(r, c)
  BY <1>6 DEF DeleteCadence, Blank, Given, CadenceWrites
<1> QED BY <1>1, <1>2, <1>3, <1>4, <1>5, <1>6 DEF RequestMade

LEMMA RecalculateKeepsKeys ==
    ASSUME ScheduleTypeOK, KeysInv, NEW r \in Requests, Recalculate(r)
    PROVE  KeysInv'
<1>1. /\ request[r] \in Request /\ request[r] # Idle /\ MayWrite(r) /\ db' = db
      /\ \A s \in Requests : s # r => request'[s] = request[s]
      /\ request'[r].op = request[r].op /\ request'[r].of = request[r].of
      /\ request'[r].to = request[r].to /\ request'[r].row = request[r].row
  BY DEF ScheduleTypeOK, Recalculate, Request
<1>2. ASSUME NEW s \in Requests, s # r, NEW ops, Running(s, ops, {"saved"})'
      PROVE  Running(s, ops, {"saved"}) /\ request'[s] = request[s]
  BY <1>1, <1>2 DEF Running
<1>3. ReferencesHeld'
  <2> SUFFICES ASSUME NEW s \in Requests, Running(s, {"override", "default"}, {"saved"})', request'[s].to # Null
               PROVE  /\ db.cadence[request'[s].to].stored
                      /\ \A p \in Requests : Running(p, {"delete"}, {"saved"})' => request'[p].of # request'[s].to
    BY <1>1 DEF ReferencesHeld
  <2>1. CASE s = r
    <3>1. db.cadence[request[r].to].stored
      BY <1>1, <2>1 DEF MayWrite, Running
    <3>2. ASSUME NEW p \in Requests, Running(p, {"delete"}, {"saved"})' PROVE request'[p].of # request'[s].to
      <4>1. p # r
        BY <2>1, <3>2 DEF Running
      <4>2. Running(p, {"delete"}, {"saved"}) /\ request'[p] = request[p]
        BY <1>2, <3>2, <4>1
      <4>3. ~HoldsCadence(p, request[r].to)
        BY <1>1, <2>1, <4>1, <4>2 DEF MayWrite, Others, Running
      <4> QED BY <1>1, <2>1, <4>2, <4>3 DEF HoldsCadence, Running, CadenceWrites
    <3> QED BY <1>1, <2>1, <3>1, <3>2
  <2>2. CASE s # r
    <3>1. Running(s, {"override", "default"}, {"saved"}) /\ request'[s] = request[s]
      BY <1>2, <2>2
    <3>2. ASSUME NEW p \in Requests, Running(p, {"delete"}, {"saved"})' PROVE request'[p].of # request[s].to
      <4>1. CASE p = r
        <5>1. ~Refers(s, request[r].of)
          BY <1>1, <2>2, <3>2, <4>1 DEF MayWrite, Others, Running
        <5> QED BY <1>1, <3>1, <4>1, <5>1 DEF Refers
      <4>2. CASE p # r
        BY <1>2, <3>1, <3>2, <4>2 DEF KeysInv, ReferencesHeld
      <4> QED BY <4>1, <4>2
    <3> QED BY <3>1, <3>2 DEF KeysInv, ReferencesHeld
  <2> QED BY <2>1, <2>2
<1>4. StandardHeld'
  <2>1. request[r].op \in {"update", "create"} /\ request[r].row.standard =>
            /\ \A c \in Cadences \ {request[r].of} : ~(db.cadence[c].stored /\ db.cadence[c].standard)
            /\ \A p \in Requests : p # r /\ Running(p, {"update", "create"}, {"saved"}) => ~request[p].row.standard
    BY <1>1 DEF MayWrite, Others
  <2> SUFFICES ASSUME NEW s \in Requests, Running(s, {"update", "create"}, {"saved"})', request'[s].row.standard
               PROVE  /\ \A c \in Cadences \ {request'[s].of} : ~(db.cadence[c].stored /\ db.cadence[c].standard)
                      /\ \A p \in Requests :
                            Running(p, {"update", "create"}, {"saved"})' /\ request'[p].row.standard => p = s
    BY <1>1 DEF StandardHeld
  <2>2. CASE s = r
    BY <1>1, <1>2, <2>1, <2>2 DEF Running
  <2>3. CASE s # r
    <3>1. Running(s, {"update", "create"}, {"saved"}) /\ request'[s] = request[s]
      BY <1>2, <2>3
    <3>2. ASSUME NEW p \in Requests, Running(p, {"update", "create"}, {"saved"})', request'[p].row.standard
          PROVE  p = s
      <4>1. p # r
        BY <1>1, <2>1, <2>3, <3>1, <3>2 DEF Running
      <4>2. Running(p, {"update", "create"}, {"saved"}) /\ request'[p] = request[p]
        BY <1>2, <3>2, <4>1
      <4> QED BY <3>1, <3>2, <4>2 DEF KeysInv, StandardHeld
    <3> QED BY <3>1, <3>2 DEF KeysInv, StandardHeld
  <2> QED BY <2>2, <2>3
<1>5. Given(request[r]) /\ request[r].at = "locked"
  BY <1>1 DEF KeysInv, Recalculate
<1>6. \A s \in Requests : request'[s] # Idle => Given(request'[s])
  BY <1>1, <1>5 DEF KeysInv, Given
<1> QED BY <1>1, <1>3, <1>4, <1>6 DEF KeysInv

LEMMA WriteKeepsKeys ==
    ASSUME ScheduleTypeOK, KeysInv, NEW r \in Requests, Commit(r) \/ WriteOnly(r)
    PROVE  KeysInv'
<1> DEFINE p == request[r]
<1>1. /\ p \in Request /\ p # Idle /\ db \in Database /\ Given(p)
      /\ request' = [request EXCEPT ![r] = Idle] /\ (p.at = "saved" \/ MayWrite(r))
  BY DEF ScheduleTypeOK, Commit, WriteOnly, KeysInv
<1>2. PICK w \in Database : w = Written(db, p)
  BY <1>1, WrittenKeeps DEF KeepsSchedules
<1>3. db' \in Database /\ SameTables(Written(db, p), db')
  <2>1. CASE Commit(r)
    BY <1>1, <1>2, <2>1, SavedSchedules, SavedTables DEF Commit
  <2>2. CASE WriteOnly(r)
    BY <1>2, <2>2 DEF WriteOnly, SameTables, SameRow
  <2> QED BY <2>1, <2>2
<1>4. \A s \in Requests : s # r => request'[s] = request[s]
  BY <1>1 DEF ScheduleTypeOK
<1>5. ASSUME NEW s \in Requests, NEW ops, Running(s, ops, {"saved"})'
      PROVE  s # r /\ Running(s, ops, {"saved"}) /\ request'[s] = request[s]
  BY <1>1, <1>4, <1>5 DEF Running, ScheduleTypeOK
<1>6. p.op \in {"override", "default", "levelName"} /\ p.to # Null => db.cadence[p.to].stored
  <2>1. CASE p.at = "saved" /\ p.op # "levelName"
    BY <1>1, <2>1 DEF KeysInv, ReferencesHeld, Running
  <2>2. CASE MayWrite(r)
    BY <2>2 DEF MayWrite
  <2> QED BY <1>1, <2>1, <2>2 DEF Given
<1>7. ReferencesStored(db')
  BY <1>1, <1>3, <1>6, WriteKeepsReferences DEF KeysInv
<1>8. ASSUME p.op \in {"update", "cadenceName", "create"}, p.row.standard
      PROVE  /\ \A c \in Cadences \ {p.of} : ~(db.cadence[c].stored /\ db.cadence[c].standard)
             /\ \A s \in Requests : s # r /\ Running(s, {"update", "create"}, {"saved"}) => ~request[s].row.standard
  <2>1. CASE p.at = "saved" /\ p.op # "cadenceName"
    BY <1>1, <1>8, <2>1 DEF KeysInv, StandardHeld, Running
  <2>2. CASE MayWrite(r)
    BY <1>8, <2>2 DEF MayWrite, Others
  <2> QED BY <1>1, <2>1, <2>2 DEF Given
<1>9. \A c \in Cadences : \/ db'.cadence[c] = db.cadence[c]
                          \/ c = p.of /\ p.op \in {"update", "cadenceName", "create"} /\ db'.cadence[c] = p.row
                          \/ c = p.of /\ p.op = "delete" /\ ~db'.cadence[c].stored
  BY <1>1, <1>3, WrittenCadences
<1>10. OneStandard(db')
  BY <1>8, <1>9 DEF KeysInv, OneStandard
<1>11. ReferencesHeld'
  <2> SUFFICES ASSUME NEW s \in Requests, Running(s, {"override", "default"}, {"saved"})', request'[s].to # Null
               PROVE  /\ db'.cadence[request'[s].to].stored
                      /\ \A x \in Requests : Running(x, {"delete"}, {"saved"})' => request'[x].of # request'[s].to
    BY DEF ReferencesHeld
  <2>1. s # r /\ Running(s, {"override", "default"}, {"saved"}) /\ request'[s] = request[s]
    BY <1>5
  <2>2. request[s].to \in Cadences /\ db.cadence[request[s].to].stored
    BY <2>1 DEF KeysInv, ReferencesHeld, ScheduleTypeOK, Request, Running
  <2>3. p.op = "delete" => p.of # request[s].to
    <3>1. CASE p.at = "saved"
      BY <1>1, <2>1, <3>1 DEF KeysInv, ReferencesHeld, Running
    <3>2. CASE MayWrite(r)
      BY <2>1, <3>2 DEF MayWrite, Others, Refers
    <3> QED BY <1>1, <3>1, <3>2
  <2>4. db'.cadence[request[s].to].stored
    BY <1>1, <1>9, <2>2, <2>3 DEF Given
  <2> QED BY <1>5, <2>1, <2>4 DEF KeysInv, ReferencesHeld
<1>12. StandardHeld'
  <2> SUFFICES ASSUME NEW s \in Requests, Running(s, {"update", "create"}, {"saved"})', request'[s].row.standard
               PROVE  /\ \A c \in Cadences \ {request'[s].of} : ~(db'.cadence[c].stored /\ db'.cadence[c].standard)
                      /\ \A x \in Requests :
                            Running(x, {"update", "create"}, {"saved"})' /\ request'[x].row.standard => x = s
    BY DEF StandardHeld
  <2>1. s # r /\ Running(s, {"update", "create"}, {"saved"}) /\ request'[s] = request[s]
    BY <1>5
  <2>2. /\ \A c \in Cadences \ {request[s].of} : ~(db.cadence[c].stored /\ db.cadence[c].standard)
        /\ \A x \in Requests : Running(x, {"update", "create"}, {"saved"}) /\ request[x].row.standard => x = s
    BY <2>1 DEF KeysInv, StandardHeld
  <2>3. p.op \in {"update", "cadenceName", "create"} => ~p.row.standard
    BY <1>8, <2>1
  <2>4. \A c \in Cadences \ {request[s].of} : ~(db'.cadence[c].stored /\ db'.cadence[c].standard)
    BY <1>9, <2>2, <2>3
  <2> QED BY <1>5, <2>1, <2>2, <2>4
<1>13. \A s \in Requests : request'[s] # Idle => Given(request'[s])
  BY <1>1, <1>4 DEF KeysInv, ScheduleTypeOK
<1> QED BY <1>7, <1>10, <1>11, <1>12, <1>13 DEF KeysInv

LEMMA InitKeysInv == ScheduleInit => KeysInv
<1> SUFFICES ASSUME ScheduleInit PROVE KeysInv
  OBVIOUS
<1>1. \A r \in Requests : request[r] = Idle
  BY DEF ScheduleInit
<1>2. ReferencesStored(db) /\ OneStandard(db)
  BY DEF ScheduleInit, ReferencesStored
<1> QED BY <1>1, <1>2 DEF KeysInv, ReferencesHeld, StandardHeld, Running

LEMMA StepKeysInv == ScheduleTypeOK /\ KeysInv /\ [ScheduleNext]_scheduleVars => KeysInv'
<1> SUFFICES ASSUME ScheduleTypeOK, KeysInv, [ScheduleNext]_scheduleVars PROVE KeysInv'
  OBVIOUS
<1>1. CASE UNCHANGED scheduleVars
  BY <1>1 DEF scheduleVars, KeysInv, ReferencesHeld, StandardHeld, Running
<1>2. ASSUME NEW r \in Requests, RequestMade(r) PROVE KeysInv'
  <2>1. PICK asked : asked.at = "checked" /\ Given(asked) /\ Ask(r, asked)
    BY <1>2, MadeIsGiven
  <2> QED BY <2>1, UnsavedKeepsKeys DEF Ask
<1>3. ASSUME NEW r \in Requests, FindEmployees(r) \/ LockEmployees(r) PROVE KeysInv'
  <2> DEFINE q == request[r]
  <2>1. q \in Request /\ Given(q) /\ db' = db
    BY <1>3 DEF FindEmployees, LockEmployees, ScheduleTypeOK, KeysInv
  <2>2. CASE FindEmployees(r)
    <3>1. q.op \notin {"levelName", "cadenceName"}
      BY <2>2 DEF FindEmployees, Captures
    <3>2. PICK found : request' = [request EXCEPT ![r] = [q EXCEPT !.at = "locking", !.found = found]]
      BY <2>2 DEF FindEmployees
    <3>3. PICK u : u = [q EXCEPT !.at = "locking", !.found = found]
      OBVIOUS
    <3>4. u.at = "locking" /\ u.op = q.op /\ u.of = q.of /\ u.row = q.row
      BY <2>1, <3>3 DEF Request
    <3>5. Given(u)
      BY <2>1, <3>1, <3>4 DEF Given
    <3> QED BY <2>1, <3>2, <3>3, <3>4, <3>5, UnsavedKeepsKeys
  <2>3. CASE LockEmployees(r)
    <3>1. q.at = "locking"
      BY <2>3 DEF LockEmployees
    <3>2. PICK locked, schedule :
              request' = [request EXCEPT ![r] =
                             [q EXCEPT !.at = "locked", !.found = {}, !.who = locked, !.schedule = schedule]]
      BY <2>3 DEF LockEmployees
    <3>3. PICK u : u = [q EXCEPT !.at = "locked", !.found = {}, !.who = locked, !.schedule = schedule]
      OBVIOUS
    <3>4. u.at = "locked" /\ u.op = q.op /\ u.of = q.of /\ u.row = q.row
      BY <2>1, <3>3 DEF Request
    <3>5. Given(u)
      BY <2>1, <3>1, <3>4 DEF Given
    <3> QED BY <2>1, <3>2, <3>3, <3>4, <3>5, UnsavedKeepsKeys
  <2> QED BY <1>3, <2>2, <2>3
<1>4. ASSUME NEW r \in Requests, Rollback(r) PROVE KeysInv'
  BY <1>4, UnsavedKeepsKeys DEF Rollback
<1> QED BY <1>1, <1>2, <1>3, <1>4, RecalculateKeepsKeys, WriteKeepsKeys DEF ScheduleNext, RequestStep

(* Whatever requests run at the same time, serialized or not, no foreign   *)
(* key is left without its cadence and no two cadences are standard: a     *)
(* deletion and a reference, and two new standards, wait for each other    *)
(* from the write to the commit.                                           *)
THEOREM KeysHold == ScheduleSpec => [](ReferencesStored(db) /\ OneStandard(db))
<1>1. KeysInv => ReferencesStored(db) /\ OneStandard(db)
  BY DEF KeysInv
<1> QED BY <1>1, InitScheduleTypeOK, StepScheduleTypeOK, InitKeysInv, StepKeysInv, PTL DEF ScheduleSpec

-----------------------------------------------------------------------------
(* What the cadence in effect depends on                                   *)

(* The override of the employee and the default of its level.              *)
SameChoice(d, t, e) ==
    /\ t.employee[e].override = d.employee[e].override
    /\ t.default[t.employee[e].level] = d.default[d.employee[e].level]

LEMMA SameCadences ==
    ASSUME NEW d, NEW t, t.cadence = d.cadence
    PROVE  /\ \A c : Tier(t, c) = Tier(d, c) /\ IntervalOf(t, c) = IntervalOf(d, c)
           /\ StandardTiers(t) = StandardTiers(d)
<1>1. \A c : Tier(t, c) = Tier(d, c) /\ IntervalOf(t, c) = IntervalOf(d, c)
  BY DEF Tier, IntervalOf
<1> QED BY <1>1 DEF StandardTiers

LEMMA SameInterval ==
    ASSUME NEW d, NEW t, NEW e, t.cadence = d.cadence, SameChoice(d, t, e)
    PROVE  EffectiveInterval(t, e) = EffectiveInterval(d, e)
<1>1. OverrideTier(t, e) = OverrideTier(d, e) /\ LevelTier(t, e) = LevelTier(d, e)
  BY SameCadences DEF OverrideTier, LevelTier, SameChoice
<1>2. /\ \A c : IntervalOf(t, c) = IntervalOf(d, c)
      /\ StandardTiers(t) = StandardTiers(d)
  BY SameCadences
<1> QED BY <1>1, <1>2, Zenon DEF EffectiveInterval

(* The tiers decide one after the other.                                   *)
LEMMA IntervalByOverride ==
    ASSUME NEW d, NEW t, NEW e, OverrideTier(d, e) # Null, OverrideTier(t, e) = OverrideTier(d, e),
           IntervalOf(t, OverrideTier(d, e)) = IntervalOf(d, OverrideTier(d, e))
    PROVE  EffectiveInterval(t, e) = EffectiveInterval(d, e)
BY DEF EffectiveInterval

LEMMA IntervalByLevel ==
    ASSUME NEW d, NEW t, NEW e, OverrideTier(d, e) = Null, OverrideTier(t, e) = Null,
           LevelTier(d, e) # Null, LevelTier(t, e) = LevelTier(d, e),
           IntervalOf(t, LevelTier(d, e)) = IntervalOf(d, LevelTier(d, e))
    PROVE  EffectiveInterval(t, e) = EffectiveInterval(d, e)
BY DEF EffectiveInterval

LEMMA IntervalByStandard ==
    ASSUME NEW d, NEW t, NEW e, OverrideTier(d, e) = Null, OverrideTier(t, e) = Null,
           LevelTier(d, e) = Null, LevelTier(t, e) = Null,
           StandardTiers(t) = StandardTiers(d), \A c \in StandardTiers(d) : IntervalOf(t, c) = IntervalOf(d, c)
    PROVE  EffectiveInterval(t, e) = EffectiveInterval(d, e)
<1>1. StandardTiers(d) # {} => (CHOOSE c \in StandardTiers(d) : TRUE) \in StandardTiers(d)
  OBVIOUS
<1> QED BY <1>1 DEF EffectiveInterval

-----------------------------------------------------------------------------
(* What a request relies on.  Of the operations that no lock serializes    *)
(* with it none runs, as long as ~overlaps, and so what it has read before *)
(* its transaction stays what it was.                                      *)

Going(r) == request[r] # Idle
Begun == {"locking", "locked", "saved"}
Selecting == CadenceWrites \cup {"default"}

(* What is fixed when it is asked.                                         *)
WellFormed(q) ==
    /\ q.op \in CadenceWrites \cup {"cadenceName"} => q.of \in Cadences
    /\ q.op \in {"default", "levelName"} => q.of \in Levels
    /\ q.op \in {"create", "update"} => q.row.stored
    /\ q.op \in {"create", "delete"} => q.fallback
    /\ q.at # "checked" => Captures(q)

(* What it has read on the pool.                                           *)
StillKnown(d, q) ==
    /\ q.op = "move" => \A e \in q.who : /\ q.version <= d.employee[e].version
                                         /\ q.version = d.employee[e].version => d.employee[e].level = q.of
    /\ q.op = "levelName" => d.default[q.of] = q.to
    /\ q.op = "cadenceName" /\ d.cadence[q.of].stored => d.cadence[q.of] = q.row
    /\ q.op \in {"create", "delete"} => ~Referenced(d, q.of)
    /\ q.op = "create" => ~d.cadence[q.of].stored
    /\ q.op = "delete" /\ d.cadence[q.of].standard => q.row.standard
    /\ q.op = "update" /\ (d.cadence[q.of].standard \/ q.row.standard) => q.fallback

(* The employees it has found, and locked, are those its write concerns.   *)
WantedNow(d, q) == {e \in Employees : Wanted(q, Join(d, e))}
StillWanted(d, q) ==
    q.op \in Selecting =>
        /\ q.at = "locking" => q.found = {Join(d, e) : e \in WantedNow(d, q)}
        /\ q.at \in {"locked", "saved"} => q.who = WantedNow(d, q)

(* What it has derived, and what the write has found when it was made.     *)
StillRight(d, q) ==
    q.at = "saved" =>
        /\ q.op \in {"override", "default"} /\ q.to # Null => d.cadence[q.to].stored
        /\ q.op = "move" => \A e \in q.who : q.version = d.employee[e].version
        /\ q.op = "create" => \A c \in Cadences \ {q.of} : ~(d.cadence[c].stored /\ d.cadence[c].standard)
        /\ \A e \in q.who : q.schedule[e] = ScheduleFrom(Written(d, q), e, q.schedule[e].base)

Relies(d, q) == StillKnown(d, q) /\ StillWanted(d, q) /\ StillRight(d, q)

Serialized ==
    \A r, p \in Requests : r # p /\ Going(r) /\ Going(p) => ~MayMiss(request[r].op, request[p].op)

(* The locks of the levels.                                                *)
LevelsApart ==
    \A r, p \in Requests : r # p /\ Running(r, {"default"}, Begun) =>
        /\ Running(p, {"default", "move"}, Begun) => request[p].of # request[r].of
        /\ Running(p, {"move"}, Begun) => request[p].to # request[r].of

(* An id is new when a cadence is created, and so is a standard one.       *)
CreatedApart ==
    \A r, p \in Requests : r # p /\ Running(r, {"create"}, Stages) =>
        /\ Running(p, CadenceWrites \cup {"cadenceName"}, Stages) => request[p].of # request[r].of
        /\ Running(p, {"create"}, {"saved"}) /\ request[r].at = "saved" =>
              ~(request[r].row.standard /\ request[p].row.standard)

DueParts ==
    /\ Serialized /\ LevelsApart /\ CreatedApart /\ ReferencesStored(db)
    /\ \A e \in Employees : Current(db, e)
    /\ \A r \in Requests : Going(r) => WellFormed(request[r]) /\ Relies(db, request[r])

DueInv == ~overlaps => DueParts

-----------------------------------------------------------------------------
(* A write spares whom it does not concern                                 *)

LEMMA StandardTier ==
    ASSUME NEW d, NEW c \in Cadences
    PROVE  c \in StandardTiers(d) <=> d.cadence[c].standard /\ d.cadence[c].stored /\ d.cadence[c].active
BY ScheduleAssumption DEF StandardTiers, Tier

(* A change of one cadence, seen from another.                             *)
LEMMA OtherCadences ==
    ASSUME NEW d, NEW t, NEW c, \A b \in Cadences \ {c} : t.cadence[b] = d.cadence[b]
    PROVE  /\ \A b \in Cadences \cup {Null} : b # c => Tier(t, b) = Tier(d, b)
           /\ \A b \in Cadences : b # c => /\ IntervalOf(t, b) = IntervalOf(d, b)
                                           /\ b \in StandardTiers(t) <=> b \in StandardTiers(d)
<1>1. \A b \in Cadences \cup {Null} : b # c => Tier(t, b) = Tier(d, b)
  BY DEF Tier
<1>2. \A b \in Cadences : b # c => IntervalOf(t, b) = IntervalOf(d, b)
  BY DEF IntervalOf
<1>3. \A b \in Cadences : b # c => (b \in StandardTiers(t) <=> b \in StandardTiers(d))
  BY StandardTier
<1> QED BY <1>1, <1>2, <1>3

LEMMA CadenceSpares ==
    ASSUME NEW d \in Database, NEW t, NEW c, NEW e \in Employees,
           \A b \in Cadences \ {c} : t.cadence[b] = d.cadence[b], SameChoice(d, t, e),
           d.employee[e].override # c,
           OverrideTier(d, e) = Null => d.default[d.employee[e].level] # c,
           OverrideTier(d, e) = Null /\ LevelTier(d, e) = Null =>
               c \notin StandardTiers(d) /\ c \notin StandardTiers(t)
    PROVE  EffectiveInterval(t, e) = EffectiveInterval(d, e)
<1>1. /\ \A b \in Cadences \cup {Null} : b # c => Tier(t, b) = Tier(d, b)
      /\ \A b \in Cadences : b # c => /\ IntervalOf(t, b) = IntervalOf(d, b)
                                      /\ b \in StandardTiers(t) <=> b \in StandardTiers(d)
  BY OtherCadences, Zenon
<1>2. PICK o \in Cadences \cup {Null} : o = d.employee[e].override
  BY DEF Database, EmployeeRow
<1>3. PICK l \in Cadences \cup {Null} : l = d.default[d.employee[e].level]
  BY DEF Database, EmployeeRow
<1>4. /\ OverrideTier(d, e) = Tier(d, o) /\ OverrideTier(t, e) = Tier(t, o)
      /\ LevelTier(d, e) = Tier(d, l) /\ LevelTier(t, e) = Tier(t, l)
  BY <1>2, <1>3 DEF OverrideTier, LevelTier, SameChoice
<1>5. OverrideTier(t, e) = OverrideTier(d, e)
  BY <1>1, <1>2, <1>4
<1>6. CASE OverrideTier(d, e) # Null
  <2>1. OverrideTier(d, e) = o /\ o \in Cadences
    BY <1>4, <1>6 DEF Tier
  <2>2. IntervalOf(t, o) = IntervalOf(d, o)
    BY <1>1, <1>2, <2>1
  <2> QED BY <1>5, <1>6, <2>1, <2>2, IntervalByOverride
<1>7. CASE OverrideTier(d, e) = Null /\ LevelTier(d, e) # Null
  <2>1. LevelTier(d, e) = l /\ l \in Cadences /\ l # c
    BY <1>3, <1>4, <1>7 DEF Tier
  <2>2. IntervalOf(t, l) = IntervalOf(d, l) /\ LevelTier(t, e) = LevelTier(d, e)
    BY <1>1, <1>4, <2>1
  <2> QED BY <1>5, <1>7, <2>1, <2>2, IntervalByLevel
<1>8. CASE OverrideTier(d, e) = Null /\ LevelTier(d, e) = Null
  <2>1. LevelTier(t, e) = Null
    BY <1>1, <1>3, <1>4, <1>8
  <2>2. StandardTiers(t) = StandardTiers(d)
    <3>1. StandardTiers(t) \subseteq Cadences /\ StandardTiers(d) \subseteq Cadences
      BY DEF StandardTiers
    <3> QED BY <1>1, <1>8, <3>1
  <2>3. \A b \in StandardTiers(d) : IntervalOf(t, b) = IntervalOf(d, b)
    <3>1. StandardTiers(d) \subseteq Cadences \ {c}
      BY <1>8 DEF StandardTiers
    <3> QED BY <1>1, <3>1
  <2> QED BY <1>5, <1>8, <2>1, <2>2, <2>3, IntervalByStandard
<1> QED BY <1>6, <1>7, <1>8

(* What the writes of cadences leave: one cadence changes, and nothing     *)
(* else does as long as a cadence that is deleted is not referred to.      *)
LEMMA CadenceWritten ==
    ASSUME NEW d \in Database, NEW q \in Request, q.op \in CadenceWrites, WellFormed(q), StillKnown(d, q)
    PROVE  /\ \A b \in Cadences \ {q.of} : Written(d, q).cadence[b] = d.cadence[b]
           /\ \A l \in Levels : Written(d, q).default[l] = d.default[l]
           /\ \A e \in Employees : SameRow(d, Written(d, q), e) /\ SameChoice(d, Written(d, q), e)
           /\ Written(d, q).cadence[q.of] = IF q.op = "delete" THEN Gone(d.cadence[q.of]) ELSE q.row
<1>1. q.of \in Cadences /\ \A e \in Employees : d.employee[e].level \in Levels
  BY DEF WellFormed, CadenceWrites, Database, EmployeeRow
<1>2. CASE q.op \in {"update", "create"}
  <2>1. Written(d, q) = WithCadence(d, q.of, q.row)
    BY <1>2 DEF Written
  <2> QED BY <1>1, <1>2, <2>1, WithCadenceTables DEF SameRow, SameChoice
<1>3. CASE q.op = "delete"
  <2>1. Written(d, q) = WithoutCadence(d, q.of)
    BY <1>3 DEF Written
  <2>2. /\ \A e \in Employees : d.employee[e].override # q.of
        /\ \A l \in Levels : d.default[l] # q.of
    BY <1>3 DEF StillKnown, Referenced
  <2>3. \A l \in Levels : Written(d, q).default[l] = d.default[l]
    BY <1>1, <2>1, <2>2, WithoutCadenceTables
  <2>4. ASSUME NEW e \in Employees PROVE SameRow(d, Written(d, q), e)
    <3>1. /\ WithoutCadence(d, q.of).employee[e].level = d.employee[e].level
          /\ WithoutCadence(d, q.of).employee[e].version = d.employee[e].version
          /\ WithoutCadence(d, q.of).employee[e].override =
                IF d.employee[e].override = q.of THEN Null ELSE d.employee[e].override
      BY <1>1, WithoutCadenceTables
    <3> QED BY <2>1, <2>2, <3>1 DEF SameRow
  <2>5. \A e \in Employees : SameChoice(d, Written(d, q), e)
    BY <1>1, <2>3, <2>4 DEF SameRow, SameChoice
  <2>6. /\ \A b \in Cadences \ {q.of} : Written(d, q).cadence[b] = d.cadence[b]
        /\ Written(d, q).cadence[q.of] = Gone(d.cadence[q.of])
    BY <1>1, <2>1, WithoutCadenceTables
  <2> QED BY <1>3, <2>3, <2>4, <2>5, <2>6
<1> QED BY <1>2, <1>3 DEF CadenceWrites

LEMMA WriteSpares ==
    ASSUME NEW d \in Database, NEW q \in Request, WellFormed(q), StillKnown(d, q),
           q.op \in Selecting /\ Captures(q) => q.who = WantedNow(d, q),
           ~Captures(q) => q.op # "cadenceName" \/ d.cadence[q.of].stored,
           NEW e \in Employees, Captures(q) => e \notin q.who
    PROVE  EffectiveInterval(Written(d, q), e) = EffectiveInterval(d, e)
<1> SUFFICES ASSUME NEW t, t = Written(d, q) PROVE EffectiveInterval(t, e) = EffectiveInterval(d, e)
  OBVIOUS
<1>1. d.employee[e].level \in Levels
  BY DEF Database, EmployeeRow
<1>2. CASE q.op = "publish"
  BY <1>2 DEF Written
<1>3. CASE q.op = "override"
  <2>1. t = WithOverride(d, q.who, q.to) /\ e \notin q.who
    BY <1>3 DEF Written, Captures
  <2>2. t.cadence = d.cadence /\ SameChoice(d, t, e)
    BY <2>1, WithOverrideTables DEF SameChoice
  <2> QED BY <2>2, SameInterval
<1>4. CASE q.op = "move"
  <2>1. t = WithLevel(d, q.who, q.to) /\ e \notin q.who
    BY <1>4 DEF Written, Captures
  <2>2. t.cadence = d.cadence /\ SameChoice(d, t, e)
    BY <2>1, WithLevelTables DEF SameChoice
  <2> QED BY <2>2, SameInterval
<1>5. CASE q.op = "levelName"
  <2>1. t = WithDefault(d, q.of, q.to) /\ d.default[q.of] = q.to
    BY <1>5 DEF Written, StillKnown
  <2>2. t.cadence = d.cadence /\ SameChoice(d, t, e)
    BY <1>1, <2>1, WithDefaultTables DEF SameChoice
  <2> QED BY <2>2, SameInterval
<1>6. CASE q.op = "default"
  <2>1. t = WithDefault(d, q.of, q.to) /\ ~(d.employee[e].level = q.of /\ OverrideTier(d, e) = Null)
    BY <1>6 DEF Written, Captures, Selecting, WantedNow, Wanted, Join
  <2>2. CASE d.employee[e].level # q.of
    <3>1. t.cadence = d.cadence /\ SameChoice(d, t, e)
      BY <1>1, <2>1, <2>2, WithDefaultTables DEF SameChoice
    <3> QED BY <3>1, SameInterval
  <2>3. CASE OverrideTier(d, e) # Null
    <3>1. t.cadence = d.cadence /\ t.employee = d.employee
      BY <2>1, WithDefaultTables
    <3>2. OverrideTier(t, e) = OverrideTier(d, e) /\ IntervalOf(t, OverrideTier(d, e)) = IntervalOf(d, OverrideTier(d, e))
      BY <3>1, SameCadences DEF OverrideTier
    <3> QED BY <2>3, <3>2, IntervalByOverride
  <2> QED BY <2>1, <2>2, <2>3
<1>7. CASE q.op = "cadenceName"
  <2>1. t = WithCadence(d, q.of, q.row) /\ d.cadence[q.of] = q.row
    BY <1>7 DEF Written, StillKnown, Captures
  <2>2. t.cadence = d.cadence /\ SameChoice(d, t, e)
    BY <2>1 DEF WithCadence, Database, SameChoice
  <2> QED BY <2>2, SameInterval
<1>8. CASE q.op \in CadenceWrites
  <2>1. /\ \A b \in Cadences \ {q.of} : t.cadence[b] = d.cadence[b]
        /\ SameChoice(d, t, e) /\ q.of \in Cadences /\ d.cadence[q.of] \in CadenceRow
        /\ t.cadence[q.of] = IF q.op = "delete" THEN Gone(d.cadence[q.of]) ELSE q.row
    BY <1>8, CadenceWritten DEF WellFormed, CadenceWrites, Database
  <2>2. CASE q.op \in {"create", "delete"} /\ ~Captures(q)
    <3>1. d.employee[e].override # q.of /\ d.default[d.employee[e].level] # q.of
      BY <1>1, <2>2 DEF StillKnown, Referenced
    <3>2. q.of \notin StandardTiers(d)
      BY <2>1, <2>2, StandardTier DEF StillKnown, Captures
    <3>3. q.of \notin StandardTiers(t)
      <4>1. CASE q.op = "delete"
        BY <2>1, <4>1, StandardTier, GoneRow
      <4>2. CASE q.op = "create"
        BY <2>1, <2>2, <4>2, StandardTier DEF Captures
      <4> QED BY <2>2, <4>1, <4>2
    <3> QED BY <2>1, <3>1, <3>2, <3>3, CadenceSpares
  <2>3. CASE Captures(q)
    <3>1. /\ d.employee[e].override # q.of
          /\ ~(OverrideTier(d, e) = Null /\ d.default[d.employee[e].level] = q.of)
          /\ ~(q.fallback /\ OverrideTier(d, e) = Null /\ LevelTier(d, e) = Null)
      BY <1>8, <2>3 DEF Selecting, CadenceWrites, WantedNow, Wanted, ByCadence, ByName, Join
    <3>2. ~q.fallback => q.of \notin StandardTiers(d) /\ q.of \notin StandardTiers(t)
      <4>1. ~q.fallback => q.op = "update" /\ ~d.cadence[q.of].standard /\ ~q.row.standard
        BY <1>8 DEF WellFormed, CadenceWrites, StillKnown
      <4> QED BY <2>1, <4>1, StandardTier
    <3> QED BY <2>1, <3>1, <3>2, CadenceSpares
  <2> QED BY <1>8, <2>2, <2>3 DEF CadenceWrites, Captures
<1> QED BY <1>2, <1>3, <1>4, <1>5, <1>6, <1>7, <1>8 DEF Request, Operations, CadenceWrites

-----------------------------------------------------------------------------
(* What one request relies on, while another writes                        *)

LEMMA SameJoin ==
    ASSUME NEW d, NEW t, NEW e \in Employees, SameRow(d, t, e), SameChoice(d, t, e),
           OverrideTier(t, e) = OverrideTier(d, e), LevelTier(t, e) = LevelTier(d, e)
    PROVE  Join(t, e) = Join(d, e)
BY DEF Join, SameRow, SameChoice

LEMMA WantedStays ==
    ASSUME NEW d, NEW t, NEW q, StillWanted(d, q),
           q.op \in Selecting /\ q.at \in Begun =>
               \A e \in Employees : /\ Wanted(q, Join(t, e)) <=> Wanted(q, Join(d, e))
                                    /\ Wanted(q, Join(d, e)) => Join(t, e) = Join(d, e)
    PROVE  StillWanted(t, q)
<1> SUFFICES ASSUME q.op \in Selecting, q.at \in Begun PROVE StillWanted(t, q)
  BY DEF StillWanted, Begun
<1>1. WantedNow(t, q) = WantedNow(d, q)
  BY DEF WantedNow
<1>2. \A e \in WantedNow(d, q) : Join(t, e) = Join(d, e)
  BY DEF WantedNow
<1>3. {Join(t, e) : e \in WantedNow(t, q)} = {Join(d, e) : e \in WantedNow(d, q)}
  BY <1>1, <1>2
<1> QED BY <1>1, <1>3 DEF StillWanted

LEMMA RightStays ==
    ASSUME NEW d, NEW t, NEW q \in Request, StillRight(d, q),
           q.at = "saved" =>
             /\ q.op \in {"override", "default"} /\ q.to # Null /\ d.cadence[q.to].stored => t.cadence[q.to].stored
             /\ q.op = "move" => \A e \in q.who : t.employee[e].version = d.employee[e].version
             /\ q.op = "create" => \A c \in Cadences \ {q.of} : ~(t.cadence[c].stored /\ t.cadence[c].standard)
             /\ \A e \in q.who : EffectiveInterval(Written(t, q), e) = EffectiveInterval(Written(d, q), e)
    PROVE  StillRight(t, q)
<1> SUFFICES ASSUME q.at = "saved" PROVE StillRight(t, q)
  BY DEF StillRight
<1>1. \A e \in q.who : q.schedule[e] = ScheduleFrom(Written(t, q), e, q.schedule[e].base)
  <2> SUFFICES ASSUME NEW e \in q.who
               PROVE  q.schedule[e] = ScheduleFrom(Written(t, q), e, q.schedule[e].base)
    OBVIOUS
  <2>1. \A base : ScheduleFrom(Written(t, q), e, base) = ScheduleFrom(Written(d, q), e, base)
    BY DEF ScheduleFrom
  <2>2. q.schedule[e] = ScheduleFrom(Written(d, q), e, q.schedule[e].base)
    BY DEF StillRight
  <2> QED BY <2>1, <2>2
<1> QED BY <1>1 DEF StillRight

(* Tables that are the same stay so under the same write.                  *)
LEMMA SameTablesWritten ==
    ASSUME NEW d \in Database, NEW t \in Database, SameTables(d, t), NEW q \in Request, WellFormed(q)
    PROVE  SameTables(Written(d, q), Written(t, q))
<1>1. CASE q.op = "publish"
  BY <1>1 DEF Written
<1>2. CASE q.op = "override"
  <2>1. Written(d, q) = WithOverride(d, q.who, q.to) /\ Written(t, q) = WithOverride(t, q.who, q.to)
    BY <1>2 DEF Written
  <2> QED BY <2>1, WithOverrideTables DEF SameTables, SameRow
<1>3. CASE q.op = "move"
  <2>1. Written(d, q) = WithLevel(d, q.who, q.to) /\ Written(t, q) = WithLevel(t, q.who, q.to)
    BY <1>3 DEF Written
  <2> QED BY <2>1, WithLevelTables DEF SameTables, SameRow
<1>4. CASE q.op \in {"default", "levelName"}
  <2>1. Written(d, q) = WithDefault(d, q.of, q.to) /\ Written(t, q) = WithDefault(t, q.of, q.to)
    BY <1>4 DEF Written
  <2> QED BY <2>1 DEF SameTables, SameRow, WithDefault, Database
<1>5. CASE q.op \in {"update", "cadenceName", "create"}
  <2>1. Written(d, q) = WithCadence(d, q.of, q.row) /\ Written(t, q) = WithCadence(t, q.of, q.row)
    BY <1>5 DEF Written
  <2> QED BY <2>1 DEF SameTables, SameRow, WithCadence, Database
<1>6. CASE q.op = "delete"
  <2>1. Written(d, q) = WithoutCadence(d, q.of) /\ Written(t, q) = WithoutCadence(t, q.of) /\ q.of \in Cadences
    BY <1>6 DEF Written, WellFormed, CadenceWrites
  <2>2. Written(t, q).cadence = Written(d, q).cadence /\ Written(t, q).default = Written(d, q).default
    BY <2>1 DEF SameTables, WithoutCadence, Database
  <2>3. ASSUME NEW e \in Employees PROVE SameRow(Written(d, q), Written(t, q), e)
    <3>1. \A x \in {d, t} : /\ WithoutCadence(x, q.of).employee[e].level = x.employee[e].level
                            /\ WithoutCadence(x, q.of).employee[e].version = x.employee[e].version
                            /\ WithoutCadence(x, q.of).employee[e].override =
                                  IF x.employee[e].override = q.of THEN Null ELSE x.employee[e].override
      BY <2>1, WithoutCadenceTables
    <3> QED BY <2>1, <3>1 DEF SameTables, SameRow
  <2> QED BY <2>2, <2>3 DEF SameTables
<1> QED BY <1>1, <1>2, <1>3, <1>4, <1>5, <1>6 DEF Request, Operations

LEMMA SameTablesChoice ==
    ASSUME NEW d, NEW t, SameTables(d, t), NEW e \in Employees
    PROVE  /\ EffectiveInterval(t, e) = EffectiveInterval(d, e)
           /\ Join(t, e) = Join(d, e)
<1>1. t.cadence = d.cadence /\ SameChoice(d, t, e) /\ SameRow(d, t, e)
  BY DEF SameTables, SameRow, SameChoice
<1>2. OverrideTier(t, e) = OverrideTier(d, e) /\ LevelTier(t, e) = LevelTier(d, e)
  BY <1>1, SameCadences DEF SameChoice, OverrideTier, LevelTier
<1> QED BY <1>1, <1>2, SameInterval, SameJoin

LEMMA SameTablesRelies ==
    ASSUME NEW d \in Database, NEW t \in Database, SameTables(d, t),
           NEW q \in Request, WellFormed(q), Relies(d, q)
    PROVE  Relies(t, q)
<1>1. \A e \in Employees : SameRow(d, t, e)
  BY DEF SameTables
<1>2. t.cadence = d.cadence /\ t.default = d.default /\ q.who \subseteq Employees
  BY DEF SameTables, Request
<1>3. Referenced(t, q.of) <=> Referenced(d, q.of)
  BY <1>1, <1>2 DEF Referenced, SameRow
<1>4. StillKnown(t, q)
  BY <1>1, <1>2, <1>3 DEF Relies, StillKnown, SameRow
<1>5. StillWanted(t, q)
  BY SameTablesChoice, WantedStays DEF Relies
<1>6. \A e \in q.who : EffectiveInterval(Written(t, q), e) = EffectiveInterval(Written(d, q), e)
  BY <1>2, SameTablesWritten, SameTablesChoice
<1>7. q.at = "saved" /\ q.op = "create" => \A c \in Cadences \ {q.of} : ~(t.cadence[c].stored /\ t.cadence[c].standard)
  BY <1>2 DEF Relies, StillRight
<1>8. \A e \in q.who : t.employee[e].version = d.employee[e].version
  BY <1>1, <1>2 DEF SameRow
<1>9. StillRight(t, q)
  BY <1>2, <1>6, <1>7, <1>8, RightStays DEF Relies
<1> QED BY <1>4, <1>5, <1>9 DEF Relies

(* A request whose next step writes.                                       *)
Ready(d, p) ==
    /\ WellFormed(p) /\ Relies(d, p)
    /\ p.at = "saved" \/ (p.at = "checked" /\ ~Captures(p))
    /\ p.op = "cadenceName" => d.cadence[p.of].stored

(* How the locks keep it apart from another request.                       *)
Beside(p, q) ==
    /\ ~MayMiss(p.op, q.op) /\ ~MayMiss(q.op, p.op)
    /\ p.at = "saved" /\ q.at \in {"locked", "saved"} => p.who \cap q.who = {}
    /\ p.at = "saved" /\ q.at \in Begun =>
          /\ p.op = "default" /\ q.op \in {"default", "move"} => q.of # p.of
          /\ p.op = "default" /\ q.op = "move" => q.to # p.of
          /\ p.op = "move" /\ q.op = "default" => p.of # q.of /\ p.to # q.of
    /\ "create" \in {p.op, q.op} /\ {p.op, q.op} \subseteq CadenceWrites \cup {"cadenceName"} => p.of # q.of
    /\ p.op = "create" /\ q.op = "create" /\ q.at = "saved" => ~(p.row.standard /\ q.row.standard)

LEMMA ReadyCaptures ==
    ASSUME NEW d, NEW p \in Request, Ready(d, p)
    PROVE  Captures(p) <=> p.at = "saved"
BY DEF Ready, WellFormed

LEMMA ReadySpares ==
    ASSUME NEW d \in Database, NEW t, NEW p \in Request, Ready(d, p), SameTables(Written(d, p), t),
           NEW e \in Employees, p.at = "saved" => e \notin p.who
    PROVE  EffectiveInterval(t, e) = EffectiveInterval(d, e)
<1>1. p.op \in Selecting /\ Captures(p) => p.who = WantedNow(d, p)
  BY ReadyCaptures DEF Ready, Relies, StillWanted
<1>2. EffectiveInterval(Written(d, p), e) = EffectiveInterval(d, e)
  BY <1>1, ReadyCaptures, WriteSpares DEF Ready, Relies
<1> QED BY <1>2, SameTablesChoice

LEMMA PublishStays ==
    ASSUME NEW d, NEW t, NEW q \in Request, q.op = "publish", Relies(d, q),
           \A e \in q.who : q.at = "saved" => EffectiveInterval(t, e) = EffectiveInterval(d, e)
    PROVE  Relies(t, q)
<1>1. StillKnown(t, q) /\ StillWanted(t, q)
  BY DEF StillKnown, StillWanted, Selecting, CadenceWrites
<1>2. Written(t, q) = t /\ Written(d, q) = d
  BY DEF Written
<1>3. StillRight(t, q)
  BY <1>2, RightStays DEF Relies
<1> QED BY <1>1, <1>3 DEF Relies

(* A rename of a level or of a cadence writes back what it has read.       *)
LEMMA NameStays ==
    ASSUME NEW d, NEW t, NEW q \in Request, WellFormed(q), Relies(d, q),
           \/ q.op = "levelName" /\ t.default[q.of] = d.default[q.of]
           \/ q.op = "cadenceName" /\ (t.cadence[q.of].stored => t.cadence[q.of] = d.cadence[q.of])
    PROVE  Relies(t, q)
<1>1. q.at = "checked"
  BY DEF WellFormed, Captures
<1> QED BY <1>1 DEF Relies, StillKnown, StillWanted, StillRight, Selecting, CadenceWrites

(* What an override, a move or a default gives stays what it is.           *)
LEMMA AlikeAfter ==
    ASSUME NEW d \in Database, NEW t \in Database, NEW q \in Request, WellFormed(q),
           t.cadence = d.cadence, NEW e \in Employees, e \in q.who, SameRow(d, t, e),
           \/ q.op = "override" /\ t.default[d.employee[e].level] = d.default[d.employee[e].level]
           \/ q.op = "move" /\ t.default[q.to] = d.default[q.to]
           \/ q.op = "default" /\ d.employee[e].level = q.of
    PROVE  EffectiveInterval(Written(t, q), e) = EffectiveInterval(Written(d, q), e)
<1> SUFFICES Written(t, q).cadence = Written(d, q).cadence /\ SameChoice(Written(d, q), Written(t, q), e)
  BY SameInterval
<1>1. d.employee[e].level \in Levels /\ t.employee[e].level = d.employee[e].level
  BY DEF Database, EmployeeRow, SameRow
<1>2. CASE q.op = "override"
  <2>1. Written(d, q) = WithOverride(d, q.who, q.to) /\ Written(t, q) = WithOverride(t, q.who, q.to)
    BY <1>2 DEF Written
  <2>2. \A x \in {d, t} : /\ WithOverride(x, q.who, q.to).cadence = x.cadence
                          /\ WithOverride(x, q.who, q.to).default = x.default
                          /\ WithOverride(x, q.who, q.to).employee[e].level = x.employee[e].level
                          /\ WithOverride(x, q.who, q.to).employee[e].override = q.to
    BY WithOverrideTables
  <2> QED BY <1>1, <1>2, <2>1, <2>2 DEF SameChoice
<1>3. CASE q.op = "move"
  <2>1. Written(d, q) = WithLevel(d, q.who, q.to) /\ Written(t, q) = WithLevel(t, q.who, q.to)
    BY <1>3 DEF Written
  <2>2. t.employee[e].override = d.employee[e].override
    BY DEF SameRow
  <2> QED BY <1>3, <2>1, <2>2, WithLevelTables DEF SameChoice
<1>4. CASE q.op = "default"
  <2>1. Written(d, q) = WithDefault(d, q.of, q.to) /\ Written(t, q) = WithDefault(t, q.of, q.to)
    BY <1>4 DEF Written
  <2>2. t.employee[e].override = d.employee[e].override
    BY DEF SameRow
  <2> QED BY <1>1, <1>4, <2>1, <2>2, WithDefaultTables DEF SameChoice
<1> QED BY <1>2, <1>3, <1>4

(* With the cadences and the defaults as they were.                        *)
LEMMA RowsStay ==
    ASSUME NEW d \in Database, NEW t \in Database, t.cadence = d.cadence, t.default = d.default,
           NEW q \in Request, q.op \in {"override", "move"}, WellFormed(q), Relies(d, q), StillKnown(t, q),
           \A e \in q.who : q.at = "saved" => SameRow(d, t, e)
    PROVE  Relies(t, q)
<1>1. q.who \subseteq Employees
  BY DEF Request
<1>2. \A e \in q.who : q.at = "saved" => EffectiveInterval(Written(t, q), e) = EffectiveInterval(Written(d, q), e)
  BY <1>1, AlikeAfter
<1>3. StillRight(t, q)
  BY <1>2, RightStays DEF Relies, SameRow
<1> QED BY <1>3 DEF Relies, StillWanted, Selecting, CadenceWrites

LEMMA AfterOverride ==
    ASSUME NEW d \in Database, NEW t \in Database, NEW p \in Request, p.op = "override", Ready(d, p),
           SameTables(Written(d, p), t),
           NEW q \in Request, WellFormed(q), Relies(d, q), Beside(p, q)
    PROVE  Relies(t, q)
<1>1. Written(d, p) = WithOverride(d, p.who, p.to) /\ p.at = "saved" /\ q.who \subseteq Employees
  BY ReadyCaptures DEF Written, Captures, Request
<1>2. /\ t.cadence = d.cadence /\ t.default = d.default
      /\ \A e \in Employees : t.employee[e].level = d.employee[e].level /\ t.employee[e].version = d.employee[e].version
      /\ \A e \in Employees : e \notin p.who => SameRow(d, t, e)
  BY <1>1, WithOverrideTables DEF SameTables, SameRow
<1>3. \A e \in q.who : q.at = "saved" => e \notin p.who
  BY <1>1 DEF Beside
<1>4. CASE q.op = "publish"
  BY <1>1, <1>3, <1>4, ReadySpares, PublishStays
<1>5. CASE q.op \in {"levelName", "cadenceName"}
  BY <1>2, <1>5, NameStays
<1>6. CASE q.op \in {"override", "move"}
  <2>1. StillKnown(t, q)
    BY <1>1, <1>2, <1>6 DEF StillKnown, Relies, CadenceWrites
  <2> QED BY <1>1, <1>2, <1>3, <1>6, <2>1, RowsStay
<1> QED BY <1>4, <1>5, <1>6 DEF Beside, MayMiss, CadenceWrites, Request, Operations

LEMMA DefaultWanted ==
    ASSUME NEW d, NEW q, q.op = "default", NEW e \in Employees
    PROVE  Wanted(q, Join(d, e)) <=> d.employee[e].level = q.of /\ OverrideTier(d, e) = Null
BY DEF Wanted, Join

(* With the cadences, the rows and the level of a new default as they were. *)
LEMMA DefaultStays ==
    ASSUME NEW d \in Database, NEW t \in Database, t.cadence = d.cadence,
           NEW q \in Request, q.op = "default", WellFormed(q), Relies(d, q),
           q.at \in Begun => t.default[q.of] = d.default[q.of],
           q.at \in Begun => \A e \in Employees :
               SameRow(d, t, e) \/ (d.employee[e].level # q.of /\ t.employee[e].level # q.of),
           \A e \in q.who : q.at = "saved" => SameRow(d, t, e)
    PROVE  Relies(t, q)
<1>1. StillKnown(t, q)
  BY DEF StillKnown, CadenceWrites
<1>2. \A c : Tier(t, c) = Tier(d, c)
  BY SameCadences
<1>3. ASSUME q.at \in Begun, NEW e \in Employees
      PROVE  /\ Wanted(q, Join(t, e)) <=> Wanted(q, Join(d, e))
             /\ Wanted(q, Join(d, e)) => Join(t, e) = Join(d, e)
  <2>1. CASE SameRow(d, t, e)
    <3>1. OverrideTier(t, e) = OverrideTier(d, e)
      BY <1>2, <2>1 DEF OverrideTier, SameRow
    <3>2. Wanted(q, Join(t, e)) <=> Wanted(q, Join(d, e))
      BY <2>1, <3>1, DefaultWanted DEF SameRow
    <3>3. ASSUME Wanted(q, Join(d, e)) PROVE Join(t, e) = Join(d, e)
      <4>1. d.employee[e].level = q.of
        BY <3>3, DefaultWanted
      <4>2. SameChoice(d, t, e)
        BY <1>3, <2>1, <4>1 DEF SameChoice, SameRow
      <4>3. LevelTier(t, e) = LevelTier(d, e)
        BY <1>2, <4>2 DEF LevelTier, SameChoice
      <4> QED BY <2>1, <3>1, <4>2, <4>3, SameJoin
    <3> QED BY <3>2, <3>3
  <2>2. CASE d.employee[e].level # q.of /\ t.employee[e].level # q.of
    BY <2>2, DefaultWanted
  <2> QED BY <1>3, <2>1, <2>2
<1>4. StillWanted(t, q)
  BY <1>3, WantedStays DEF Relies
<1>5. ASSUME q.at = "saved", NEW e \in q.who
      PROVE  EffectiveInterval(Written(t, q), e) = EffectiveInterval(Written(d, q), e)
  <2>1. e \in Employees /\ SameRow(d, t, e)
    BY <1>5 DEF Request
  <2>2. Wanted(q, Join(d, e))
    BY <1>5 DEF Relies, StillWanted, WantedNow, Selecting
  <2>3. d.employee[e].level = q.of
    BY <2>1, <2>2, DefaultWanted
  <2> QED BY <2>1, <2>3, AlikeAfter
<1>6. StillRight(t, q)
  BY <1>5, RightStays DEF Relies
<1> QED BY <1>1, <1>4, <1>6 DEF Relies

LEMMA AfterMove ==
    ASSUME NEW d \in Database, NEW t \in Database, NEW p \in Request, p.op = "move", Ready(d, p),
           SameTables(Written(d, p), t),
           NEW q \in Request, WellFormed(q), Relies(d, q), Beside(p, q)
    PROVE  Relies(t, q)
<1>1. Written(d, p) = WithLevel(d, p.who, p.to) /\ p.at = "saved" /\ q.who \subseteq Employees
  BY ReadyCaptures DEF Written, Captures, Request
<1>2. /\ t.cadence = d.cadence /\ t.default = d.default
      /\ \A e \in Employees : e \notin p.who => SameRow(d, t, e)
  BY <1>1, WithLevelTables DEF SameTables, SameRow
<1>3. ASSUME NEW e \in Employees, e \in p.who
      PROVE  /\ t.employee[e].level = p.to /\ t.employee[e].version = d.employee[e].version + 1
             /\ d.employee[e].level = p.of
  <2>1. t.employee[e].level = p.to /\ t.employee[e].version = d.employee[e].version + 1
    BY <1>1, <1>3, WithLevelTables DEF SameTables, SameRow
  <2>2. p.version = d.employee[e].version
    BY <1>1, <1>3 DEF Ready, Relies, StillRight
  <2>3. d.employee[e].level = p.of
    BY <1>3, <2>2 DEF Ready, Relies, StillKnown
  <2> QED BY <2>1, <2>3
<1>4. \A e \in q.who : q.at = "saved" => e \notin p.who
  BY <1>1 DEF Beside
<1>5. CASE q.op = "publish"
  BY <1>1, <1>4, <1>5, ReadySpares, PublishStays
<1>6. CASE q.op \in {"levelName", "cadenceName"}
  BY <1>2, <1>6, NameStays
<1>7. CASE q.op = "override"
  <2>1. StillKnown(t, q)
    BY <1>7 DEF StillKnown, CadenceWrites
  <2> QED BY <1>1, <1>2, <1>4, <1>7, <2>1, RowsStay
<1>8. CASE q.op = "move"
  <2>1. ASSUME NEW e \in q.who
        PROVE  /\ q.version <= t.employee[e].version
               /\ q.version = t.employee[e].version => t.employee[e].level = q.of
    <3>1. /\ q.version <= d.employee[e].version
          /\ q.version = d.employee[e].version => d.employee[e].level = q.of
      BY <1>8, <2>1 DEF Relies, StillKnown
    <3>2. e \in Employees /\ q.version \in Nat /\ d.employee[e].version \in Nat
      BY <1>1, <2>1 DEF Request, Database, EmployeeRow
    <3>3. CASE e \in p.who
      BY <1>3, <3>1, <3>2, <3>3
    <3>4. CASE e \notin p.who
      BY <1>2, <3>1, <3>2, <3>4 DEF SameRow
    <3> QED BY <3>3, <3>4
  <2>2. StillKnown(t, q)
    BY <1>8, <2>1 DEF StillKnown, CadenceWrites
  <2> QED BY <1>1, <1>2, <1>4, <1>8, <2>2, RowsStay
<1>9. CASE q.op = "default"
  <2>1. q.at \in Begun => p.of # q.of /\ p.to # q.of
    BY <1>1, <1>9 DEF Beside
  <2> QED BY <1>1, <1>2, <1>3, <1>4, <1>9, <2>1, DefaultStays
<1> QED BY <1>5, <1>6, <1>7, <1>8, <1>9 DEF Beside, MayMiss, CadenceWrites, Request, Operations

LEMMA AfterDefault ==
    ASSUME NEW d \in Database, NEW t \in Database, NEW p \in Request, p.op = "default", Ready(d, p),
           SameTables(Written(d, p), t),
           NEW q \in Request, WellFormed(q), Relies(d, q), Beside(p, q)
    PROVE  Relies(t, q)
<1>1. Written(d, p) = WithDefault(d, p.of, p.to) /\ p.at = "saved" /\ q.who \subseteq Employees
  BY ReadyCaptures DEF Written, Captures, Request
<1>2. /\ t.cadence = d.cadence /\ \A k \in Levels \ {p.of} : t.default[k] = d.default[k]
      /\ \A e \in Employees : SameRow(d, t, e)
  BY <1>1, WithDefaultTables DEF SameTables, SameRow
<1>3. \A e \in q.who : q.at = "saved" => e \notin p.who
  BY <1>1 DEF Beside
<1>4. CASE q.op = "publish"
  BY <1>1, <1>3, <1>4, ReadySpares, PublishStays
<1>5. CASE q.op = "cadenceName"
  BY <1>2, <1>5, NameStays
<1>6. CASE q.op = "move"
  <2>1. StillKnown(t, q)
    BY <1>1, <1>2, <1>6 DEF StillKnown, Relies, CadenceWrites, SameRow
  <2>2. q.at = "saved" => t.default[q.to] = d.default[q.to]
    BY <1>1, <1>2, <1>6 DEF Beside, Begun, Request
  <2>3. \A e \in q.who : q.at = "saved" => EffectiveInterval(Written(t, q), e) = EffectiveInterval(Written(d, q), e)
    BY <1>1, <1>2, <1>6, <2>2, AlikeAfter
  <2>4. StillRight(t, q)
    BY <1>1, <1>2, <1>6, <2>3, RightStays DEF Relies, SameRow
  <2> QED BY <1>6, <2>1, <2>4 DEF Relies, StillWanted, Selecting, CadenceWrites
<1>7. CASE q.op = "default"
  <2>1. q.at \in Begun => t.default[q.of] = d.default[q.of]
    BY <1>1, <1>2, <1>7 DEF Beside, WellFormed
  <2> QED BY <1>1, <1>2, <1>7, <2>1, DefaultStays
<1> QED BY <1>4, <1>5, <1>6, <1>7 DEF Beside, MayMiss, CadenceWrites, Request, Operations

LEMMA AfterUpdate ==
    ASSUME NEW d \in Database, NEW t \in Database, NEW p \in Request, p.op = "update", Ready(d, p),
           SameTables(Written(d, p), t),
           NEW q \in Request, WellFormed(q), Relies(d, q), Beside(p, q)
    PROVE  Relies(t, q)
<1>1. p.at = "saved" /\ q.who \subseteq Employees
  BY ReadyCaptures DEF Captures, Request
<1>2. \A l \in Levels : t.default[l] = d.default[l]
  BY CadenceWritten DEF CadenceWrites, Ready, Relies, SameTables
<1>3. \A e \in q.who : q.at = "saved" => e \notin p.who
  BY <1>1 DEF Beside
<1>4. CASE q.op = "publish"
  BY <1>1, <1>3, <1>4, ReadySpares, PublishStays
<1>5. CASE q.op = "levelName"
  BY <1>2, <1>5, NameStays DEF WellFormed
<1> QED BY <1>4, <1>5 DEF Beside, MayMiss, CadenceWrites, Request, Operations

(* A cadence that is new or unused is the one of nobody; the employees that *)
(* depend on it are those that fall back on the default of the system.      *)
LEMMA UnusedWanted ==
    ASSUME NEW d \in Database, NEW q \in Request, q.op \in {"create", "delete"}, WellFormed(q), StillKnown(d, q),
           NEW e \in Employees
    PROVE  /\ d.employee[e].override # q.of /\ d.default[d.employee[e].level] # q.of
           /\ Wanted(q, Join(d, e)) <=> OverrideTier(d, e) = Null /\ LevelTier(d, e) = Null
<1>1. d.employee[e].override # q.of /\ d.default[d.employee[e].level] # q.of
  BY DEF StillKnown, Referenced, Database, EmployeeRow
<1>2. q.fallback
  BY DEF WellFormed
<1> QED BY <1>1, <1>2 DEF Wanted, ByCadence, ByName, Join

(* What the write of such a cadence leaves as it was.                      *)
LEMMA UnusedLeaves ==
    ASSUME NEW d \in Database, NEW t \in Database, NEW p \in Request, p.op \in {"create", "delete"},
           WellFormed(p), StillKnown(d, p), SameTables(Written(d, p), t)
    PROVE  /\ p.of \in Cadences /\ \A b \in Cadences \ {p.of} : t.cadence[b] = d.cadence[b]
           /\ t.cadence[p.of] = IF p.op = "delete" THEN Gone(d.cadence[p.of]) ELSE p.row
           /\ \A l \in Levels : t.default[l] = d.default[l]
           /\ \A e \in Employees : SameRow(d, t, e) /\ SameChoice(d, t, e) /\ Join(t, e) = Join(d, e)
<1>1. /\ p.of \in Cadences /\ \A b \in Cadences \ {p.of} : t.cadence[b] = d.cadence[b]
      /\ t.cadence[p.of] = IF p.op = "delete" THEN Gone(d.cadence[p.of]) ELSE p.row
      /\ \A l \in Levels : t.default[l] = d.default[l]
      /\ \A e \in Employees : SameRow(d, t, e)
  BY CadenceWritten DEF CadenceWrites, WellFormed, SameTables, SameRow
<1>2. ASSUME NEW e \in Employees PROVE SameChoice(d, t, e) /\ Join(t, e) = Join(d, e)
  <2>1. SameChoice(d, t, e)
    BY <1>1 DEF SameRow, SameChoice, Database, EmployeeRow
  <2>2. \A b \in Cadences \cup {Null} : b # p.of => Tier(t, b) = Tier(d, b)
    <3>1. \A b \in Cadences \ {p.of} : t.cadence[b] = d.cadence[b]
      BY <1>1
    <3> QED BY <3>1 DEF Tier
  <2>3. /\ d.employee[e].override \in Cadences \cup {Null} /\ d.employee[e].override # p.of
        /\ d.default[d.employee[e].level] \in Cadences \cup {Null} /\ d.default[d.employee[e].level] # p.of
    BY UnusedWanted DEF Database, EmployeeRow
  <2>4. OverrideTier(t, e) = OverrideTier(d, e) /\ LevelTier(t, e) = LevelTier(d, e)
    BY <2>1, <2>2, <2>3 DEF OverrideTier, LevelTier, SameChoice
  <2> QED BY <1>1, <2>1, <2>4, SameJoin
<1> QED BY <1>1, <1>2

(* Two of them that lock employees lock the same ones, so that the later   *)
(* one has none; one that locks none changes no default of the system.     *)
LEMMA UnusedAlike ==
    ASSUME NEW d \in Database, NEW t \in Database, NEW p \in Request, p.op \in {"create", "delete"}, Ready(d, p),
           SameTables(Written(d, p), t),
           NEW q \in Request, q.op \in {"create", "delete"}, WellFormed(q), Relies(d, q), StillKnown(t, q),
           Beside(p, q), q.at = "saved", NEW e \in q.who
    PROVE  EffectiveInterval(Written(t, q), e) = EffectiveInterval(Written(d, q), e)
<1>1. e \in Employees /\ StillKnown(d, q) /\ StillKnown(d, p) /\ WellFormed(p)
  BY DEF Request, Relies, Ready
<1>2. CASE p.at = "saved"
  <2>1. p.who = WantedNow(d, p) /\ q.who = WantedNow(d, q)
    BY <1>2 DEF Ready, Relies, StillWanted, Selecting, CadenceWrites
  <2>2. e \in p.who
    BY <1>1, <2>1, UnusedWanted DEF WantedNow
  <2> QED BY <1>2, <2>2 DEF Beside
<1>3. CASE p.at = "checked" /\ ~Captures(p)
  <2>1. /\ p.of \in Cadences /\ \A b \in Cadences \ {p.of} : t.cadence[b] = d.cadence[b]
        /\ t.cadence[p.of] = IF p.op = "delete" THEN Gone(d.cadence[p.of]) ELSE p.row
        /\ SameChoice(d, t, e)
    BY <1>1, UnusedLeaves
  <2>2. d.cadence[p.of] \in CadenceRow /\ t.cadence[p.of] \in CadenceRow
    BY <2>1 DEF Database
  <2>3. PICK a \in Database : a = Written(d, q)
    BY WrittenKeeps DEF KeepsSchedules
  <2>4. PICK b \in Database : b = Written(t, q)
    BY WrittenKeeps DEF KeepsSchedules
  <2>5. /\ \A c \in Cadences \ {q.of} : a.cadence[c] = d.cadence[c]
        /\ SameChoice(d, a, e) /\ q.of \in Cadences
        /\ a.cadence[q.of] = IF q.op = "delete" THEN Gone(d.cadence[q.of]) ELSE q.row
    BY <1>1, <2>3, CadenceWritten DEF CadenceWrites, WellFormed
  <2>6. /\ \A c \in Cadences \ {q.of} : b.cadence[c] = t.cadence[c]
        /\ SameChoice(t, b, e)
        /\ b.cadence[q.of] = IF q.op = "delete" THEN Gone(t.cadence[q.of]) ELSE q.row
    BY <1>1, <2>4, CadenceWritten DEF CadenceWrites
  <2>7. \A c \in Cadences \ {p.of} : b.cadence[c] = a.cadence[c]
    BY <2>1, <2>5, <2>6
  <2>8. SameChoice(a, b, e)
    BY <2>1, <2>5, <2>6 DEF SameChoice
  <2>9. a.employee[e].override # p.of /\ a.default[a.employee[e].level] # p.of
    BY <1>1, <2>5, UnusedWanted DEF SameChoice
  <2>10. p.of # q.of \/ q.op = "delete"
    BY DEF Beside, CadenceWrites
  <2>11. p.of \notin StandardTiers(a)
    <3>1. ~(d.cadence[p.of].standard /\ d.cadence[p.of].stored)
      BY <1>1, <1>3 DEF StillKnown, Captures
    <3>2. CASE p.of # q.of
      BY <2>1, <2>5, <3>1, <3>2, StandardTier
    <3>3. CASE p.of = q.of
      BY <2>1, <2>2, <2>5, <2>10, <3>3, StandardTier, GoneRow
    <3> QED BY <3>2, <3>3
  <2>12. p.of \notin StandardTiers(b)
    <3>1. ~(t.cadence[p.of].standard /\ t.cadence[p.of].active)
      BY <1>3, <2>1, <2>2, GoneRow DEF Captures, Database
    <3>2. CASE p.of # q.of
      BY <2>1, <2>6, <3>1, <3>2, StandardTier
    <3>3. CASE p.of = q.of
      BY <2>1, <2>2, <2>6, <2>10, <3>3, StandardTier, GoneRow
    <3> QED BY <3>2, <3>3
  <2>13. EffectiveInterval(b, e) = EffectiveInterval(a, e)
    BY <1>1, <2>7, <2>8, <2>9, <2>11, <2>12, CadenceSpares
  <2> QED BY <2>3, <2>4, <2>13
<1> QED BY <1>2, <1>3 DEF Ready

LEMMA AfterUnused ==
    ASSUME NEW d \in Database, NEW t \in Database, NEW p \in Request, p.op \in {"create", "delete"}, Ready(d, p),
           SameTables(Written(d, p), t),
           NEW q \in Request, WellFormed(q), Relies(d, q), Beside(p, q)
    PROVE  Relies(t, q)
<1>1. /\ p.of \in Cadences /\ \A b \in Cadences \ {p.of} : t.cadence[b] = d.cadence[b]
      /\ t.cadence[p.of] = IF p.op = "delete" THEN Gone(d.cadence[p.of]) ELSE p.row
      /\ \A l \in Levels : t.default[l] = d.default[l]
      /\ \A e \in Employees : SameRow(d, t, e) /\ SameChoice(d, t, e) /\ Join(t, e) = Join(d, e)
      /\ d.cadence[p.of] \in CadenceRow
  <2>1. WellFormed(p) /\ StillKnown(d, p)
    BY DEF Ready, Relies
  <2> QED BY <2>1, UnusedLeaves DEF Database
<1>2. CASE q.op = "publish"
  <2>1. q.who \subseteq Employees
    BY DEF Request
  <2>2. \A e \in q.who : q.at = "saved" => (p.at = "saved" => e \notin p.who)
    BY DEF Beside
  <2> QED BY <1>2, <2>1, <2>2, ReadySpares, PublishStays
<1>3. CASE q.op = "levelName"
  BY <1>1, <1>3, NameStays DEF WellFormed
<1>4. CASE q.op = "cadenceName"
  <2>1. p.of # q.of \/ p.op = "delete"
    BY <1>4 DEF Beside, CadenceWrites
  <2>2. q.of \in Cadences
    BY <1>4 DEF WellFormed
  <2>3. t.cadence[q.of].stored => t.cadence[q.of] = d.cadence[q.of]
    BY <1>1, <2>1, <2>2, GoneRow
  <2> QED BY <1>4, <2>3, NameStays
<1>5. CASE q.op \in {"create", "delete"}
  <2>1. q.of \in Cadences /\ (p.of # q.of \/ (p.op = "delete" /\ q.op = "delete"))
    BY <1>5 DEF Beside, CadenceWrites, WellFormed
  <2>2. ~Referenced(t, q.of)
    <3>1. ~Referenced(d, q.of)
      BY <1>5 DEF Relies, StillKnown
    <3> QED BY <1>1, <3>1 DEF Referenced, SameRow
  <2>3. q.op = "create" => ~t.cadence[q.of].stored
    BY <1>1, <2>1 DEF Relies, StillKnown
  <2>4. q.op = "delete" /\ t.cadence[q.of].standard => q.row.standard
    BY <1>1, <2>1, GoneRow DEF Relies, StillKnown
  <2>5. StillKnown(t, q)
    BY <1>5, <2>2, <2>3, <2>4 DEF StillKnown
  <2>6. StillWanted(t, q)
    BY <1>1, WantedStays DEF Relies
  <2>7. ASSUME q.at = "saved", q.op = "create", NEW c \in Cadences \ {q.of}
        PROVE  ~(t.cadence[c].stored /\ t.cadence[c].standard)
    <3>1. q.row.standard
      BY <2>7 DEF WellFormed, Captures
    <3>2. p.op = "create" => ~p.row.standard
      BY <2>7, <3>1 DEF Beside
    <3>3. CASE c # p.of
      BY <1>1, <2>7, <3>3 DEF Relies, StillRight
    <3>4. CASE c = p.of
      BY <1>1, <3>2, <3>4, GoneRow
    <3> QED BY <3>3, <3>4
  <2>8. q.at = "saved" =>
            \A e \in q.who : EffectiveInterval(Written(t, q), e) = EffectiveInterval(Written(d, q), e)
    BY <1>5, <2>5, UnusedAlike
  <2>9. StillRight(t, q)
    BY <1>5, <2>7, <2>8, RightStays DEF Relies
  <2> QED BY <2>5, <2>6, <2>9 DEF Relies
<1> QED BY <1>2, <1>3, <1>4, <1>5 DEF Beside, MayMiss, CadenceWrites, Request, Operations

(* A publication and the renames change no table but the schedules.        *)
LEMMA AfterName ==
    ASSUME NEW d \in Database, NEW t \in Database, NEW p \in Request,
           p.op \in {"publish", "levelName", "cadenceName"}, Ready(d, p), SameTables(Written(d, p), t),
           NEW q \in Request, WellFormed(q), Relies(d, q)
    PROVE  Relies(t, q)
<1>1. SameTables(d, t)
  <2>1. CASE p.op = "publish"
    BY <2>1 DEF Written
  <2>2. CASE p.op = "levelName"
    <3>1. Written(d, p) = WithDefault(d, p.of, p.to) /\ d.default[p.of] = p.to
      BY <2>2 DEF Written, Ready, Relies, StillKnown
    <3> QED BY <3>1 DEF SameTables, SameRow, WithDefault, Database
  <2>3. CASE p.op = "cadenceName"
    <3>1. Written(d, p) = WithCadence(d, p.of, p.row) /\ d.cadence[p.of] = p.row
      BY <2>3 DEF Written, Ready, Relies, StillKnown
    <3> QED BY <3>1 DEF SameTables, SameRow, WithCadence, Database
  <2> QED BY <2>1, <2>2, <2>3
<1> QED BY <1>1, SameTablesRelies

LEMMA AfterWrite ==
    ASSUME NEW d \in Database, NEW t \in Database, NEW p \in Request, Ready(d, p), SameTables(Written(d, p), t),
           NEW q \in Request, WellFormed(q), Relies(d, q), Beside(p, q)
    PROVE  Relies(t, q)
BY AfterOverride, AfterMove, AfterDefault, AfterUpdate, AfterUnused, AfterName DEF Request, Operations

(* The references are to cadences that are there.                          *)
LEMMA ReferencesAfter ==
    ASSUME NEW d \in Database, NEW t \in Database, NEW p \in Request, Ready(d, p), SameTables(Written(d, p), t),
           ReferencesStored(d)
    PROVE  ReferencesStored(t)
<1>1. Given(p)
  <2>1. p.op \in {"levelName", "cadenceName"} => p.at = "checked"
    BY DEF Ready, WellFormed, Captures
  <2>2. p.op \in {"create", "update", "cadenceName"} => p.row.stored
    BY DEF Ready, Relies, StillKnown, WellFormed
  <2> QED BY <2>1, <2>2 DEF Given, Ready, WellFormed
<1>2. p.op \in {"override", "default"} /\ p.to # Null => d.cadence[p.to].stored
  BY ReadyCaptures DEF Ready, Relies, StillRight, Captures
<1>3. p.op = "levelName" /\ p.to # Null => d.cadence[p.to].stored
  <2>1. ASSUME p.op = "levelName", p.to # Null PROVE Referenced(d, p.to) /\ p.to \in Cadences
    BY <2>1 DEF Ready, Relies, StillKnown, WellFormed, Referenced, Request
  <2> QED BY <2>1 DEF ReferencesStored
<1> QED BY <1>1, <1>2, <1>3, WriteKeepsReferences

(* The due dates that are saved are right, and those that are not are      *)
(* those of employees that the write spares.                               *)
LEMMA CurrentAfter ==
    ASSUME NEW d \in Database, NEW p \in Request, Ready(d, p), NEW e \in Employees, Current(d, e)
    PROVE  /\ p.at = "saved" => Current(Saved(Written(d, p), p), e)
           /\ p.at = "checked" => Current(Written(d, p), e)
<1>1. PICK w \in Database : w = Written(d, p)
  BY WrittenKeeps DEF KeepsSchedules
<1>2. w.employee[e].schedule = d.employee[e].schedule
  BY <1>1, WrittenKeeps DEF KeepsSchedules
<1>3. ASSUME NEW t \in Database, SameTables(w, t), t.employee[e].schedule = d.employee[e].schedule,
             p.at = "saved" => e \notin p.who
      PROVE  Current(t, e)
  <2>1. EffectiveInterval(t, e) = EffectiveInterval(d, e)
    BY <1>1, <1>3, ReadySpares
  <2> QED BY <1>3, <2>1 DEF Current, ScheduleFrom, Base
<1>4. ASSUME p.at = "checked" PROVE Current(w, e)
  BY <1>2, <1>3, <1>4 DEF SameTables, SameRow
<1>5. ASSUME p.at = "saved" PROVE Current(Saved(w, p), e)
  <2>1. PICK t \in Database : t = Saved(w, p)
    BY SavedSchedules
  <2>2. /\ SameTables(w, t)
        /\ t.employee[e].schedule = IF e \in p.who THEN p.schedule[e] ELSE w.employee[e].schedule
    BY <2>1, SavedTables
  <2>3. CASE e \in p.who
    <3>1. p.schedule[e] = ScheduleFrom(w, e, p.schedule[e].base)
      BY <1>1, <1>5, <2>3 DEF Ready, Relies, StillRight
    <3>2. EffectiveInterval(t, e) = EffectiveInterval(w, e)
      BY <2>2, SameTablesChoice
    <3>3. \A base : ScheduleFrom(t, e, base) = ScheduleFrom(w, e, base)
      BY <3>2 DEF ScheduleFrom
    <3> QED BY <2>1, <2>2, <2>3, <3>1, <3>3 DEF Current, Base
  <2>4. CASE e \notin p.who
    BY <1>2, <1>3, <2>1, <2>2, <2>4
  <2> QED BY <2>3, <2>4
<1> QED BY <1>1, <1>4, <1>5

-----------------------------------------------------------------------------
(* The steps                                                               *)

LEMMA RequestType ==
    ASSUME ScheduleTypeOK, NEW r \in Requests, Going(r)
    PROVE  request[r] \in Request /\ db \in Database /\ request \in [Requests -> Request \cup {Idle}]
BY DEF ScheduleTypeOK, Going

(* A request that ends leaves the others apart.                            *)
LEMMA EndedApart ==
    ASSUME ScheduleTypeOK, NEW r \in Requests, request' = [request EXCEPT ![r] = Idle]
    PROVE  /\ Serialized /\ LevelsApart /\ CreatedApart => (Serialized /\ LevelsApart /\ CreatedApart)'
           /\ \A s \in Requests : Going(s)' => s # r /\ Going(s) /\ request'[s] = request[s]
<1>1. \A s \in Requests : request'[s] = IF s = r THEN Idle ELSE request[s]
  BY DEF ScheduleTypeOK
<1>2. ASSUME NEW s \in Requests, Going(s)'
      PROVE  s # r /\ Going(s) /\ request'[s] = request[s]
  BY <1>1, <1>2 DEF Going
<1>3. ASSUME NEW s \in Requests, NEW ops, NEW stages, Running(s, ops, stages)'
      PROVE  Running(s, ops, stages) /\ request'[s] = request[s]
  BY <1>1, <1>3 DEF Running
<1>4. Serialized => Serialized'
  BY <1>2 DEF Serialized
<1>5. LevelsApart => LevelsApart'
  BY <1>3 DEF LevelsApart
<1>6. CreatedApart => CreatedApart'
  BY <1>3 DEF CreatedApart
<1> QED BY <1>2, <1>4, <1>5, <1>6

LEMMA WritesReady ==
    ASSUME ScheduleInv, DueParts, NEW r \in Requests, Commit(r) \/ WriteOnly(r)
    PROVE  /\ Going(r) /\ Ready(db, request[r])
           /\ \A s \in Requests : s # r /\ Going(s) => Beside(request[r], request[s])
<1> DEFINE p == request[r]
<1>1. Going(r) /\ p \in Request /\ WellFormed(p) /\ Relies(db, p)
  BY RequestType DEF Commit, WriteOnly, Going, ScheduleInv, DueParts
<1>2. p.at = "saved" \/ (p.at = "checked" /\ ~Captures(p) /\ MayWrite(r))
  BY DEF Commit, WriteOnly
<1>3. Ready(db, p)
  BY <1>1, <1>2 DEF Ready, WellFormed, Captures, MayWrite
<1>4. ASSUME NEW s \in Requests, s # r, Going(s) PROVE Beside(p, request[s])
  <2> DEFINE q == request[s]
  <2>1. q \in Request /\ q.op \in Operations /\ q.at \in Stages /\ p.op \in Operations /\ p.at \in Stages
    BY <1>1, <1>4, RequestType DEF ScheduleInv, Request
  <2>2. ~MayMiss(p.op, q.op) /\ ~MayMiss(q.op, p.op)
    BY <1>1, <1>4 DEF DueParts, Serialized
  <2>3. p.at = "saved" /\ q.at \in {"locked", "saved"} => p.who \cap q.who = {}
    <3>1. p.who \subseteq Employees
      BY <1>1 DEF Request
    <3> QED BY <1>1, <1>4, <3>1 DEF ScheduleInv, HoldersApart, Holding, Going
  <2>4. p.at = "saved" /\ q.at \in Begun =>
            /\ p.op = "default" /\ q.op \in {"default", "move"} => q.of # p.of
            /\ p.op = "default" /\ q.op = "move" => q.to # p.of
            /\ p.op = "move" /\ q.op = "default" => p.of # q.of /\ p.to # q.of
    BY <1>1, <1>4 DEF DueParts, LevelsApart, Running, Going, Begun
  <2>5. "create" \in {p.op, q.op} /\ {p.op, q.op} \subseteq CadenceWrites \cup {"cadenceName"} => p.of # q.of
    BY <1>1, <1>4, <2>1 DEF DueParts, CreatedApart, Running, Going
  <2>6. p.op = "create" /\ q.op = "create" /\ q.at = "saved" => ~(p.row.standard /\ q.row.standard)
    <3>1. CASE p.at = "saved"
      BY <1>1, <1>4, <2>1, <3>1 DEF DueParts, CreatedApart, Running, Going
    <3>2. CASE MayWrite(r)
      BY <1>1, <1>4, <2>1, <3>2 DEF MayWrite, Running, Going, Others
    <3> QED BY <1>2, <3>1, <3>2
  <2> QED BY <2>2, <2>3, <2>4, <2>5, <2>6 DEF Beside
<1> QED BY <1>1, <1>3, <1>4

LEMMA WriteKeepsDue ==
    ASSUME ScheduleInv, DueParts, NEW r \in Requests, Commit(r) \/ WriteOnly(r)
    PROVE  DueParts'
<1> DEFINE p == request[r]
<1>1. /\ Going(r) /\ p \in Request /\ db \in Database /\ Ready(db, p)
      /\ \A s \in Requests : s # r /\ Going(s) => Beside(p, request[s])
  BY WritesReady, RequestType DEF ScheduleInv
<1>2. PICK w \in Database : w = Written(db, p)
  BY <1>1, WrittenKeeps DEF KeepsSchedules
<1>3. request' = [request EXCEPT ![r] = Idle] /\ (Commit(r) => p.at = "saved") /\ (WriteOnly(r) => p.at = "checked")
  BY DEF Commit, WriteOnly
<1>4. db' \in Database /\ SameTables(w, db')
  <2>1. CASE Commit(r)
    <3>1. db' = Saved(w, p)
      BY <1>2, <2>1 DEF Commit
    <3> QED BY <1>1, <3>1, SavedSchedules, SavedTables
  <2>2. CASE WriteOnly(r)
    <3>1. db' = w
      BY <1>2, <2>2 DEF WriteOnly
    <3> QED BY <3>1 DEF SameTables, SameRow
  <2> QED BY <2>1, <2>2
<1>5. (Serialized /\ LevelsApart /\ CreatedApart)' /\ ReferencesStored(db')
  BY <1>1, <1>2, <1>3, <1>4, EndedApart, ReferencesAfter DEF DueParts, ScheduleInv
<1>6. ASSUME NEW e \in Employees PROVE Current(db', e)
  <2>1. /\ p.at = "saved" => Current(Saved(Written(db, p), p), e)
        /\ p.at = "checked" => Current(Written(db, p), e)
    BY <1>1, CurrentAfter DEF DueParts
  <2> QED BY <1>3, <2>1 DEF Commit, WriteOnly
<1>7. ASSUME NEW s \in Requests, Going(s)' PROVE WellFormed(request'[s]) /\ Relies(db', request'[s])
  <2>1. s # r /\ Going(s) /\ request'[s] = request[s]
    BY <1>3, <1>7, EndedApart DEF ScheduleInv
  <2>2. request[s] \in Request /\ WellFormed(request[s]) /\ Relies(db, request[s]) /\ Beside(p, request[s])
    BY <1>1, <2>1, RequestType DEF ScheduleInv, DueParts
  <2>3. Relies(db', request[s])
    BY <1>1, <1>2, <1>4, <2>2, AfterWrite
  <2> QED BY <2>1, <2>2, <2>3
<1> QED BY <1>5, <1>6, <1>7 DEF DueParts

(* A request that goes on keeps what it was asked.                         *)
LEMMA AdvanceKeepsDue ==
    ASSUME ScheduleInv, DueParts, NEW r \in Requests, Going(r), NEW u,
           request' = [request EXCEPT ![r] = u], db' = db, u # Idle, u.op = request[r].op, u.of = request[r].of,
           u.to = request[r].to, u.row = request[r].row, WellFormed(u), Relies(db, u),
           u.at \in Begun,
           request[r].at \notin Begun => LevelsApart',
           u.at = "saved" /\ u.op = "create" /\ u.row.standard =>
               \A s \in Others(r) : Running(s, {"create"}, {"saved"}) => ~request[s].row.standard
    PROVE  DueParts'
<1>1. request \in [Requests -> Request \cup {Idle}]
  BY DEF ScheduleInv, ScheduleTypeOK
<1>2. request'[r] = u /\ \A s \in Requests \ {r} : request'[s] = request[s]
  BY <1>1
<1>3. \A s \in Requests : /\ Going(s)' <=> Going(s)
                          /\ Going(s) => /\ request'[s].op = request[s].op /\ request'[s].of = request[s].of
                                         /\ request'[s].to = request[s].to /\ request'[s].row = request[s].row
  BY <1>2 DEF Going
<1>4. Serialized'
  BY <1>3 DEF DueParts, Serialized
<1>5. LevelsApart'
  <2>1. CASE request[r].at \in Begun
    <3>1. \A s \in Requests : \A ops : Running(s, ops, Begun)' => Running(s, ops, Begun)
      BY <1>2, <1>3, <2>1 DEF Running, Going
    <3> QED BY <1>3, <3>1 DEF DueParts, LevelsApart, Running, Going
  <2> QED BY <2>1
<1>6. CreatedApart'
  <2> SUFFICES ASSUME NEW s \in Requests, NEW p \in Requests, s # p, Running(s, {"create"}, Stages)'
               PROVE  /\ Running(p, CadenceWrites \cup {"cadenceName"}, Stages)' => request'[p].of # request'[s].of
                      /\ Running(p, {"create"}, {"saved"})' /\ request'[s].at = "saved" =>
                            ~(request'[s].row.standard /\ request'[p].row.standard)
    BY DEF CreatedApart
  <2>1. \A x \in Requests : Going(x) => request[x].at \in Stages
    BY RequestType DEF ScheduleInv, Request
  <2>2. \A x \in Requests : \A ops : Running(x, ops, Stages)' => Running(x, ops, Stages)
    BY <1>3, <2>1 DEF Running, Going
  <2>3. Running(p, CadenceWrites \cup {"cadenceName"}, Stages)' => request'[p].of # request'[s].of
    <3>1. Running(s, {"create"}, Stages) /\ request'[s].of = request[s].of
      BY <1>3, <2>2 DEF Running, Going
    <3>2. ASSUME Running(p, CadenceWrites \cup {"cadenceName"}, Stages)'
          PROVE  Running(p, CadenceWrites \cup {"cadenceName"}, Stages) /\ request'[p].of = request[p].of
      BY <1>3, <2>2, <3>2 DEF Running, Going
    <3> QED BY <3>1, <3>2 DEF DueParts, CreatedApart
  <2>4. ASSUME Running(p, {"create"}, {"saved"})', request'[s].at = "saved"
        PROVE  ~(request'[s].row.standard /\ request'[p].row.standard)
    <3>1. CASE s = r
      BY <1>2, <2>4, <3>1 DEF Others, Running
    <3>2. CASE p = r
      BY <1>2, <2>4, <3>2 DEF Others, Running
    <3>3. CASE s # r /\ p # r
      BY <1>2, <2>4, <3>3 DEF DueParts, CreatedApart, Running
    <3> QED BY <3>1, <3>2, <3>3
  <2> QED BY <2>3, <2>4
<1>7. \A s \in Requests : Going(s)' => WellFormed(request'[s]) /\ Relies(db', request'[s])
  BY <1>2, <1>3 DEF DueParts
<1> QED BY <1>4, <1>5, <1>6, <1>7 DEF DueParts

LEMMA AsAsked ==
    ASSUME NEW d, NEW q, NEW u, u.op = q.op, u.of = q.of, u.to = q.to, u.row = q.row, u.fallback = q.fallback,
           u.version = q.version, q.op = "move" => u.who \subseteq q.who
    PROVE  /\ StillKnown(d, q) => StillKnown(d, u)
           /\ WellFormed(q) /\ Captures(q) => WellFormed(u)
           /\ q.op \in Selecting => WantedNow(d, u) = WantedNow(d, q)
<1>1. StillKnown(d, q) => StillKnown(d, u)
  BY DEF StillKnown
<1>2. WellFormed(q) /\ Captures(q) => WellFormed(u)
  BY DEF WellFormed, Captures
<1>3. ASSUME q.op \in Selecting PROVE WantedNow(d, u) = WantedNow(d, q)
  <2>1. \A t : Wanted(u, t) <=> Wanted(q, t)
    BY <1>3 DEF Wanted, ByCadence, ByName, Selecting, CadenceWrites
  <2> QED BY <2>1 DEF WantedNow
<1> QED BY <1>1, <1>2, <1>3

LEMMA FindLevelsApart ==
    ASSUME ScheduleInv, DueParts, NEW r \in Requests, FindEmployees(r),
           NEW u, request' = [request EXCEPT ![r] = u],
           u.op = request[r].op, u.of = request[r].of, u.to = request[r].to
    PROVE  LevelsApart'
<1>1. request \in [Requests -> Request \cup {Idle}] /\ Going(r)
  BY DEF ScheduleInv, ScheduleTypeOK, FindEmployees, Going
<1>2. request'[r] = u /\ \A s \in Requests : s # r => request'[s] = request[s]
  BY <1>1
<1>3. \A s \in Requests : s # r => \A ops : Running(s, ops, Begun)' => Running(s, ops, Begun)
  BY <1>2 DEF Running
<1> SUFFICES ASSUME NEW a \in Requests, NEW p \in Requests, a # p, Running(a, {"default"}, Begun)'
             PROVE  /\ Running(p, {"default", "move"}, Begun)' => request'[p].of # request'[a].of
                    /\ Running(p, {"move"}, Begun)' => request'[p].to # request'[a].of
  BY DEF LevelsApart
<1>4. CASE a = r
  <2>1. p # r /\ request'[p] = request[p] /\ request[r].op = "default" /\ request'[a].of = request[r].of
    BY <1>2, <1>4 DEF Running
  <2>2. ~HoldsLevel(p, request[r].of) /\ ~SharesLevel(p, request[r].of)
    BY <2>1 DEF FindEmployees, LevelFree, Others
  <2> QED BY <1>3, <2>1, <2>2 DEF HoldsLevel, SharesLevel, Running, Begun
<1>5. CASE p = r
  <2>1. a # r /\ request'[a] = request[a] /\ Running(a, {"default"}, Begun)
    BY <1>2, <1>3, <1>5
  <2>2. \A l : l = request[a].of => HoldsLevel(a, l)
    BY <2>1 DEF HoldsLevel, Begun
  <2>3. request[r].op = "default" => request[r].of # request[a].of
    BY <2>1, <2>2 DEF FindEmployees, LevelFree, Others
  <2>4. request[r].op = "move" => request[r].of # request[a].of /\ request[r].to # request[a].of
    BY <2>1, <2>2 DEF FindEmployees, Others
  <2> QED BY <1>2, <1>5, <2>1, <2>3, <2>4 DEF Running
<1>6. CASE a # r /\ p # r
  BY <1>2, <1>3, <1>6 DEF DueParts, LevelsApart
<1> QED BY <1>4, <1>5, <1>6

LEMMA FindKeepsDue ==
    ASSUME ScheduleInv, DueParts, NEW r \in Requests, FindEmployees(r)
    PROVE  DueParts'
<1> DEFINE q == request[r]
           found == {Join(db, e) : e \in {f \in Employees : Wanted(q, Join(db, f))}}
<1>1. /\ Going(r) /\ q \in Request /\ q.at = "checked" /\ Captures(q) /\ WellFormed(q) /\ StillKnown(db, q)
      /\ request' = [request EXCEPT ![r] = [q EXCEPT !.at = "locking", !.found = found]] /\ db' = db
  BY RequestType DEF FindEmployees, Going, ScheduleInv, DueParts, Relies
<1>2. found = {Join(db, e) : e \in WantedNow(db, q)}
  BY DEF WantedNow
<1> HIDE DEF found
<1>3. PICK u : u = [q EXCEPT !.at = "locking", !.found = found]
  OBVIOUS
<1>4. /\ u.at = "locking" /\ u.found = found /\ u.op = q.op /\ u.of = q.of /\ u.to = q.to /\ u.row = q.row
      /\ u.fallback = q.fallback /\ u.version = q.version /\ u.who = q.who
  BY <1>1, <1>3 DEF Request
<1>5. StillKnown(db, u) /\ WellFormed(u) /\ (q.op \in Selecting => WantedNow(db, u) = WantedNow(db, q))
  BY <1>1, <1>4, AsAsked
<1>6. Relies(db, u)
  BY <1>2, <1>4, <1>5 DEF Relies, StillWanted, StillRight
<1>7. u # Idle
  BY <1>4 DEF Idle
<1>8. request' = [request EXCEPT ![r] = u]
  BY <1>1, <1>3
<1>9. LevelsApart'
  BY <1>4, <1>8, FindLevelsApart
<1> QED BY <1>1, <1>4, <1>5, <1>6, <1>7, <1>8, <1>9, AdvanceKeepsDue DEF Begun

LEMMA LockKeepsDue ==
    ASSUME ScheduleInv, DueParts, NEW r \in Requests, LockEmployees(r)
    PROVE  DueParts'
<1> DEFINE q == request[r]
           locked == {t.employee : t \in {v \in q.found : Wanted(q, Rejoin(v))}}
           schedule == [e \in Employees |->
                            [base |-> IF q.op = "publish" THEN q.date ELSE Base(db, e), due |-> 0]]
<1>1. /\ Going(r) /\ q \in Request /\ q.at = "locking" /\ WellFormed(q) /\ Relies(db, q)
      /\ request' = [request EXCEPT ![r] = [q EXCEPT !.at = "locked", !.found = {}, !.who = locked,
                                                     !.schedule = schedule]]
      /\ db' = db
  BY RequestType DEF LockEmployees, Going, ScheduleInv, DueParts
<1>2. ASSUME q.op \in Selecting PROVE locked = WantedNow(db, q)
  <2>1. q.found = {Join(db, e) : e \in WantedNow(db, q)}
    BY <1>1, <1>2 DEF Relies, StillWanted
  <2>2. \A e \in Employees : Rejoin(Join(db, e)) = Join(db, e) /\ Join(db, e).employee = e
    <3> SUFFICES ASSUME NEW e \in Employees PROVE Rejoin(Join(db, e)) = Join(db, e) /\ Join(db, e).employee = e
      OBVIOUS
    <3>1. PICK t : t = Join(db, e)
      OBVIOUS
    <3>2. /\ t.employee = e /\ t.level = db.employee[e].level /\ t.override = db.employee[e].override
          /\ t = [employee |-> t.employee, level |-> t.level, override |-> t.override, default |-> t.default,
                  overrideTier |-> t.overrideTier, levelTier |-> t.levelTier]
      BY <3>1 DEF Join
    <3>3. Rejoin(t) = t
      BY <3>2 DEF Rejoin
    <3> QED BY <3>1, <3>2, <3>3
  <2>3. {v \in q.found : Wanted(q, Rejoin(v))} = q.found
    BY <2>1, <2>2 DEF WantedNow
  <2>4. {t.employee : t \in q.found} = WantedNow(db, q)
    BY <2>1, <2>2 DEF WantedNow
  <2> QED BY <2>3, <2>4
<1>3. ASSUME q.op = "move" PROVE locked \subseteq q.who
  <2> SUFFICES ASSUME NEW v \in q.found, Wanted(q, Rejoin(v)) PROVE v.employee \in q.who
    OBVIOUS
  <2>1. Rejoin(v).employee = v.employee
    <3>1. v \in JoinedRow
      BY <1>1 DEF Request
    <3> QED BY <3>1 DEF Rejoin, JoinedRow
  <2> QED BY <1>3, <2>1 DEF Wanted
<1> HIDE DEF locked, schedule
<1>4. PICK u : u = [q EXCEPT !.at = "locked", !.found = {}, !.who = locked, !.schedule = schedule]
  OBVIOUS
<1>5. /\ u.at = "locked" /\ u.op = q.op /\ u.of = q.of /\ u.to = q.to /\ u.row = q.row
      /\ u.fallback = q.fallback /\ u.version = q.version /\ u.who = locked
  BY <1>1, <1>4 DEF Request
<1>6. Captures(q) /\ StillKnown(db, q)
  BY <1>1 DEF WellFormed, Relies
<1>7. StillKnown(db, u) /\ WellFormed(u) /\ (q.op \in Selecting => WantedNow(db, u) = WantedNow(db, q))
  BY <1>1, <1>3, <1>5, <1>6, AsAsked
<1>8. Relies(db, u)
  BY <1>2, <1>5, <1>7 DEF Relies, StillWanted, StillRight
<1>9. u # Idle
  BY <1>5 DEF Idle
<1>10. request' = [request EXCEPT ![r] = u]
  BY <1>1, <1>4
<1> QED BY <1>1, <1>5, <1>7, <1>8, <1>9, <1>10, AdvanceKeepsDue DEF Begun

LEMMA RecalculateKeepsDue ==
    ASSUME ScheduleInv, DueParts, NEW r \in Requests, Recalculate(r)
    PROVE  DueParts'
<1> DEFINE q == request[r]
           schedule == [e \in Employees |-> ScheduleFrom(Written(db, q), e, q.schedule[e].base)]
<1>1. /\ Going(r) /\ q \in Request /\ q.at = "locked" /\ WellFormed(q) /\ Relies(db, q) /\ MayWrite(r)
      /\ request' = [request EXCEPT ![r] = [q EXCEPT !.at = "saved", !.schedule = schedule]]
      /\ db' = db
  BY RequestType DEF Recalculate, Going, ScheduleInv, DueParts
<1>2. \A e \in Employees : schedule[e] = ScheduleFrom(Written(db, q), e, schedule[e].base)
  BY DEF ScheduleFrom
<1> HIDE DEF schedule
<1>3. PICK u : u = [q EXCEPT !.at = "saved", !.schedule = schedule]
  OBVIOUS
<1>4. /\ u.at = "saved" /\ u.op = q.op /\ u.of = q.of /\ u.to = q.to /\ u.row = q.row
      /\ u.fallback = q.fallback /\ u.version = q.version /\ u.who = q.who /\ u.schedule = schedule
  BY <1>1, <1>3 DEF Request
<1>5. Captures(q) /\ StillKnown(db, q) /\ StillWanted(db, q) /\ q.who \subseteq Employees
  BY <1>1 DEF WellFormed, Relies, Request
<1>6. StillKnown(db, u) /\ WellFormed(u) /\ (q.op \in Selecting => WantedNow(db, u) = WantedNow(db, q))
  BY <1>1, <1>4, <1>5, AsAsked
<1>7. StillWanted(db, u)
  BY <1>1, <1>4, <1>5, <1>6 DEF StillWanted
<1>8. StillRight(db, u)
  <2>1. Written(db, u) = Written(db, q)
    BY <1>4 DEF Written
  <2>2. \A e \in u.who : u.schedule[e] = ScheduleFrom(Written(db, u), e, u.schedule[e].base)
    BY <1>2, <1>4, <1>5, <2>1
  <2>3. u.op \in {"override", "default"} /\ u.to # Null => db.cadence[u.to].stored
    BY <1>1, <1>4 DEF MayWrite
  <2>4. u.op = "move" => \A e \in u.who : u.version = db.employee[e].version
    BY <1>1, <1>4 DEF MayWrite
  <2>5. u.op = "create" => \A c \in Cadences \ {u.of} : ~(db.cadence[c].stored /\ db.cadence[c].standard)
    BY <1>1, <1>4, <1>5 DEF MayWrite, Captures
  <2> QED BY <2>2, <2>3, <2>4, <2>5 DEF StillRight
<1>9. u # Idle
  BY <1>4 DEF Idle
<1>10. request' = [request EXCEPT ![r] = u]
  BY <1>1, <1>3
<1>11. u.op = "create" /\ u.row.standard =>
          \A s \in Others(r) : Running(s, {"create"}, {"saved"}) => ~request[s].row.standard
  BY <1>1, <1>4 DEF MayWrite, Running
<1> QED BY <1>1, <1>4, <1>6, <1>7, <1>8, <1>9, <1>10, <1>11, AdvanceKeepsDue DEF Begun, Relies

(* What a request finds when it is asked; a new one joins only requests    *)
(* that the locks keep apart from it.                                      *)
LEMMA AskKeepsDue ==
    ASSUME ScheduleInv, DueParts, NEW r \in Requests, NEW asked, Ask(r, asked), ~overlaps',
           asked.at = "checked", WellFormed(asked), StillKnown(db, asked),
           asked.op = "create" => \A p \in Requests : Running(p, Operations, Stages) => request[p].of # asked.of,
           asked.op \in {"update", "cadenceName", "delete"} => db.cadence[asked.of].stored
    PROVE  DueParts'
<1>1. request \in [Requests -> Request \cup {Idle}]
  BY DEF ScheduleInv, ScheduleTypeOK
<1>2. /\ request[r] = Idle /\ ~Overlapping(asked.op) /\ db' = db
      /\ request'[r] = asked /\ \A s \in Requests : s # r => request'[s] = request[s]
  BY <1>1 DEF Ask
<1>3. \A s \in Requests : \A ops, stages : s # r => (Running(s, ops, stages)' <=> Running(s, ops, stages))
  BY <1>2 DEF Running
<1>4. Serialized'
  BY <1>2 DEF DueParts, Serialized, Going, Overlapping
<1>5. \A ops : ~Running(r, ops, Begun)'
  BY <1>2 DEF Running, Begun
<1>6. LevelsApart'
  BY <1>2, <1>3, <1>5 DEF DueParts, LevelsApart
<1>7. CreatedApart'
  <2> SUFFICES ASSUME NEW s \in Requests, NEW p \in Requests, s # p, Running(s, {"create"}, Stages)'
               PROVE  /\ Running(p, CadenceWrites \cup {"cadenceName"}, Stages)' => request'[p].of # request'[s].of
                      /\ Running(p, {"create"}, {"saved"})' /\ request'[s].at = "saved" =>
                            ~(request'[s].row.standard /\ request'[p].row.standard)
    BY DEF CreatedApart
  <2>1. CASE s = r
    <3>1. asked.op = "create" /\ request'[s] = asked /\ request'[p] = request[p]
      BY <1>2, <2>1 DEF Running
    <3>2. Running(p, CadenceWrites \cup {"cadenceName"}, Stages)' => Running(p, Operations, Stages)
      BY <1>3, <2>1 DEF Running, CadenceWrites, Operations
    <3> QED BY <3>1, <3>2
  <2>2. CASE p = r
    <3>1. Running(s, {"create"}, Stages) /\ request'[s] = request[s] /\ request'[p] = asked
      BY <1>2, <1>3, <2>2
    <3>2. ~db.cadence[request[s].of].stored
      BY <3>1 DEF DueParts, Relies, StillKnown, Running, Going
    <3>3. Running(s, Operations, Stages)
      BY <3>1 DEF Running, Operations
    <3> QED BY <3>1, <3>2, <3>3 DEF Running, CadenceWrites
  <2>3. CASE s # r /\ p # r
    BY <1>2, <1>3, <2>3 DEF DueParts, CreatedApart
  <2> QED BY <2>1, <2>2, <2>3
<1>8. Relies(db, asked)
  BY DEF Relies, StillWanted, StillRight
<1>9. \A s \in Requests : Going(s)' => WellFormed(request'[s]) /\ Relies(db', request'[s])
  BY <1>2, <1>8 DEF DueParts, Going
<1> QED BY <1>2, <1>4, <1>6, <1>7, <1>9 DEF DueParts

LEMMA PersonKeepsDue ==
    ASSUME ScheduleInv, DueParts, NEW r \in Requests, ~overlaps',
           \/ \E S \in SUBSET Employees : PublishEvaluations(r, S)
           \/ \E e \in Employees, c \in Cadences \cup {Null} : UpdateCadenceOverride(r, e, c)
           \/ \E e \in Employees, l \in Levels : UpdateEmployee(r, e, l)
    PROVE  DueParts'
<1>1. ASSUME NEW S \in SUBSET Employees, PublishEvaluations(r, S) PROVE DueParts'
  <2>1. PICK asked : asked = [Blank("publish") EXCEPT !.who = S, !.date = today + 1]
    OBVIOUS
  <2>2. asked.op = "publish" /\ asked.at = "checked"
    BY <2>1 DEF Blank
  <2>3. WellFormed(asked) /\ StillKnown(db, asked)
    BY <2>2 DEF WellFormed, StillKnown, CadenceWrites
  <2> QED BY <1>1, <2>1, <2>2, <2>3, AskKeepsDue DEF PublishEvaluations
<1>2. ASSUME NEW e \in Employees, NEW c \in Cadences \cup {Null}, UpdateCadenceOverride(r, e, c) PROVE DueParts'
  <2>1. PICK asked : asked = [Blank("override") EXCEPT !.who = {e}, !.to = c]
    OBVIOUS
  <2>2. asked.op = "override" /\ asked.at = "checked"
    BY <2>1 DEF Blank
  <2>3. WellFormed(asked) /\ StillKnown(db, asked)
    BY <2>2 DEF WellFormed, StillKnown, CadenceWrites
  <2> QED BY <1>2, <2>1, <2>2, <2>3, AskKeepsDue DEF UpdateCadenceOverride
<1>3. ASSUME NEW e \in Employees, NEW l \in Levels, UpdateEmployee(r, e, l) PROVE DueParts'
  <2>1. PICK asked : asked = [Blank("move") EXCEPT !.who = {e}, !.of = db.employee[e].level, !.to = l,
                                                   !.version = db.employee[e].version]
    OBVIOUS
  <2>2. /\ asked.op = "move" /\ asked.at = "checked" /\ asked.who = {e}
        /\ asked.of = db.employee[e].level /\ asked.version = db.employee[e].version
    BY <2>1 DEF Blank
  <2>3. db.employee[e].version \in Nat
    BY DEF ScheduleInv, ScheduleTypeOK, Database, EmployeeRow
  <2>4. WellFormed(asked) /\ StillKnown(db, asked)
    BY <2>2, <2>3 DEF WellFormed, StillKnown, CadenceWrites
  <2> QED BY <1>3, <2>1, <2>2, <2>4, AskKeepsDue DEF UpdateEmployee
<1> QED BY <1>1, <1>2, <1>3

LEMMA LevelKeepsDue ==
    ASSUME ScheduleInv, DueParts, NEW r \in Requests, ~overlaps',
           NEW l \in Levels, NEW c \in Cadences \cup {Null}, UpdateJobLevel(r, l, c)
    PROVE  DueParts'
<1>1. PICK op : op = IF c = db.default[l] THEN "levelName" ELSE "default"
  OBVIOUS
<1>2. PICK asked : asked = [Blank(op) EXCEPT !.of = l, !.to = c]
  OBVIOUS
<1>3. asked.op = op /\ asked.at = "checked" /\ asked.of = l /\ asked.to = c
  BY <1>2 DEF Blank
<1>4. WellFormed(asked) /\ StillKnown(db, asked)
  BY <1>1, <1>3 DEF WellFormed, StillKnown, CadenceWrites
<1>5. Ask(r, asked)
  BY <1>1, <1>2 DEF UpdateJobLevel
<1> QED BY <1>1, <1>3, <1>4, <1>5, AskKeepsDue

LEMMA CadenceKeepsDue ==
    ASSUME ScheduleInv, DueParts, NEW r \in Requests, ~overlaps', NEW c \in Cadences, NEW row \in CadenceRow,
           UpdateCadence(r, c, row) \/ CreateCadence(r, c, row) \/ DeleteCadence(r, c)
    PROVE  DueParts'
<1>1. ASSUME UpdateCadence(r, c, row) PROVE DueParts'
  <2>1. PICK op : op = IF row = db.cadence[c] THEN "cadenceName" ELSE "update"
    OBVIOUS
  <2>2. PICK b : b = (db.cadence[c].standard \/ row.standard)
    OBVIOUS
  <2>3. PICK asked : asked = [Blank(op) EXCEPT !.of = c, !.row = row, !.fallback = b]
    OBVIOUS
  <2>4. asked.op = op /\ asked.at = "checked" /\ asked.of = c /\ asked.row = row /\ asked.fallback = b
    BY <2>3 DEF Blank
  <2>5. /\ db.cadence[c].stored /\ row.stored
        /\ Ask(r, asked)
    BY <1>1, <2>1, <2>2, <2>3 DEF UpdateCadence
  <2>6. WellFormed(asked) /\ StillKnown(db, asked)
    BY <2>1, <2>2, <2>4, <2>5 DEF WellFormed, StillKnown, CadenceWrites
  <2> QED BY <2>1, <2>4, <2>5, <2>6, AskKeepsDue
<1>2. ASSUME CreateCadence(r, c, row) PROVE DueParts'
  <2>1. PICK asked : asked = [Blank("create") EXCEPT !.of = c, !.row = row, !.fallback = TRUE]
    OBVIOUS
  <2>2. asked.op = "create" /\ asked.at = "checked" /\ asked.of = c /\ asked.row = row /\ asked.fallback = TRUE
    BY <2>1 DEF Blank
  <2>3. /\ ~db.cadence[c].stored /\ row.stored /\ Ask(r, asked)
        /\ \A p \in Requests : Running(p, Operations, Stages) => request[p].of # c
    BY <1>2, <2>1 DEF CreateCadence
  <2>4. ~Referenced(db, c)
    BY <2>3 DEF DueParts, ReferencesStored
  <2>5. WellFormed(asked) /\ StillKnown(db, asked)
    BY <2>2, <2>3, <2>4 DEF WellFormed, StillKnown, CadenceWrites
  <2> QED BY <2>2, <2>3, <2>5, AskKeepsDue
<1>3. ASSUME DeleteCadence(r, c) PROVE DueParts'
  <2>1. PICK asked : asked = [Blank("delete") EXCEPT !.of = c, !.row = db.cadence[c], !.fallback = TRUE]
    OBVIOUS
  <2>2. /\ asked.op = "delete" /\ asked.at = "checked" /\ asked.of = c
        /\ asked.row = db.cadence[c] /\ asked.fallback = TRUE
    BY <2>1 DEF Blank
  <2>3. db.cadence[c].stored /\ ~Referenced(db, c) /\ Ask(r, asked)
    BY <1>3, <2>1 DEF DeleteCadence
  <2>4. WellFormed(asked) /\ StillKnown(db, asked)
    BY <2>2, <2>3 DEF WellFormed, StillKnown, CadenceWrites
  <2> QED BY <2>2, <2>3, <2>4, AskKeepsDue
<1> QED BY <1>1, <1>2, <1>3

LEMMA RollbackKeepsDue ==
    ASSUME ScheduleInv, DueParts, NEW r \in Requests, Rollback(r)
    PROVE  DueParts'
<1>1. request' = [request EXCEPT ![r] = Idle] /\ db' = db
  BY DEF Rollback
<1>2. /\ (Serialized /\ LevelsApart /\ CreatedApart)'
      /\ \A s \in Requests : Going(s)' => s # r /\ Going(s) /\ request'[s] = request[s]
  BY <1>1, EndedApart DEF ScheduleInv, DueParts
<1>3. \A s \in Requests : Going(s)' => WellFormed(request'[s]) /\ Relies(db', request'[s])
  BY <1>1, <1>2 DEF DueParts
<1> QED BY <1>1, <1>2, <1>3 DEF DueParts

LEMMA InitDueInv == ScheduleInit => DueInv
<1> SUFFICES ASSUME ScheduleInit PROVE DueParts
  BY DEF DueInv
<1>1. \A r \in Requests : \A ops, stages : ~Going(r) /\ ~Running(r, ops, stages)
  BY DEF ScheduleInit, Going, Running
<1>2. ReferencesStored(db) /\ \A e \in Employees : Current(db, e)
  BY DEF ScheduleInit, ReferencesStored
<1> QED BY <1>1, <1>2 DEF DueParts, Serialized, LevelsApart, CreatedApart

LEMMA StepDueInv == ScheduleInv /\ DueInv /\ [ScheduleNext]_scheduleVars => DueInv'
<1> SUFFICES ASSUME ScheduleInv, DueInv, [ScheduleNext]_scheduleVars, ~overlaps' PROVE DueParts'
  BY DEF DueInv
<1>1. CASE UNCHANGED scheduleVars
  <2>1. DueParts /\ db' = db /\ request' = request
    BY <1>1 DEF DueInv, scheduleVars
  <2> QED BY <2>1 DEF DueParts, Serialized, LevelsApart, CreatedApart, Going, Running
<1>2. ASSUME NEW r \in Requests, RequestMade(r) PROVE DueParts'
  <2>1. ~overlaps
    BY <1>2, MadeIsAsked DEF Ask
  <2>2. DueParts
    BY <2>1 DEF DueInv
  <2>3. \A c \in Cadences : db.cadence[c] \in CadenceRow
    BY DEF ScheduleInv, ScheduleTypeOK, Database
  <2> QED BY <1>2, <2>2, <2>3, PersonKeepsDue, LevelKeepsDue, CadenceKeepsDue DEF RequestMade
<1>3. ASSUME NEW r \in Requests, RequestStep(r) PROVE DueParts'
  <2>1. ~overlaps
    BY <1>3 DEF RequestStep, FindEmployees, LockEmployees, Recalculate, Commit, WriteOnly, Rollback
  <2>2. DueParts
    BY <2>1 DEF DueInv
  <2> QED BY <1>3, <2>2, FindKeepsDue, LockKeepsDue, RecalculateKeepsDue, WriteKeepsDue, RollbackKeepsDue
          DEF RequestStep
<1> QED BY <1>1, <1>2, <1>3 DEF ScheduleNext

(* Every due date is the one that the committed cadences give, whatever    *)
(* the requests do that the locks serialize: what a transaction finds,     *)
(* locks and derives is still right when it commits.                       *)
THEOREM DueDatesAreCurrent == ScheduleSpec => []DueIsCurrent
<1>1. DueInv => DueIsCurrent
  BY DEF DueInv, DueParts, DueIsCurrent
<1> QED BY <1>1, InitScheduleInv, StepScheduleInv, InitDueInv, StepDueInv, PTL DEF ScheduleSpec

-----------------------------------------------------------------------------
(* What the due dates rest on                                              *)

(* What a request has read before its transaction began, found under no    *)
(* lock, or derived before its commit, still holds as long as none runs    *)
(* beside it that the locks do not serialize with it: the reads of the     *)
(* resolvers may be repeated at the commit and give the same.              *)
THEOREM ReadsStayRight ==
    ScheduleSpec => [](~overlaps => \A r \in Requests : Going(r) => Relies(db, request[r]))
<1>1. DueInv => (~overlaps => \A r \in Requests : Going(r) => Relies(db, request[r]))
  BY DEF DueInv, DueParts
<1> QED BY <1>1, InitScheduleInv, StepScheduleInv, InitDueInv, StepDueInv, PTL DEF ScheduleSpec

(* What an operation that runs alone leaves of a schedule: it writes, and  *)
(* derives the due dates of all employees anew; a publication also sets    *)
(* the base of those it publishes.                                         *)
ScheduleAlone(d, q, e) ==
    ScheduleFrom(Written(d, q), e, IF q.op = "publish" /\ e \in q.who THEN q.date ELSE Base(d, e))

(* The commit of a transaction has the effect of its operation, run alone  *)
(* and on all employees at that moment: to have locked some of them only,  *)
(* and to have derived their due dates earlier, cannot be told.            *)
THEOREM CommitsAreSerial ==
    ScheduleSpec => [][~overlaps => \A r \in Requests : Commit(r) =>
                          /\ SameTables(Written(db, request[r]), db')
                          /\ \A e \in Employees : db'.employee[e].schedule = ScheduleAlone(db, request[r], e)]_scheduleVars
<1>1. ASSUME ScheduleInv, DueInv, ScheduleInv', DueInv', ~overlaps, NEW r \in Requests, Commit(r)
      PROVE  /\ SameTables(Written(db, request[r]), db')
             /\ \A e \in Employees : db'.employee[e].schedule = ScheduleAlone(db, request[r], e)
  <2>1. request[r] \in Request /\ db \in Database /\ Holding(r)
    BY <1>1, RequestType DEF ScheduleInv, Commit, Going, Holding
  <2>2. PICK w \in Database : w = Written(db, request[r])
    BY <2>1, WrittenKeeps DEF KeepsSchedules
  <2>3. SameTables(w, db')
    BY <1>1, <2>1, <2>2, SavedTables DEF Commit
  <2>4. ASSUME NEW e \in Employees PROVE db'.employee[e].schedule = ScheduleAlone(db, request[r], e)
    <3>1. overlaps' = overlaps
      BY <1>1 DEF Commit
    <3>2. db'.employee[e].schedule = ScheduleFrom(db', e, Base(db', e))
      BY <1>1, <3>1 DEF DueInv, DueParts, Current
    <3>3. EffectiveInterval(db', e) = EffectiveInterval(w, e)
      BY <2>3, SameTablesChoice
    <3>4. Base(db', e) = IF e \in request[r].who THEN request[r].schedule[e].base ELSE Base(db, e)
      BY <1>1, CommitBases DEF ScheduleInv
    <3>5. e \in request[r].who => request[r].schedule[e].base =
              IF request[r].op = "publish" THEN request[r].date ELSE Base(db, e)
      BY <1>1, <2>1 DEF ScheduleInv, BaseAsRead
    <3>6. Base(db', e) = IF request[r].op = "publish" /\ e \in request[r].who THEN request[r].date ELSE Base(db, e)
      BY <3>4, <3>5
    <3>7. \A base : ScheduleFrom(db', e, base) = ScheduleFrom(w, e, base)
      BY <3>3 DEF ScheduleFrom
    <3> QED BY <2>2, <3>2, <3>6, <3>7 DEF ScheduleAlone
  <2> QED BY <2>2, <2>3, <2>4
<1>2. ScheduleInv /\ DueInv /\ ScheduleInv' /\ DueInv' =>
         (~overlaps => \A r \in Requests : Commit(r) =>
                          /\ SameTables(Written(db, request[r]), db')
                          /\ \A e \in Employees : db'.employee[e].schedule = ScheduleAlone(db, request[r], e))
  BY <1>1
<1> QED BY <1>2, InitScheduleInv, StepScheduleInv, InitDueInv, StepDueInv, PTL DEF ScheduleSpec
=============================================================================
