--------------------------- MODULE ReviewSchedule ---------------------------
(***************************************************************************)
(* When the next review of an employee is due.  The due date is stored     *)
(* with the employee and follows from the completion of the last review    *)
(* and from the cadence in effect, which three tables decide: the override *)
(* of the employee, the default of the job level, the default of the       *)
(* system.  A transaction that changes one of them locks the employees it  *)
(* finds to depend on it, writes, and derives their due dates anew.        *)
(*                                                                         *)
(* Transactions run in READ COMMITTED: a statement reads what is committed *)
(* when it starts, and what its own transaction has written.  db holds the *)
(* committed tables; what a transaction has written and not committed is   *)
(* kept by its request.  Dates count months.                               *)
(***************************************************************************)
EXTENDS Naturals

CONSTANTS
    Employees,   \* employees
    Levels,      \* job levels
    Cadences,    \* ids of review_cadence rows, present and future
    Null,        \* the NULL of a foreign key
    Intervals,   \* interval_months a cadence may have
    Requests,    \* requests in flight
    Starts,      \* contents of the database to start from
    MaxRequests  \* bound on the requests ever made

(* A row of review_cadence; standard is is_system_default. *)
CadenceRow == [stored : BOOLEAN, interval : Intervals, active : BOOLEAN, standard : BOOLEAN]

(* base is last_evaluation_completed_at, due is next_review_due_date, and  *)
(* 0 is their NULL: who has completed no review has none that is due.      *)
Schedule == {s \in [base : Nat, due : Nat] : s.base = 0 => s.due = 0}

EmployeeRow == [level : Levels, override : Cadences \cup {Null}, version : Nat, schedule : Schedule]

Database ==
    [cadence : [Cadences -> CadenceRow], default : [Levels -> Cadences \cup {Null}],
     employee : [Employees -> EmployeeRow]]

-----------------------------------------------------------------------------
(* resolveEffectiveCadences and computeDueDate                             *)

(* A tier counts when its cadence is there and active. *)
Tier(d, c) == IF c # Null /\ d.cadence[c].stored /\ d.cadence[c].active THEN c ELSE Null

OverrideTier(d, e) == Tier(d, d.employee[e].override)
LevelTier(d, e) == Tier(d, d.default[d.employee[e].level])
StandardTiers(d) == {c \in Cadences : d.cadence[c].standard /\ Tier(d, c) = c}

(* The interval of the cadence in effect, 0 if there is none.              *)
IntervalOf(d, c) == d.cadence[c].interval
EffectiveInterval(d, e) ==
    CASE OverrideTier(d, e) # Null -> IntervalOf(d, OverrideTier(d, e))
      [] OverrideTier(d, e) = Null /\ LevelTier(d, e) # Null -> IntervalOf(d, LevelTier(d, e))
      [] OverrideTier(d, e) = Null /\ LevelTier(d, e) = Null /\ StandardTiers(d) # {} ->
            IntervalOf(d, CHOOSE c \in StandardTiers(d) : TRUE)
      [] OTHER -> 0

(* The fault counts from an employment that has seen no review.            *)
UncheckedDueDate(base, interval) == IF interval = 0 THEN 0 ELSE base + interval
DueDate(base, interval) == IF base = 0 \/ interval = 0 THEN 0 ELSE base + interval

ScheduleFrom(d, e, base) == [base |-> base, due |-> DueDate(base, EffectiveInterval(d, e))]

Base(d, e) == d.employee[e].schedule.base
Current(d, e) == d.employee[e].schedule = ScheduleFrom(d, e, Base(d, e))

(* uq_review_cadence_system_default: one row may be standard, active or not. *)
OneStandard(d) ==
    \A b, c \in Cadences :
        d.cadence[b].stored /\ d.cadence[b].standard /\ d.cadence[c].stored /\ d.cadence[c].standard => b = c

(* The foreign keys on review_cadence. *)
Referenced(d, c) ==
    (\E e \in Employees : d.employee[e].override = c) \/ (\E l \in Levels : d.default[l] = c)

ASSUME ScheduleAssumption ==
    /\ Intervals \subseteq Nat \ {0} /\ Intervals # {}
    /\ Null \notin Cadences
    /\ MaxRequests \in Nat
    /\ Starts \subseteq Database

-----------------------------------------------------------------------------
VARIABLES
    db,        \* the committed contents of the tables
    request,   \* the local state of every request
    today,     \* the date of the last publication, by which the clock is measured
    made,      \* requests made so far
    overlaps   \* history: requests ran at the same time that nothing serializes

scheduleVars == <<db, request, today, made, overlaps>>

(* publish      onEvaluationsPublished, for the employees of who           *)
(* override     updateCadenceOverride: who gets the override to            *)
(* move         updateEmployeeWithSchedule: who goes from level of to to   *)
(* default      updateJobLevel: level of gets the default to               *)
(* levelName    updateJobLevel that finds the default unchanged            *)
(* update       updateCadence: cadence of becomes row                      *)
(* cadenceName  updateCadence that finds nothing relevant changed          *)
(* create       createCadence, delete deleteCadence                        *)
Operations == {"publish", "override", "move", "default", "levelName",
               "update", "cadenceName", "create", "delete"}

(* checked: what it reads on the pool is read; locking: it has found rows  *)
(* to lock; locked: it has locked the employees of who; saved: all that    *)
(* remains is the commit.                                                  *)
Stages == {"checked", "locking", "locked", "saved"}

Idle == [at |-> "idle"]

(* A row of the join of employee, job_level and the three tiers.           *)
JoinedRow ==
    [employee : Employees, level : Levels, override : Cadences \cup {Null}, default : Cadences \cup {Null},
     overrideTier : Cadences \cup {Null}, levelTier : Cadences \cup {Null}]

Request ==
  {q \in [op : Operations, at : Stages, who : SUBSET Employees, of : Levels \cup Cadences \cup {Null},
     to : Levels \cup Cadences \cup {Null}, row : CadenceRow, fallback : BOOLEAN, date : Nat,
     version : Nat, found : SUBSET JoinedRow, schedule : [Employees -> Schedule]] :
      q.to \in IF q.op = "move" THEN Levels ELSE Cadences \cup {Null}}

ScheduleTypeOK ==
    /\ db \in Database
    /\ request \in [Requests -> Request \cup {Idle}]
    /\ today \in Nat /\ made \in 0..MaxRequests
    /\ overlaps \in BOOLEAN

ScheduleInit ==
    /\ db \in Starts /\ OneStandard(db)
    /\ \A c \in Cadences : Referenced(db, c) => db.cadence[c].stored
    /\ \A e \in Employees : Current(db, e)
    /\ request = [r \in Requests |-> Idle]
    /\ today = 1 /\ made = 0 /\ overlaps = FALSE

-----------------------------------------------------------------------------
(* The row locks.                                                          *)

Running(r, ops, stages) == request[r] # Idle /\ request[r].op \in ops /\ request[r].at \in stages

CadenceWrites == {"update", "create", "delete"}

(* FOR UPDATE OF e, and the rows a DELETE sets to NULL.  The fault reads   *)
(* the rows without locking them.                                          *)
HasRead(r, e) == FALSE
HoldsEmployee(r, e) ==
    \/ Running(r, Operations, {"locked", "saved"}) /\ e \in request[r].who
    \/ Running(r, {"delete"}, {"saved"}) /\ db.employee[e].override = request[r].of

(* A move takes its two levels FOR SHARE, a new default its level FOR UPDATE. *)
SharesLevel(r, l) ==
    Running(r, {"move"}, {"locking", "locked", "saved"}) /\ l \in {request[r].of, request[r].to}
HoldsLevel(r, l) ==
    \/ Running(r, {"default"}, {"locking", "locked", "saved"}) /\ l = request[r].of
    \/ Running(r, {"delete"}, {"saved"}) /\ db.default[l] = request[r].of

HoldsCadence(r, c) == Running(r, CadenceWrites, {"saved"}) /\ c = request[r].of
Refers(r, c) == Running(r, {"override", "default"}, {"saved"}) /\ c = request[r].to

Others(r) == Requests \ {r}

EmployeeFree(r, e) == \A p \in Others(r) : ~HoldsEmployee(p, e)
LevelFree(r, l) == \A p \in Others(r) : ~HoldsLevel(p, l) /\ ~SharesLevel(p, l)
CadenceFree(r, c) == \A p \in Others(r) : ~HoldsCadence(p, c)

-----------------------------------------------------------------------------
(* What an operation reads on the pool, before its transaction begins.     *)

(* Two operations that no lock serializes: one decides which cadence an    *)
(* employee depends on while the other, which does not see that, looks for *)
(* the employees that depend on the cadence it changes; or one writes back *)
(* columns that the other changes.                                         *)
MayMiss(a, b) ==
    \/ a = "update" /\ b \in CadenceWrites \cup {"cadenceName"}
    \/ a \in CadenceWrites /\ b \in {"override", "move", "default"}
    \/ a = "default" /\ b \in {"override", "levelName"}

Overlapping(op) ==
    \E p \in Requests : request[p] # Idle /\ (MayMiss(request[p].op, op) \/ MayMiss(op, request[p].op))

(* A request as it begins, with nothing given.                             *)
Blank(op) ==
    [op |-> op, at |-> "checked", who |-> {}, of |-> Null, to |-> Null,
     row |-> CHOOSE row \in CadenceRow : TRUE, fallback |-> FALSE, date |-> 0, version |-> 0,
     found |-> {}, schedule |-> [e \in Employees |-> [base |-> 0, due |-> 0]]]

Ask(r, asked) ==
    /\ request[r] = Idle /\ made < MaxRequests
    /\ request' = [request EXCEPT ![r] = asked]
    /\ made' = made + 1
    /\ overlaps' = (overlaps \/ Overlapping(asked.op))
    /\ UNCHANGED db

(* publishEvaluation and finalizeSession: the evaluations were published   *)
(* just now, in the transaction that goes on here.                         *)
PublishEvaluations(r, S) ==
    /\ S # {}
    /\ Ask(r, [Blank("publish") EXCEPT !.who = S, !.date = today + 1])
    /\ today' = today + 1

UpdateCadenceOverride(r, e, c) ==
    /\ c # Null => db.cadence[c].stored /\ db.cadence[c].active
    /\ Ask(r, [Blank("override") EXCEPT !.who = {e}, !.to = c])
    /\ UNCHANGED today

UpdateEmployee(r, e, l) ==
    /\ l # db.employee[e].level
    /\ Ask(r, [Blank("move") EXCEPT !.who = {e}, !.of = db.employee[e].level, !.to = l,
                                    !.version = db.employee[e].version])
    /\ UNCHANGED today

UpdateJobLevel(r, l, c) ==
    /\ c # Null => db.cadence[c].stored
    /\ Ask(r, [Blank(IF c = db.default[l] THEN "levelName" ELSE "default") EXCEPT !.of = l, !.to = c])
    /\ UNCHANGED today

ActiveStandards == {c \in Cadences : db.cadence[c].stored /\ db.cadence[c].standard /\ db.cadence[c].active}

(* What the fields that are not given are, existing says. *)
UpdateCadence(r, c, row) ==
    LET existing == db.cadence[c]
    IN  /\ existing.stored /\ row.stored
        /\ row.standard /\ ~existing.standard => ActiveStandards \subseteq {c}
        /\ Ask(r, [Blank(IF row = existing THEN "cadenceName" ELSE "update") EXCEPT
                      !.of = c, !.row = row, !.fallback = existing.standard \/ row.standard])
        /\ UNCHANGED today

CreateCadence(r, c, row) ==
    /\ ~db.cadence[c].stored /\ row.stored
    /\ \A p \in Requests : Running(p, Operations, Stages) => c \notin {request[p].of, request[p].to}
    /\ row.standard => ActiveStandards = {}
    /\ Ask(r, [Blank("create") EXCEPT !.of = c, !.row = row, !.fallback = TRUE])
    /\ UNCHANGED today

DeleteCadence(r, c) ==
    /\ db.cadence[c].stored
    /\ ~Referenced(db, c)
    /\ Ask(r, [Blank("delete") EXCEPT !.of = c, !.row = db.cadence[c], !.fallback = TRUE])
    /\ UNCHANGED today

-----------------------------------------------------------------------------
(* lockWhere                                                               *)

Join(d, e) ==
    [employee |-> e, level |-> d.employee[e].level, override |-> d.employee[e].override,
     default |-> d.default[d.employee[e].level],
     overrideTier |-> OverrideTier(d, e), levelTier |-> LevelTier(d, e)]

(* When the lock is granted, the condition is evaluated again on the row   *)
(* of the employee as it is now, joined to the rows it was joined to.      *)
Rejoin(t) ==
    LET now == db.employee[t.employee]
        kept(same, c) == IF same THEN c ELSE Null
    IN  [t EXCEPT !.level = now.level, !.override = now.override,
                  !.overrideTier = kept(now.override = t.override, @),
                  !.default = kept(now.level = t.level, @),
                  !.levelTier = kept(now.level = t.level, @)]

(* lockByEmployeeIds, lockByJobLevelWithoutOverride and lockByCadence; the *)
(* fault of the last forgets the employees that fall back on the default   *)
(* of the system.                                                          *)
ByName(q, t) ==
    \/ t.override = q.of
    \/ t.overrideTier = Null /\ t.default = q.of
ByCadence(q, t) ==
    \/ ByName(q, t)
    \/ q.fallback /\ t.overrideTier = Null /\ t.levelTier = Null

Wanted(q, t) ==
    CASE q.op \in {"publish", "override", "move"} -> t.employee \in q.who
      [] q.op = "default" -> t.level = q.of /\ t.overrideTier = Null
      [] OTHER -> ByCadence(q, t)

(* The transactions that lock employees before they write. *)
Captures(q) ==
    \/ q.op \in {"publish", "override", "move", "default", "update"}
    \/ q.op \in {"create", "delete"} /\ q.row.standard /\ (q.op = "create" => q.row.active)

(* The locks of the levels come first. *)
FindEmployees(r) ==
    LET q == request[r]
    IN  /\ q # Idle /\ q.at = "checked" /\ Captures(q)
        /\ q.op = "default" => LevelFree(r, q.of)
        /\ q.op = "move" => \A p \in Others(r) : ~HoldsLevel(p, q.of) /\ ~HoldsLevel(p, q.to)
        /\ request' = [request EXCEPT ![r] = [q EXCEPT !.at = "locking",
              !.found = {Join(db, e) : e \in {f \in Employees : Wanted(q, Join(db, f))}}]]
        /\ UNCHANGED <<db, today, made, overlaps>>

(* The rows that do are locked; a publication brings its own date.         *)
LockEmployees(r) ==
    LET q == request[r]
        locked == {t.employee : t \in {u \in q.found : Wanted(q, Rejoin(u))}}
    IN  /\ q # Idle /\ q.at = "locking"
        /\ \A t \in q.found : EmployeeFree(r, t.employee)
        /\ request' = [request EXCEPT ![r] = [q EXCEPT !.at = "locked", !.found = {}, !.who = locked,
              !.schedule = [e \in Employees |->
                  [base |-> IF q.op = "publish" THEN q.date ELSE Base(db, e), due |-> 0]]]]
        /\ UNCHANGED <<db, today, made, overlaps>>

-----------------------------------------------------------------------------
(* The write, and applyRecalculation                                       *)

(* What is left of a row that is deleted. *)
Gone(row) == [row EXCEPT !.stored = FALSE, !.active = FALSE, !.standard = FALSE]
Nulled(f, c) == [x \in DOMAIN f |-> IF f[x] = c THEN Null ELSE f[x]]

WithOverride(d, S, c) ==
    [d EXCEPT !.employee = [e \in Employees |-> IF e \in S THEN [@[e] EXCEPT !.override = c] ELSE @[e]]]
MovedTo(row, l) == [row EXCEPT !.level = l, !.version = row.version + 1]
WithLevel(d, S, l) ==
    [d EXCEPT !.employee = [e \in Employees |-> IF e \in S THEN MovedTo(@[e], l) ELSE @[e]]]
WithDefault(d, l, c) == [d EXCEPT !.default[l] = c]
WithCadence(d, c, row) == [d EXCEPT !.cadence[c] = row]

(* The foreign keys are ON DELETE SET NULL.                                *)
WithoutCadence(d, c) ==
    [d EXCEPT !.cadence[c] = Gone(@), !.default = Nulled(@, c),
              !.employee = [e \in Employees |->
                  IF @[e].override = c THEN [@[e] EXCEPT !.override = Null] ELSE @[e]]]

Written(d, q) ==
    CASE q.op = "publish" -> d
      [] q.op = "override" -> WithOverride(d, q.who, q.to)
      [] q.op = "move" -> WithLevel(d, q.who, q.to)
      [] q.op \in {"default", "levelName"} -> WithDefault(d, q.of, q.to)
      [] q.op \in {"update", "cadenceName", "create"} -> WithCadence(d, q.of, q.row)
      [] q.op = "delete" -> WithoutCadence(d, q.of)

(* saveSchedules *)
Saved(d, q) ==
    [d EXCEPT !.employee = [e \in Employees |->
        IF e \in q.who THEN [@[e] EXCEPT !.schedule = q.schedule[e]] ELSE @[e]]]

(* The write waits for the rows it touches and fails if a row it refers to *)
(* is gone, another row is standard, or the employee has been moved since. *)
(* An override that is set already is not written; its cadence is stored   *)
(* and is not being deleted, for a DELETE would hold the locked employee.  *)
MayWrite(r) ==
    LET q == request[r]
    IN  /\ q.op \in {"override", "default", "levelName"} /\ q.to # Null =>
              /\ db.cadence[q.to].stored
              /\ \A p \in Others(r) : ~(Running(p, {"delete"}, {"saved"}) /\ HoldsCadence(p, q.to))
        /\ q.op = "move" => \A e \in q.who : db.employee[e].version = q.version
        /\ q.op = "levelName" => LevelFree(r, q.of)
        /\ q.op \in {"update", "cadenceName"} => db.cadence[q.of].stored
        /\ q.op \in CadenceWrites \cup {"cadenceName"} => CadenceFree(r, q.of)
        /\ q.op \in {"update", "cadenceName", "create"} /\ q.row.standard =>
              /\ \A c \in Cadences \ {q.of} : ~(db.cadence[c].stored /\ db.cadence[c].standard)
              /\ \A p \in Others(r) : Running(p, {"update", "create"}, {"saved"}) => ~request[p].row.standard
        /\ q.op = "delete" =>
              /\ \A p \in Others(r) : ~Refers(p, q.of)
              /\ \A e \in Employees : db.employee[e].override = q.of => EmployeeFree(r, e)
              /\ \A l \in Levels : db.default[l] = q.of => LevelFree(r, l)

(* The cadences are read after the write, the bases were read under lock.  *)
Recalculate(r) ==
    LET q == request[r]
    IN  /\ q # Idle /\ q.at = "locked"
        /\ MayWrite(r)
        /\ request' = [request EXCEPT ![r] = [q EXCEPT !.at = "saved",
              !.schedule = [e \in Employees |-> ScheduleFrom(Written(db, q), e, @[e].base)]]]
        /\ UNCHANGED <<db, today, made, overlaps>>

Commit(r) ==
    LET q == request[r]
    IN  /\ q # Idle /\ q.at = "saved"
        /\ db' = Saved(Written(db, q), q)
        /\ request' = [request EXCEPT ![r] = Idle]
        /\ UNCHANGED <<today, made, overlaps>>

(* No due date can depend on what is written. *)
WriteOnly(r) ==
    LET q == request[r]
    IN  /\ q # Idle /\ q.at = "checked" /\ ~Captures(q)
        /\ MayWrite(r)
        /\ db' = Written(db, q)
        /\ request' = [request EXCEPT ![r] = Idle]
        /\ UNCHANGED <<today, made, overlaps>>

(* A statement fails or a deadlock is broken: the transaction rolls back.  *)
Rollback(r) ==
    /\ request[r] # Idle
    /\ request' = [request EXCEPT ![r] = Idle]
    /\ UNCHANGED <<db, today, made, overlaps>>

-----------------------------------------------------------------------------
RequestMade(r) ==
    \/ \E S \in SUBSET Employees : PublishEvaluations(r, S)
    \/ \E e \in Employees, c \in Cadences \cup {Null} : UpdateCadenceOverride(r, e, c)
    \/ \E e \in Employees, l \in Levels : UpdateEmployee(r, e, l)
    \/ \E l \in Levels, c \in Cadences \cup {Null} : UpdateJobLevel(r, l, c)
    \/ \E c \in Cadences, row \in CadenceRow : UpdateCadence(r, c, row) \/ CreateCadence(r, c, row)
    \/ \E c \in Cadences : DeleteCadence(r, c)

RequestStep(r) ==
    FindEmployees(r) \/ LockEmployees(r) \/ Recalculate(r) \/ Commit(r) \/ WriteOnly(r) \/ Rollback(r)

ScheduleNext == \E r \in Requests : RequestMade(r) \/ RequestStep(r)

ScheduleSpec == ScheduleInit /\ [][ScheduleNext]_scheduleVars

-----------------------------------------------------------------------------
(* "On any effective-cadence change: the due date is re-derived": every    *)
(* due date is the one the committed cadences give, if no two requests ran *)
(* at the same time that nothing serializes.                               *)
DueIsCurrent == ~overlaps => \A e \in Employees : Current(db, e)

(* "the base itself is never touched outside a publish": however the       *)
(* transactions interleave, none puts the base back that it has read.      *)
BaseIsPublished ==
    [][\A e \in Employees : Base(db', e) # Base(db, e) =>
          \E r \in Requests : /\ Running(r, {"publish"}, {"saved"}) /\ e \in request[r].who
                              /\ request' = [request EXCEPT ![r] = Idle]
                              /\ Base(db', e) = request[r].date]_scheduleVars
=============================================================================
