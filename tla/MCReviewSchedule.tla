-------------------------- MODULE MCReviewSchedule --------------------------
(***************************************************************************)
(* Small instances of the review schedule: the level l1 has no default,    *)
(* l2 may have c2; c1 is the default of the system, or there is none.      *)
(***************************************************************************)
EXTENDS ReviewSchedule, TLC

CONSTANTS l1, l2, c1, c2

Missing == [stored |-> FALSE, interval |-> 1, active |-> FALSE, standard |-> FALSE]
Row(i, a, s) == [stored |-> TRUE, interval |-> i, active |-> a, standard |-> s]

Hired(l, c) == [level |-> l, override |-> c, version |-> 0, schedule |-> [base |-> 0, due |-> 0]]
Reviewed(d) == [d EXCEPT !.employee = [e \in Employees |-> [@[e] EXCEPT !.schedule = ScheduleFrom(d, e, 1)]]]

New ==
    [cadence : {(c1 :> Row(1, TRUE, s)) @@ (c2 :> row) : s \in BOOLEAN, row \in {Missing, Row(2, TRUE, FALSE)}},
     default : {(l1 :> Null) @@ (l2 :> c) : c \in {Null, c1, c2}},
     employee : {[e \in Employees |-> Hired(l, c)] : l \in {l1, l2}, c \in {Null, c1, c2}}]

(* No employee has completed a review, or each in the first month.         *)
MCStarts == New \cup {Reviewed(d) : d \in New}

Exchange == Permutations(Employees) \cup Permutations(Requests)
=============================================================================
