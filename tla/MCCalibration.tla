---------------------------- MODULE MCCalibration ----------------------------
(***************************************************************************)
(* Small instances of calibration and of the workflow it extends: a batch  *)
(* cycle of two employees, whose sessions have the whole organisation as   *)
(* their scope, and two individual cycles of a third employee.             *)
(***************************************************************************)
EXTENDS Calibration, TLC

CONSTANTS first, batch, ind1, ind2, m1, m2, m3, bm1, bm2, im1, jm1

MCCycleOf == [e \in Evaluations |-> IF e \in {bm1, bm2} THEN batch ELSE IF e = im1 THEN ind1 ELSE ind2]
MCEmployeeOf == [e \in Evaluations |-> IF e = bm1 THEN m1 ELSE IF e = bm2 THEN m2 ELSE m3]
MCSessionCycle == [s \in Sessions |-> batch]
MCSessionScope == [s \in Sessions |-> "ORG"]
MCRowsInScope == [scope \in {"ORG"} |-> Evaluations]

(* The two evaluations of the batch may be exchanged together with their   *)
(* employees, the individual cycles together with their evaluations, and   *)
(* the operators.                                                          *)
Same(S) == [x \in S |-> x]
SwapRows == (bm1 :> bm2) @@ (bm2 :> bm1) @@ (m1 :> m2) @@ (m2 :> m1)
SwapCycles == (ind1 :> ind2) @@ (ind2 :> ind1) @@ (im1 :> jm1) @@ (jm1 :> im1)
Exchange ==
    { f @@ g @@ h : f \in {Same({bm1, bm2, m1, m2}), SwapRows},
                    g \in {Same({ind1, ind2, im1, jm1}), SwapCycles},
                    h \in Permutations(Operators) }

(* The sessions a race may involve.  A run that checks many properties at   *)
(* once takes the races one at a time: the batch cycle is not created and   *)
(* one of the individual evaluations is worked on; or rows of the batch are *)
(* created, scored and locked while the first session goes on; or both      *)
(* sessions go on over rows that exist and have not been worked on.         *)
AllCreated == Exists(bm1) /\ Exists(bm2)
SessionsIn == {s \in Sessions : sessionStatus[s] # "NONE"}
                \cup {work[o].session : o \in {p \in Operators : work[p] # Free}}
Untouched ==
    /\ \A r \in Requests : request[r] = Idle
    /\ \A o \in Operators : work[o].op # "adjust"
    /\ \A e \in Evaluations :
          adjustments[e] = <<>> /\ finalScore[e] = NoScore /\ ~scored[e] /\ ~flagged[e] /\ ~planComplete[e]

OneWorkedOn ==
    /\ \A e \in Evaluations : finalScore[e] = NoScore
    /\ \E e \in {im1, jm1} : ~scored[e] /\ ~flagged[e] /\ ~planComplete[e]

OneRaceAtATime ==
    IF cycleStatus[batch] = "NONE" THEN OneWorkedOn
    ELSE /\ \A c \in Individual : cycleStatus[c] = "NONE"
         /\ IF AllCreated THEN Untouched ELSE SessionsIn \subseteq {first}
==============================================================================
