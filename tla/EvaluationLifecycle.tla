------------------------ MODULE EvaluationLifecycle ------------------------
(***************************************************************************)
(* What the evaluation workflow promises, without saying how: the phases   *)
(* of an evaluation only move forward, results are published at most once  *)
(* and every publication completes the review of its employee once, and a  *)
(* locked cycle takes all of its evaluations with it, in one step.         *)
(***************************************************************************)
EXTENDS FiniteSets, Naturals

CONSTANTS
    Evaluations,  \* the evaluations the system may ever hold
    Cycles,       \* the evaluation cycles
    CycleOf       \* the cycle of every evaluation

VARIABLES
    phase,        \* phase[e]: how far evaluation e has come
    frozen,       \* the cycles that are locked
    completed     \* completed[e]: reviews completed by publishing e

lifecycleVars == <<phase, frozen, completed>>

Phases == {"absent", "inWork", "approved", "published", "locked"}

OfCycle(c) == {e \in Evaluations : CycleOf[e] = c}

LifecycleInit ==
    /\ phase = [e \in Evaluations |-> "absent"]
    /\ frozen = {}
    /\ completed = [e \in Evaluations |-> 0]

(* A cycle that is not locked gets evaluations. *)
Generate(S) ==
    /\ \A e \in S : phase[e] = "absent" /\ CycleOf[e] \notin frozen
    /\ phase' = [e \in Evaluations |-> IF e \in S THEN "inWork" ELSE phase[e]]
    /\ UNCHANGED <<frozen, completed>>

Approve(e) ==
    /\ phase[e] = "inWork"
    /\ phase' = [phase EXCEPT ![e] = "approved"]
    /\ UNCHANGED <<frozen, completed>>

(* Each of the published evaluations completes one review, in this step. *)
Publish(S) ==
    /\ \A e \in S : phase[e] \in {"inWork", "approved"}
    /\ phase' = [e \in Evaluations |-> IF e \in S THEN "published" ELSE phase[e]]
    /\ completed' = [e \in Evaluations |-> IF e \in S THEN completed[e] + 1 ELSE completed[e]]
    /\ UNCHANGED frozen

LockOne(e) ==
    /\ phase[e] \in {"approved", "published"}
    /\ phase' = [phase EXCEPT ![e] = "locked"]
    /\ UNCHANGED <<frozen, completed>>

(* Locking a cycle leaves no evaluation of it behind. *)
LockCycleOf(c) ==
    /\ c \notin frozen
    /\ frozen' = frozen \cup {c}
    /\ phase' = [e \in Evaluations |->
                    IF e \in OfCycle(c) /\ phase[e] # "absent" THEN "locked" ELSE phase[e]]
    /\ UNCHANGED completed

LifecycleNext ==
    \/ \E S \in SUBSET Evaluations : Generate(S) \/ Publish(S)
    \/ \E e \in Evaluations : Approve(e) \/ LockOne(e)
    \/ \E c \in Cycles : LockCycleOf(c)

LifecycleSpec == LifecycleInit /\ [][LifecycleNext]_lifecycleVars
============================================================================
