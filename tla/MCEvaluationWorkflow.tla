------------------------ MODULE MCEvaluationWorkflow ------------------------
(***************************************************************************)
(* Small instances of the workflow.  The evaluations are named by their    *)
(* cycle and employee: bm1 and bm2 belong to the batch cycle, im1 and jm1  *)
(* to two individual cycles of the employee m1.                            *)
(***************************************************************************)
EXTENDS EvaluationWorkflow

CONSTANTS batch, ind1, ind2, m1, m2, bm1, bm2, im1, jm1

RowsOf(rows, f) == [e \in Evaluations |-> (CHOOSE row \in rows : row[1] = e)[f]]

Rows == { <<bm1, batch, m1>>, <<bm2, batch, m2>>, <<im1, ind1, m1>>, <<jm1, ind2, m1>> }

MCCycleOf == RowsOf(Rows, 2)
MCEmployeeOf == RowsOf(Rows, 3)
=============================================================================
