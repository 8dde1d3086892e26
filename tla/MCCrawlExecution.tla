-------------------------- MODULE MCCrawlExecution --------------------------
(***************************************************************************)
(* Two jobs in a cycle: the first is retried and then stops the cycle, the *)
(* failure of the second has no consequence.                               *)
(***************************************************************************)
EXTENDS CrawlExecution, TLC

(* The workers are alike. *)
Alike == Permutations(Workers)

MCPolicy == [job \in Jobs |-> IF job = 1 THEN "RETRY_THEN_STOP" ELSE "CONTINUE"]
=============================================================================
