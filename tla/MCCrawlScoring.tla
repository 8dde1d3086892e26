---------------------------- MODULE MCCrawlScoring ----------------------------
(***************************************************************************)
(* Two rows of two sources about the same subject, and the one score the   *)
(* AI has for each.                                                        *)
(***************************************************************************)
EXTENDS CrawlScoring

CONSTANTS t1, t2

MCSubject == [t \in Tasks |-> "s"]
MCAnswers == [t \in Tasks |-> IF t = t1 THEN {100} ELSE {400}]
=============================================================================
