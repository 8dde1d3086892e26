---------------------------- MODULE MCDataImport ----------------------------
(***************************************************************************)
(* Three imports, of which any two are created: one of an administrator    *)
(* with one record, a crawl with records of two subjects and a crawl with  *)
(* one.  One of the subjects is in all of them.                            *)
(***************************************************************************)
EXTENDS DataImport, TLC

CONSTANTS manual, crawled, later, m1, c1, c2, d1, k1, k2

MCImportOf == [r \in Records |-> CASE r = m1 -> manual [] r = d1 -> later [] OTHER -> crawled]
MCSubjectOf == [r \in Records |-> IF r = c2 THEN k2 ELSE k1]
MCSourceOf == [i \in Imports |-> i]

(* The requests are alike. *)
AlikeHandlers == Permutations(Handlers)

(* Only the evaluation of the subject all imports share is closed, and not *)
(* before an application, the one step that looks at it, has begun.        *)
SharedClosesLate ==
    closed # {} =>
        /\ closed = {k1}
        /\ \E i \in Imports :
              importStatus[i] \in {"APPLYING", "APPLIED", "PARTIALLY_APPLIED", "FAILED", "REJECTED"}
=============================================================================
