----------------------------- MODULE MCCsvImport -----------------------------
(***************************************************************************)
(* Two uploads of one file of at most three rows, the first and the last   *)
(* about the same item, and a batch of one row where the program takes 200. *)
(***************************************************************************)
EXTENDS CsvImport

CONSTANTS file, key, i1, i2

MCFileOf == [u \in Uploads |-> file]
MCKeyOf == [u \in Uploads |-> key]
MCItemOf == [i \in RowNos |-> IF i = 2 THEN i2 ELSE i1]

(* The uploads race before the confirmations do: an upload that is over    *)
(* touches nothing.                                                        *)
UploadsFirst ==
    (\E c \in Confirmations : confirmation[c] # NotConfirming) =>
        \A u \in Uploads : upload[u] = "over"
=============================================================================
