-------------------------- MODULE PartExtraction_MC --------------------------
(***************************************************************************)
(* Instances of PartExtraction for TLC.                                    *)
(*                                                                         *)
(* "A" is the source as it was counted.  In "B" it has lost rows, in "C" a *)
(* column has changed.                                                     *)
(***************************************************************************)
EXTENDS PartExtraction

StableSource   == {"A"}
ChangingSource == {"A", "B", "C"}

MC_RowsAt == [v \in Versions |-> IF v = "B" THEN MaxRows \div 2 ELSE MaxRows]
MC_SchemaAt == [v \in Versions |-> IF v = "C" THEN "other columns" ELSE "columns"]
==============================================================================
