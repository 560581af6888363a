-------------------------- MODULE OrderedExport_MC --------------------------
(***************************************************************************)
(* Instances of OrderedExport for TLC.                                     *)
(*                                                                         *)
(* "A" is the source as the run finds it.  "B" has lost rows, in "C" a     *)
(* column has changed.  Pages start at row 1 and have two rows: "A" fills  *)
(* three of them, so that without max_rows an empty page ends a run, "B"   *)
(* ends with half of its second, and max_rows of five cuts the third page  *)
(* to one row of the two that "A" has there.                               *)
(***************************************************************************)
EXTENDS OrderedExport

StableSource   == {"A"}
ChangingSource == {"A", "B", "C"}

MC_Limits == {5, NoLimit}

MC_RowsAt ==
  [v \in Versions |-> IF v = "B" THEN 4 ELSE 7]

MC_SchemaAt == [v \in Versions |-> IF v = "C" THEN "other columns" ELSE "columns"]
=============================================================================
