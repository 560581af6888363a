----------------------------- MODULE DuckSync_MC -----------------------------
(***************************************************************************)
(* Instances of DuckSync for TLC.                                          *)
(*                                                                         *)
(* "A" is the source as a call finds it.  In "B" its first row is gone, so *)
(* that all others move up by one; in "C" there is another column.         *)
(***************************************************************************)
EXTENDS DuckSync

StableSource   == {"A"}
ChangingSource == {"A", "B", "C"}

MC_RowsIn ==
  [v \in Versions \cup {Before} |->
     CASE v = "A" -> {1, 2, 3, 4, 5} [] v = "B" -> {2, 3, 4} [] v = "C" -> {3}
       [] OTHER -> {2, 6}]

MC_SchemaAt ==
  [v \in Versions \cup {Before} |-> IF v = "C" THEN "other columns" ELSE "columns"]

MC_Age ==
  [v \in Versions \cup {Before} |->
     CASE v = "A" -> 1 [] v = "B" -> 2 [] v = "C" -> 3 [] OTHER -> 0]
===============================================================================
