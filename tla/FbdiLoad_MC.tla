----------------------------- MODULE FbdiLoad_MC -----------------------------
(***************************************************************************)
(* Instances of FbdiLoad for TLC.                                          *)
(*                                                                         *)
(* The invoices of the registry have two control files, one of which has   *)
(* the name of another business object, as Customers.ctl has in the        *)
(* packaged registry; the table of that one is in two jobs.  The packaged  *)
(* registry has another option id, and a control file in the singular.     *)
(***************************************************************************)
EXTENDS FbdiLoad, TLC

MC_Names == {"", "invoices", "headers", "header", "lines"}

MC_Norm == [n \in MC_Names |-> n]

\* Singulars that no other name has are left out.
MC_Singular == [n \in MC_Names |-> IF n = "headers" THEN "header" ELSE n]

Row(o, object, control, tables) ==
  [option |-> o, object |-> object, control |-> control, tables |-> tables]

MC_Live ==
  {Row(1, "invoices", "headers", {}), Row(1, "invoices", "lines", {"header"}),
   Row(2, "lines", "lines", {"header"})}

MC_Registries == {MC_Live, {}}

MC_Packaged ==
  {Row(2, "invoices", "header", {}), Row(2, "invoices", "lines", {})}

MC_Symmetry == Permutations(Sources)
==============================================================================
