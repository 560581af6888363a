--------------------------- MODULE CatalogCopy_MC ---------------------------
(***************************************************************************)
(* Instances of CatalogCopy for TLC: two archives, so that the object that *)
(* is replaced may or may not be the one that replaces it.                 *)
(***************************************************************************)
EXTENDS CatalogCopy

MC_Contents == {"one", "two"}
=============================================================================
