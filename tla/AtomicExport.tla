----------------------------- MODULE AtomicExport -----------------------------
(***************************************************************************)
(* What copy_fusion_to_local_parallel promises of its destination file: it *)
(* goes from one complete export to the next in a single step, and nothing *)
(* that happens in between can be seen in it.                              *)
(***************************************************************************)
CONSTANTS
  Exports,     \* for each value of max_rows, the files a finished export may leave
  NoFile       \* there is no such file

VARIABLES
  dest,
  maxRows      \* max_rows of the calls

Init ==
  /\ maxRows \in DOMAIN Exports
  /\ dest = NoFile

Replace ==
  /\ dest' \in Exports[maxRows]
  /\ UNCHANGED maxRows

Spec == Init /\ [][Replace]_<<dest, maxRows>>
==============================================================================
