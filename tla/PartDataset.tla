----------------------------- MODULE PartDataset -----------------------------
(***************************************************************************)
(* What copy_fusion_query_to_parts promises of its destination directory,  *)
(* whatever happens inside a run: pages failing, being split and refetched,*)
(* processes crashing at any point, runs resumed or started afresh.        *)
(*                                                                         *)
(* The destination holds nothing or one complete dataset.  A dataset gives *)
(* way only to one that stands complete beside it, and it is set aside for *)
(* that: it is given up once a complete dataset is in its place.           *)
(*                                                                         *)
(* That the destination is not empty is no part of the promise.  The swap  *)
(* is two renames, and nothing here leads from the first to the second: a  *)
(* run that fails or is killed between them leaves the destination without *)
(* a dataset, with the one that was there set aside, for as long as no     *)
(* later run completes.                                                    *)
(***************************************************************************)
CONSTANTS
  Complete,   \* the datasets that may be put at the destination
  Missing,    \* there is no such directory
  Partial     \* a directory whose removal or construction was interrupted

VARIABLES
  dest,       \* the destination directory
  ready,      \* the dataset made to be put there
  aside       \* the dataset set aside while it is being replaced

vars == <<dest, ready, aside>>

TypeOK ==
  /\ dest  \in Complete \cup {Missing}
  /\ ready \in Complete \cup {Missing, Partial}
  /\ aside \in Complete \cup {Missing, Partial}

Init ==
  /\ dest  = Missing
  /\ ready = Missing
  /\ aside = Missing

\* A dataset is made for the destination; one left over by a run that was
\* stopped is thrown away for it.
Prepare ==
  /\ ready' = Partial \/ ready' \in Complete
  /\ UNCHANGED <<dest, aside>>

\* The destination is vacated, its dataset kept aside.
SetAside ==
  /\ dest # Missing
  /\ ready \in Complete
  /\ aside = Missing
  /\ dest'  = Missing
  /\ aside' = dest
  /\ UNCHANGED ready

\* The dataset that was made appears at a vacant destination.
Install ==
  /\ dest = Missing
  /\ ready \in Complete
  /\ dest'  = ready
  /\ ready' = Missing
  /\ UNCHANGED aside

\* The dataset set aside is given up, entry by entry.
GiveUp ==
  /\ dest # Missing
  /\ aside' \in {Missing, Partial}
  /\ UNCHANGED <<dest, ready>>

Next == Prepare \/ SetAside \/ Install \/ GiveUp

Spec == Init /\ [][Next]_vars
==============================================================================
