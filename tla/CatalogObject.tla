---------------------------- MODULE CatalogObject ----------------------------
(***************************************************************************)
(* What copy_bip_object and replace_bip_object promise of the object at    *)
(* their destination, whatever requests and answers are lost or late: it   *)
(* is removed only with overwrite, and while the call has a copy of it;    *)
(* what turns up in its place is the archive of the call or the backup; and*)
(* once the call has reported success, that is the archive of the call and *)
(* stays so.                                                               *)
(***************************************************************************)
CONSTANTS
  Archives,
  Missing     \* no object

VARIABLES
  object,     \* the object at the destination
  payload,    \* the archive of the call
  backup,     \* the archive it has taken, or Missing
  overwrite,
  succeeded

vars == <<object, payload, backup, overwrite, succeeded>>

Init ==
  /\ object \in Archives \cup {Missing}
  /\ payload \in Archives
  /\ backup = Missing
  /\ ~ overwrite
  /\ ~ succeeded

Call ==
  /\ payload' \in Archives
  /\ overwrite' \in BOOLEAN
  /\ backup' = Missing
  /\ ~ succeeded'
  /\ UNCHANGED object

Unsettled == ~ succeeded /\ ~ succeeded'

TakeBackup ==
  /\ Unsettled /\ overwrite
  /\ object # Missing /\ backup = Missing
  /\ backup' = object
  /\ UNCHANGED <<object, payload, overwrite>>

Remove ==
  /\ Unsettled /\ overwrite
  /\ object \in {payload, backup}
  /\ object' = Missing
  /\ UNCHANGED <<payload, backup, overwrite>>

Put ==
  /\ Unsettled
  /\ object = Missing
  /\ object' \in {payload, backup}
  /\ UNCHANGED <<payload, backup, overwrite>>

\* The answer to a request may be what reports success.
Succeed ==
  /\ object \in {Missing, payload} /\ object' = payload
  /\ succeeded'
  /\ UNCHANGED <<payload, backup, overwrite>>

Next == Call \/ TakeBackup \/ Remove \/ Put \/ Succeed

Spec == Init /\ [][Next]_vars
==============================================================================
