----------------------------- MODULE CatalogCopy -----------------------------
(***************************************************************************)
(* Copying a report object between two BI Publisher catalogs:              *)
(* copy_bip_object and replace_bip_object of querysaas.bip, with the       *)
(* probes, deletions, uploads, waits and verifications they make at the    *)
(* destination.                                                            *)
(*                                                                         *)
(* The catalog is an external service.  A request may be lost, be carried  *)
(* out although its answer is lost, or be carried out late; what reads show*)
(* may lag behind the catalog.  An upload needs the path to be free and a  *)
(* deletion needs an object there, or else they are refused.               *)
(*                                                                         *)
(* The source object is there, and the archive type the caller gives is    *)
(* the one the destination path has, if it has one.  One call is made at a *)
(* time, when the requests of the one before have settled, and nobody else *)
(* writes to the destination.                                              *)
(***************************************************************************)
EXTENDS Integers

CONSTANTS
  Contents,   \* the archives that may be copied
  MaxFaults,  \* bound: lost, late and failed requests
  Missing     \* no object

ASSUME CopyAssumption ==
  /\ Missing \notin Contents
  /\ MaxFaults \in Nat

Objects == Contents \cup {Missing}

VARIABLES
  pc,         \* where the call is, "idle" when there is none
  payload,    \* the archive it copies
  overwrite,
  verify,
  typed,      \* the destination path has the suffix of an object type
  backup,     \* the archive downloaded before the deletion, Missing for None
  upload,     \* how the upload was answered
  attempted,  \* restore_attempted
  restored,
  outcome,    \* how the last call ended
  object,     \* the object in the catalog
  shown,      \* the object that reads show
  late,       \* requests still to be carried out: an archive, or Missing to delete
  faults      \* failures so far

argVars == <<payload, overwrite, verify, typed>>
callVars == <<backup, upload, attempted, restored>>
catalogVars == <<object, shown, late>>
vars == <<pc, argVars, callVars, outcome, catalogVars, faults>>

\* The phases that read the destination, by what a failed read leads to.
ReadsOutside == {"plan", "probe", "backup", "deleteProbe", "awaitGone", "createWait",
                 "createVerifyAgain", "restore", "restoreDeleteProbe",
                 "restoreGone", "restoreWait", "restoreVerify"}

ReadsInside == {"await", "verify"}

Writes == {"delete", "upload", "create", "restoreDelete", "restoreUpload"}

TypeOK ==
  /\ pc \in ReadsOutside \cup ReadsInside \cup Writes \cup {"idle", "createVerify"}
  /\ payload \in Contents
  /\ overwrite \in BOOLEAN
  /\ verify \in BOOLEAN
  /\ typed \in BOOLEAN
  /\ backup \in Objects
  /\ upload \in {"none", "confirmed", "ambiguous", "error"}
  /\ attempted \in BOOLEAN
  /\ restored \in BOOLEAN
  /\ restored => attempted /\ backup # Missing
  /\ outcome \in {"none", "success", "blocked", "failed"}
  /\ object \in Objects
  /\ shown \in Objects
  /\ late \subseteq Objects
  /\ faults \in 0 .. MaxFaults

Init ==
  /\ pc = "idle"
  /\ payload \in Contents
  /\ overwrite = FALSE
  /\ verify = TRUE
  /\ typed = TRUE
  /\ backup = Missing
  /\ upload = "none"
  /\ attempted = FALSE
  /\ restored = FALSE
  /\ outcome = "none"
  /\ object \in Objects
  /\ shown = object
  /\ late = {}
  /\ faults = 0
------------------------------------------------------------------------------
(***************************************************************************)
(* The catalog.                                                            *)
(***************************************************************************)
\* Request r is the archive to upload, or Missing to delete.
Accepts(r) == (r = Missing) # (object = Missing)

Lost(r) ==
  /\ faults < MaxFaults
  /\ faults' = faults + 1
  /\ \/ UNCHANGED <<object, late>>
     \/ Accepts(r) /\ object' = r /\ UNCHANGED late
     \/ late' = late \cup {r} /\ UNCHANGED object
  /\ UNCHANGED shown

CarriedOut(r) ==
  /\ Accepts(r)
  /\ object' = r
  /\ UNCHANGED <<shown, late, faults>>

Refused(r) ==
  /\ ~ Accepts(r)
  /\ UNCHANGED <<catalogVars, faults>>

ApplyLate ==
  /\ \E r \in late :
       /\ object' = IF Accepts(r) THEN r ELSE object
       /\ late' = late \ {r}
  /\ UNCHANGED <<pc, argVars, callVars, outcome, shown, faults>>

CatchUp ==
  /\ shown # object
  /\ shown' = object
  /\ UNCHANGED <<pc, argVars, callVars, outcome, object, late, faults>>
------------------------------------------------------------------------------
(***************************************************************************)
(* Calls.                                                                  *)
(***************************************************************************)
\* copy_bip_object begins with a plan, replace_bip_object with its own probe.
Call ==
  /\ pc = "idle"
  /\ late = {}
  /\ shown = object
  /\ payload' \in Contents
  /\ verify' \in BOOLEAN
  /\ typed' \in BOOLEAN
  /\ \/ pc' = "plan" /\ overwrite' \in BOOLEAN
     \/ pc' = "probe" /\ overwrite' = TRUE
  /\ backup' = Missing
  /\ upload' = "none"
  /\ attempted' = FALSE
  /\ restored' = FALSE
  /\ outcome' = "none"
  /\ UNCHANGED <<catalogVars, faults>>

EndCall(how) ==
  /\ pc' = "idle"
  /\ outcome' = how

Goto(phase) ==
  /\ pc' = phase
  /\ UNCHANGED outcome

\* plan_bip_object_copy: CREATE, REPLACE or BLOCKED_DESTINATION_EXISTS.
Plan ==
  /\ pc = "plan"
  /\ \/ shown = Missing /\ Goto("create")
     \/ shown # Missing /\ overwrite /\ Goto("probe")
     \/ shown # Missing /\ ~ overwrite /\ EndCall("blocked")
  /\ UNCHANGED <<argVars, callVars, catalogVars, faults>>
------------------------------------------------------------------------------
(***************************************************************************)
(* replace_bip_object.                                                     *)
(***************************************************************************)
Probe ==
  /\ pc = "probe"
  /\ Goto(IF shown = Missing THEN "upload" ELSE "backup")
  /\ UNCHANGED <<argVars, callVars, catalogVars, faults>>

\* (Mutant: the backup is taken of the replacement.)
Backup_OfPayload ==
  /\ pc = "backup"
  /\ \/ shown = Missing /\ EndCall("failed") /\ UNCHANGED backup
     \/ shown # Missing /\ Goto("deleteProbe") /\ backup' = payload
  /\ UNCHANGED <<argVars, upload, attempted, restored, catalogVars, faults>>

Backup ==
  /\ pc = "backup"
  /\ \/ shown = Missing /\ EndCall("failed") /\ UNCHANGED backup
     \/ shown # Missing /\ Goto("deleteProbe") /\ backup' = shown
  /\ UNCHANGED <<argVars, upload, attempted, restored, catalogVars, faults>>

\* delete_bip_object probes before it deletes; with missing_ok, as it is called
\* by a restore, a missing object counts as deleted.
DeleteProbe ==
  /\ pc \in {"deleteProbe", "restoreDeleteProbe"}
  /\ \/ /\ shown # Missing
        /\ Goto(IF pc = "deleteProbe" THEN "delete" ELSE "restoreDelete")
     \/ /\ shown = Missing
        /\ IF pc = "deleteProbe" THEN EndCall("failed") ELSE Goto("restoreUpload")
  /\ UNCHANGED <<argVars, callVars, catalogVars, faults>>

\* The first deletion is outside the try statement, the second in the one
\* around the restore: neither is followed by a restore if it fails.
Delete ==
  /\ pc \in {"delete", "restoreDelete"}
  /\ \/ /\ CarriedOut(Missing)
        /\ Goto(IF pc = "delete" THEN "awaitGone" ELSE "restoreGone")
     \/ (Refused(Missing) \/ Lost(Missing)) /\ EndCall("failed")
  /\ UNCHANGED <<argVars, callVars>>

\* (Mutant: the upload does not wait for the object to be gone.)
AwaitGone_NotWaiting ==
  /\ pc \in {"awaitGone", "restoreGone"}
  /\ Goto(IF pc = "awaitGone" THEN "upload" ELSE "restoreUpload")
  /\ UNCHANGED <<argVars, callVars, catalogVars, faults>>

\* _wait_for_state sees the object gone, or its deadline passes.
AwaitGone ==
  /\ pc \in {"awaitGone", "restoreGone"}
  /\ \/ shown = Missing /\ Goto(IF pc = "awaitGone" THEN "upload" ELSE "restoreUpload")
     \/ shown # Missing /\ EndCall("failed")
  /\ UNCHANGED <<argVars, callVars, catalogVars, faults>>

\* An upload that is not confirmed is verified, whatever the caller wants.
Upload ==
  /\ pc \in {"upload", "create"}
  /\ \/ CarriedOut(payload) /\ upload' \in {"confirmed", "ambiguous"}
     \/ (Refused(payload) \/ Lost(payload)) /\ upload' \in {"ambiguous", "error"}
  /\ \/ /\ verify \/ upload' # "confirmed"
        /\ Goto(IF pc = "upload" THEN "await" ELSE "createVerify")
     \/ /\ ~ verify /\ upload' = "confirmed"
        /\ EndCall("success")
  /\ UNCHANGED <<argVars, backup, attempted, restored>>

\* What goes wrong after the deletion is answered by a restore of the backup.
Restore ==
  \/ /\ backup # Missing
     /\ Goto("restore")
     /\ attempted' = TRUE
  \/ /\ backup = Missing
     /\ EndCall("failed")
     /\ UNCHANGED attempted

\* (Mutant: the wait has no deadline.)
Await_NoDeadline ==
  /\ pc = "await"
  /\ Goto(IF shown # Missing THEN "verify" ELSE "await")
  /\ UNCHANGED <<argVars, callVars, catalogVars, faults>>

Await ==
  /\ pc = "await"
  /\ \/ shown # Missing /\ Goto("verify") /\ UNCHANGED attempted
     \/ shown = Missing /\ Restore
  /\ UNCHANGED <<argVars, backup, upload, restored, catalogVars, faults>>

Verify ==
  /\ pc = "verify"
  /\ \/ shown # Missing /\ EndCall("success") /\ UNCHANGED attempted
     \/ shown = Missing /\ Restore
  /\ UNCHANGED <<argVars, backup, upload, restored, catalogVars, faults>>

RestoreProbe ==
  /\ pc = "restore"
  /\ Goto(IF shown # Missing THEN "restoreDeleteProbe" ELSE "restoreUpload")
  /\ UNCHANGED <<argVars, callVars, catalogVars, faults>>

\* The type of the backup is read off the destination path; without a suffix
\* it is "unknown", which is refused.  The answer to this upload is not looked
\* at.
RestoreUpload ==
  /\ pc = "restoreUpload"
  /\ \/ /\ ~ typed
        /\ EndCall("failed")
        /\ UNCHANGED <<catalogVars, faults>>
     \/ /\ typed
        /\ CarriedOut(backup)
        /\ Goto("restoreWait")
     \/ /\ typed
        /\ Refused(backup) \/ Lost(backup)
        /\ Goto("restoreWait") \/ EndCall("failed")
  /\ UNCHANGED <<argVars, callVars>>

RestoreWait ==
  /\ pc = "restoreWait"
  /\ \/ shown # Missing /\ Goto("restoreVerify")
     \/ shown = Missing /\ EndCall("failed")
  /\ UNCHANGED <<argVars, callVars, catalogVars, faults>>

\* BIPReplaceError is raised all the same.
RestoreVerify ==
  /\ pc = "restoreVerify"
  /\ EndCall("failed")
  /\ restored' = (shown # Missing)
  /\ UNCHANGED <<argVars, backup, upload, attempted, catalogVars, faults>>
------------------------------------------------------------------------------
(***************************************************************************)
(* The rest of copy_bip_object, for CREATE.                                *)
(***************************************************************************)
\* Verified at once, and again after a wait if that fails.
CreateVerify ==
  /\ pc = "createVerify"
  /\ \/ shown # Missing /\ EndCall("success") /\ UNCHANGED faults
     \/ shown = Missing /\ Goto("createWait") /\ UNCHANGED faults
     \/ faults < MaxFaults /\ faults' = faults + 1 /\ Goto("createWait")
  /\ UNCHANGED <<argVars, callVars, catalogVars>>

CreateWait ==
  /\ pc = "createWait"
  /\ \/ shown # Missing /\ Goto("createVerifyAgain")
     \/ shown = Missing /\ EndCall("failed")
  /\ UNCHANGED <<argVars, callVars, catalogVars, faults>>

CreateVerifyAgain ==
  /\ pc = "createVerifyAgain"
  /\ EndCall(IF shown # Missing THEN "success" ELSE "failed")
  /\ UNCHANGED <<argVars, callVars, catalogVars, faults>>
------------------------------------------------------------------------------
\* A read fails, after its retries, with something else than a missing object.
ReadFails ==
  /\ faults < MaxFaults
  /\ faults' = faults + 1
  /\ \/ pc \in ReadsOutside /\ EndCall("failed") /\ UNCHANGED attempted
     \/ pc \in ReadsInside /\ Restore
  /\ UNCHANGED <<argVars, backup, upload, restored, catalogVars>>

Step ==
  \/ Plan
  \/ Probe
  \/ Backup
  \/ DeleteProbe
  \/ Delete
  \/ AwaitGone
  \/ Upload
  \/ Await
  \/ Verify
  \/ RestoreProbe
  \/ RestoreUpload
  \/ RestoreWait
  \/ RestoreVerify
  \/ CreateVerify
  \/ CreateWait
  \/ CreateVerifyAgain
  \/ ReadFails

Next == Call \/ Step \/ ApplyLate \/ CatchUp

Spec == Init /\ [][Next]_vars

\* Requests have a timeout and waits a deadline.
FairSpec == Spec /\ WF_vars(Step)
------------------------------------------------------------------------------
(***************************************************************************)
(* Properties.                                                             *)
(***************************************************************************)
\* A call that reports success has left the archive it was given in the
\* catalog, whatever answer was lost and however far reads lag, if earlier
\* calls have settled: README.md line 1213, "verify final object".
SuccessIsPayload == outcome = "success" => object = payload

\* What a call reports is true, in the types that the module declares.
ReportIsTrue == TypeOK /\ SuccessIsPayload

Object == INSTANCE CatalogObject WITH Archives <- Contents, succeeded <- (outcome = "success")

\* The object at the destination changes as CatalogObject promises: it is removed
\* only with overwrite and while the call has a copy of it (lines 660-670, 725-731);
\* only the archive of the call or the backup takes its place, also when a request
\* is carried out late; and it stays as it is after a success.
ImplementsCatalogObject == Object!Spec

\* A call ends.
EveryCallEnds == (pc # "idle") ~> (pc = "idle")

\* README.md line 1214: "restore destination if replacement fails".  A call that
\* has taken a backup and fails with the destination empty has tried to.
RestoreAttempted ==
  outcome = "failed" /\ backup # Missing /\ object = Missing => attempted
==============================================================================
