-------------------------- MODULE CatalogCopy_proofs --------------------------
(***************************************************************************)
(* Proofs about CatalogCopy, for any archives and any number of requests   *)
(* that are lost, late or fail.                                            *)
(*                                                                         *)
(* The invariant follows the phases of a call.  Until it deletes, nothing  *)
(* is on its way and reads show what there is.  When it uploads, nothing is*)
(* there, so that what it sees afterwards can only be its own upload.  From*)
(* then on what is there or on its way is the archive or the backup.       *)
(***************************************************************************)
EXTENDS CatalogCopy, TLAPS

Before == {"plan", "probe", "backup", "deleteProbe", "delete"}

Uploading == {"upload", "create"}

Sent == {"await", "verify", "createVerify", "createWait", "createVerifyAgain"}

Restoring == {"restore", "restoreDeleteProbe", "restoreDelete", "restoreGone",
              "restoreUpload", "restoreWait", "restoreVerify"}

Own == {Missing, payload, backup}

\* A backup is only taken of what is to be replaced.
ToReplace ==
  /\ backup # Missing => overwrite
  /\ pc \in {"plan", "probe", "backup"} => backup = Missing
  /\ pc \in {"probe", "backup"} => overwrite
  /\ pc \in {"deleteProbe", "delete"} => backup = object /\ backup # Missing
  /\ pc \in Restoring => attempted /\ backup # Missing

\* What there is, what reads show of it and what is on its way, by phases.
OnTheWay ==
  /\ pc \in Before => late = {} /\ shown = object
  /\ pc = "awaitGone" => late = {} /\ object = Missing
  /\ pc \in Uploading => late = {} /\ object = Missing /\ shown = Missing
  /\ pc \in Sent => /\ late \subseteq {payload}
                    /\ object \in {Missing, payload}
                    /\ shown \in {Missing, payload}
                    /\ shown = payload => object = payload
  /\ pc \in Restoring => late \subseteq {payload, backup} /\ object \in Own
  /\ late \subseteq Own
  /\ Missing \in late => overwrite /\ object \in Own

\* A success stays true: nothing else is on its way.
Succeeded ==
  outcome = "success" => pc = "idle" /\ object = payload /\ late \subseteq {payload}

IndInv == TypeOK /\ ToReplace /\ OnTheWay /\ Succeeded
------------------------------------------------------------------------------
(***************************************************************************)
(* The invariant holds in every state.                                     *)
(***************************************************************************)
LEMMA Initially == Init => IndInv
<1> SUFFICES ASSUME Init PROVE IndInv
  OBVIOUS
<1>1. TypeOK
  <2>1. ~ restored
    BY DEF Init
  <2>2. faults \in 0 .. MaxFaults
    BY CopyAssumption DEF Init
  <2>3. QED
    BY <2>1, <2>2 DEF Init, TypeOK, Objects
<1>2. ToReplace /\ OnTheWay /\ Succeeded
  BY DEF Init, ToReplace, OnTheWay, Succeeded, Before, Uploading, Sent, Restoring
<1>3. QED
  BY <1>1, <1>2 DEF IndInv

\* What can become of a request that is sent when the object and the requests
\* on their way are of a set.
LEMMA Requests ==
  ASSUME NEW r, NEW S, object \in S, late \subseteq S,
         CarriedOut(r) \/ Refused(r) \/ Lost(r)
  PROVE  /\ object' \in S \cup {r} /\ late' \subseteq late \cup {r}
         /\ late \subseteq late'
         /\ shown' = shown
         /\ object' = object \/ (object' = r /\ Accepts(r))
BY DEF CarriedOut, Refused, Lost, catalogVars

LEMMA FaultsCounted ==
  ASSUME faults \in 0 .. MaxFaults
  PROVE  /\ faults < MaxFaults => faults + 1 \in 0 .. MaxFaults
BY CopyAssumption

\* The steps of a call that only read, and a read that fails.
LEMMA ReadsKeep ==
  ASSUME IndInv,
         \/ Plan \/ Probe \/ Backup \/ DeleteProbe \/ AwaitGone \/ Await \/ Verify
         \/ RestoreProbe \/ RestoreWait \/ RestoreVerify
         \/ CreateVerify \/ CreateWait \/ CreateVerifyAgain \/ ReadFails
  PROVE  IndInv'
<1>1. TypeOK'
  <2> USE DEF TypeOK, IndInv, ToReplace, ReadsOutside, ReadsInside, Writes, Before, Restoring,
              argVars, callVars, catalogVars, Goto, EndCall
  <2>1. CASE Plan \/ Probe \/ Backup \/ DeleteProbe
    BY <2>1 DEF Plan, Probe, Backup, DeleteProbe, Objects
  <2>2. CASE AwaitGone \/ Await \/ Verify
    <3>0. /\ attempted' = attempted \/ attempted' = TRUE
          /\ restored' = restored /\ backup' = backup
      BY <2>2, Zenon DEF AwaitGone, Await, Verify, Restore
    <3>1. attempted' \in BOOLEAN /\ (restored' => attempted' /\ backup' # Missing)
      <4>1. attempted \in BOOLEAN /\ (restored => attempted /\ backup # Missing)
        BY DEF TypeOK
      <4>2. QED
        BY <3>0, <4>1, Zenon
    <3>2. QED
      BY <2>2, <3>1 DEF AwaitGone, Await, Verify, Restore
  <2>3. CASE RestoreProbe \/ RestoreWait \/ RestoreVerify
    BY <2>3 DEF RestoreProbe, RestoreWait, RestoreVerify
  <2>4. CASE CreateVerify \/ CreateWait \/ CreateVerifyAgain
    BY <2>4, FaultsCounted DEF CreateVerify, CreateWait, CreateVerifyAgain
  <2>5. CASE ReadFails
    <3>0. /\ attempted' = attempted \/ attempted' = TRUE
          /\ restored' = restored /\ backup' = backup
      BY <2>5, Zenon DEF ReadFails, Restore
    <3>1. attempted' \in BOOLEAN /\ (restored' => attempted' /\ backup' # Missing)
      <4>1. attempted \in BOOLEAN /\ (restored => attempted /\ backup # Missing)
        BY DEF TypeOK
      <4>2. QED
        BY <3>0, <4>1, Zenon
    <3>2. QED
      BY <2>5, <3>1, FaultsCounted DEF ReadFails, Restore
  <2>6. QED
    BY <2>1, <2>2, <2>3, <2>4, <2>5
<1>2. ToReplace' /\ OnTheWay' /\ Succeeded'
  <2> USE DEF TypeOK, IndInv, ToReplace, OnTheWay, Succeeded, Objects, ReadsOutside, ReadsInside,
              Before, Uploading, Sent, Restoring, Own,
              argVars, callVars, catalogVars, Goto, EndCall
  <2>1. CASE Plan
    BY <2>1 DEF Plan
  <2>2. CASE Probe
    BY <2>2 DEF Probe
  <2>3. CASE Backup
    BY <2>3 DEF Backup
  <2>4. CASE DeleteProbe
    BY <2>4 DEF DeleteProbe
  <2>5. CASE AwaitGone
    BY <2>5 DEF AwaitGone
  <2>6. CASE Await
    BY <2>6 DEF Await, Restore
  <2>7. CASE Verify
    BY <2>7 DEF Verify, Restore
  <2>8. CASE RestoreProbe
    BY <2>8 DEF RestoreProbe
  <2>9. CASE RestoreWait
    BY <2>9 DEF RestoreWait
  <2>10. CASE RestoreVerify
    BY <2>10 DEF RestoreVerify
  <2>11. CASE CreateVerify
    BY <2>11 DEF CreateVerify
  <2>12. CASE CreateWait
    BY <2>12 DEF CreateWait
  <2>13. CASE CreateVerifyAgain
    BY <2>13 DEF CreateVerifyAgain
  <2>14. CASE ReadFails
    BY <2>14 DEF ReadFails, Restore
  <2>15. QED
    BY <2>1, <2>2, <2>3, <2>4, <2>5, <2>6, <2>7, <2>8, <2>9, <2>10, <2>11, <2>12, <2>13, <2>14
<1>3. QED
  BY <1>1, <1>2 DEF IndInv

\* The steps that send a request.
LEMMA WritesKeep ==
  ASSUME IndInv, Delete \/ Upload \/ RestoreUpload
  PROVE  IndInv'
<1> USE DEF IndInv
<1>1. TypeOK'
  <2> USE CopyAssumption, FaultsCounted
      DEF TypeOK, Objects, ReadsOutside, ReadsInside, Writes, argVars, callVars, catalogVars,
          Goto, EndCall, Lost, CarriedOut, Refused
  <2>1. CASE Delete
    BY <2>1 DEF Delete
  <2>2. CASE Upload
    BY <2>2 DEF Upload
  <2>3. CASE RestoreUpload
    BY <2>3 DEF RestoreUpload
  <2>4. QED
    BY <2>1, <2>2, <2>3
<1>2. ToReplace' /\ OnTheWay' /\ Succeeded'
  <2> USE CopyAssumption
      DEF TypeOK, ToReplace, OnTheWay, Succeeded, Objects, Before, Uploading, Sent, Restoring,
          Own, Accepts, argVars, callVars, catalogVars, Goto, EndCall
  <2>1. CASE Delete
    <3>1. CarriedOut(Missing) \/ Refused(Missing) \/ Lost(Missing)
      BY <2>1 DEF Delete
    <3>2. object \in Own /\ late \subseteq Own /\ overwrite
      BY <2>1 DEF Delete
    <3>3. /\ object' \in Own /\ late' \subseteq Own
          /\ CarriedOut(Missing) => object' = Missing /\ late' = late
      <4>1. object' \in Own \cup {Missing} /\ late' \subseteq late \cup {Missing}
        <5> HIDE DEF Own, Accepts
        <5>1. QED
          BY <3>1, <3>2, Requests
      <4>2. QED
        BY <3>2, <4>1 DEF CarriedOut
    <3>4. QED
      BY <2>1, <3>2, <3>3 DEF Delete
  <2>2. CASE Upload
    <3>1. CarriedOut(payload) \/ Refused(payload) \/ Lost(payload)
      BY <2>2 DEF Upload
    <3>2. object = Missing /\ late = {} /\ shown = Missing
      BY <2>2 DEF Upload
    <3>3. /\ object' \in {Missing, payload} /\ late' \subseteq {payload} /\ shown' = Missing
          /\ CarriedOut(payload) => object' = payload /\ late' = {}
      BY <3>1, <3>2, Requests DEF CarriedOut
    <3>4. pc' # "idle" \/ (CarriedOut(payload) /\ outcome' = "success")
      BY <2>2 DEF Upload
    <3>5. QED
      BY <2>2, <3>2, <3>3, <3>4 DEF Upload
  <2>3. CASE RestoreUpload
    <3>1. CarriedOut(backup) \/ Refused(backup) \/ Lost(backup) \/ UNCHANGED catalogVars
      BY <2>3 DEF RestoreUpload
    <3>2. object \in Own /\ late \subseteq {payload, backup}
      BY <2>3 DEF RestoreUpload
    <3>3. object' \in Own /\ late' \subseteq late \cup {backup}
      BY <3>1, <3>2, Requests
    <3>4. QED
      BY <2>3, <3>2, <3>3 DEF RestoreUpload
  <2>4. QED
    BY <2>1, <2>2, <2>3
<1>3. QED
  BY <1>1, <1>2

\* A call begins; a late request is carried out; reads catch up.
LEMMA OthersKeep ==
  ASSUME IndInv, Call \/ ApplyLate \/ CatchUp \/ UNCHANGED vars
  PROVE  IndInv'
<1> USE CopyAssumption
    DEF IndInv, TypeOK, ToReplace, OnTheWay, Succeeded, Objects, Before, Uploading, Sent,
        Restoring, Own, ReadsOutside, ReadsInside, Writes, argVars, callVars, catalogVars
<1>1. CASE Call
  BY <1>1 DEF Call
<1>2. CASE ApplyLate
  <2>1. PICK r \in late : /\ object' = IF Accepts(r) THEN r ELSE object
                          /\ late' = late \ {r}
    BY <1>2 DEF ApplyLate
  <2>2. UNCHANGED <<pc, argVars, callVars, outcome, shown, faults>>
    BY <1>2 DEF ApplyLate
  <2>3. r \in Objects /\ object' \in {r, object}
    BY <2>1
  <2>4. TypeOK' /\ ToReplace'
    BY <2>1, <2>2, <2>3
  <2>5. Succeeded'
    BY <2>1, <2>2, <2>3
  <2>6. OnTheWay'
    BY <2>1, <2>2, <2>3 DEF Accepts
  <2>7. QED
    BY <2>4, <2>5, <2>6
<1>3. CASE CatchUp
  BY <1>3 DEF CatchUp
<1>4. CASE UNCHANGED vars
  BY <1>4 DEF vars
<1>5. QED
  BY <1>1, <1>2, <1>3, <1>4

LEMMA EveryStep == IndInv /\ [Next]_vars => IndInv'
BY ReadsKeep, WritesKeep, OthersKeep DEF Next, Step

\* In every state of every behaviour of the specification the invariant holds:
\* nothing but the archive and the backup of a call can turn up at the
\* destination while it is at work there.
THEOREM Invariant == Spec => []IndInv
BY Initially, EveryStep, PTL DEF Spec
------------------------------------------------------------------------------
(***************************************************************************)
(* The properties of the runs.                                             *)
(***************************************************************************)
\* A call of copy_bip_object or replace_bip_object that reports success has
\* left its archive in the catalog, although it only ever verifies that
\* something is there.
THEOREM SuccessIsTrue == Spec => []ReportIsTrue
<1>1. IndInv => ReportIsTrue
  BY DEF IndInv, Succeeded, ReportIsTrue, SuccessIsPayload
<1>2. QED
  BY Invariant, <1>1, PTL

\* The destination is the object of the abstract specification: every step of a
\* call, and every request that is carried out late, takes a backup, removes what the
\* call has a copy of, puts the archive or the backup into its place, reports a
\* success that is true, or changes nothing there.
THEOREM Refinement == Spec => ImplementsCatalogObject
<1>1. Init => Object!Init
  BY DEF Init, Object!Init, Objects
<1>2. IndInv /\ [Next]_vars => [Object!Next]_(Object!vars)
  <2> DEFINE Same == /\ UNCHANGED <<object, payload, backup, overwrite>>
                     /\ outcome' = "success" <=> outcome = "success"
  <2> SUFFICES ASSUME IndInv, [Next]_vars PROVE Object!Next \/ Same
    <3>1. Same => UNCHANGED Object!vars
      BY Zenon DEF Object!vars
    <3>2. QED
      BY <3>1
  <2> USE DEF IndInv, TypeOK, ToReplace, OnTheWay, Succeeded
  <2>1. CASE Call
    <3>1. Object!Call
      BY <2>1 DEF Call, Object!Call, catalogVars
    <3>2. QED
      BY <3>1 DEF Object!Next
  <2>2. CASE Backup
    <3>1. Same \/ Object!TakeBackup
      BY <2>2 DEF Backup, Object!TakeBackup, Object!Unsettled, EndCall, Goto, Before, argVars, catalogVars
    <3>2. QED
      BY <3>1 DEF Object!Next
  <2>3. CASE Delete
    <3>1. object' = object \/ (object' = Missing /\ object # Missing)
      BY <2>3, Requests DEF Delete, Accepts
    <3>2. /\ object \in {Missing, payload, backup} /\ overwrite
          /\ UNCHANGED <<payload, backup, overwrite>>
          /\ outcome # "success" /\ outcome' # "success"
      BY <2>3 DEF Delete, EndCall, Goto, Before, Restoring, Own, argVars, callVars
    <3>3. Same \/ Object!Remove
      BY <3>1, <3>2 DEF Object!Remove, Object!Unsettled
    <3>4. QED
      BY <3>3 DEF Object!Next
  <2>4. CASE Upload
    <3>1. object = Missing /\ outcome # "success" /\ UNCHANGED <<payload, backup, overwrite>>
      BY <2>4 DEF Upload, Uploading, argVars
    <3>2. object' \in {Missing, payload}
      BY <2>4, <3>1, Requests DEF Upload
    <3>3. outcome' = "success" => object' = payload
      <4> HIDE DEF IndInv, TypeOK, ToReplace, OnTheWay, Succeeded
      <4>1. IndInv'
        BY <2>4, WritesKeep
      <4>2. payload' = payload
        BY <3>1
      <4>3. QED
        BY <4>1, <4>2, Zenon DEF IndInv, Succeeded
    <3>4. Same \/ Object!Put \/ Object!Succeed
      BY <3>1, <3>2, <3>3 DEF Object!Put, Object!Unsettled, Object!Succeed
    <3>5. QED
      BY <3>4 DEF Object!Next
  <2>5. CASE RestoreUpload
    <3>1. /\ backup # Missing /\ outcome # "success" /\ outcome' # "success"
          /\ UNCHANGED <<payload, backup, overwrite>>
      BY <2>5 DEF RestoreUpload, Restoring, EndCall, Goto, argVars, callVars
    <3>2. object' = object \/ (object' = backup /\ object = Missing)
      BY <2>5, <3>1, Requests DEF RestoreUpload, Accepts, catalogVars
    <3>3. Same \/ Object!Put
      BY <3>1, <3>2 DEF Object!Put, Object!Unsettled
    <3>4. QED
      BY <3>3 DEF Object!Next
  <2>6. CASE ApplyLate
    <3>1. PICK r \in late : object' = IF Accepts(r) THEN r ELSE object
      BY <2>6 DEF ApplyLate
    <3>2. UNCHANGED <<payload, backup, overwrite, outcome>>
      BY <2>6 DEF ApplyLate, argVars, callVars
    <3>3. CASE ~ Accepts(r)
      BY <3>1, <3>2, <3>3
    <3>4. CASE Accepts(r)
      <4>1. object' = r /\ r \in {Missing, payload, backup} /\ ((r = Missing) # (object = Missing))
        BY <3>1, <3>4 DEF Accepts, Own
      <4>2. outcome # "success"
        BY <4>1, CopyAssumption
      <4>3. CASE r = Missing
        BY <3>2, <4>1, <4>2, <4>3 DEF Own, Object!Next, Object!Remove, Object!Unsettled
      <4>4. CASE r # Missing
        BY <3>2, <4>1, <4>2, <4>4 DEF Object!Next, Object!Put, Object!Unsettled
      <4>5. QED
        BY <4>3, <4>4
    <3>5. QED
      BY <3>3, <3>4
  <2>7. CASE Verify \/ CreateVerify \/ CreateVerifyAgain
    <3>1. /\ UNCHANGED <<object, payload, backup, overwrite>> /\ outcome # "success"
          /\ object \in {Missing, payload}
      BY <2>7 DEF Verify, CreateVerify, CreateVerifyAgain, Sent, argVars, callVars, catalogVars
    <3>2. outcome' = "success" => object' = payload
      <4> HIDE DEF IndInv, TypeOK, ToReplace, OnTheWay, Succeeded
      <4>1. IndInv'
        BY <2>7, ReadsKeep
      <4>2. payload' = payload
        BY <3>1
      <4>3. QED
        BY <4>1, <4>2, Zenon DEF IndInv, Succeeded
    <3>3. Same \/ Object!Succeed
      BY <3>1, <3>2 DEF Object!Succeed
    <3>4. QED
      BY <3>3 DEF Object!Next
  <2>8. CASE Plan \/ Probe \/ DeleteProbe \/ AwaitGone \/ Await \/ RestoreProbe \/ RestoreWait
             \/ RestoreVerify \/ CreateWait \/ ReadFails
    <3>1. UNCHANGED <<object, payload, backup, overwrite>>
      BY <2>8 DEF Plan, Probe, DeleteProbe, AwaitGone, Await, RestoreProbe, RestoreWait,
                  RestoreVerify, CreateWait, ReadFails, argVars, callVars, catalogVars
    <3>2. outcome # "success"
      BY <2>8 DEF Plan, Probe, DeleteProbe, AwaitGone, Await, RestoreProbe, RestoreWait,
                  RestoreVerify, CreateWait, ReadFails, ReadsOutside, ReadsInside
    <3>3. outcome' # "success"
      BY <2>8, <3>2 DEF Plan, Probe, DeleteProbe, AwaitGone, Await, Restore, RestoreProbe,
                        RestoreWait, RestoreVerify, CreateWait, ReadFails, EndCall, Goto
    <3>4. QED
      BY <3>1, <3>2, <3>3
  <2>9. CASE CatchUp
    BY <2>9 DEF CatchUp, argVars, callVars
  <2>10. CASE UNCHANGED vars
    BY <2>10 DEF vars, argVars, callVars, catalogVars
  <2>11. QED
    BY <2>1, <2>2, <2>3, <2>4, <2>5, <2>6, <2>7, <2>8, <2>9, <2>10 DEF Next, Step
<1>3. QED
  BY <1>1, <1>2, Invariant, PTL DEF Spec, ImplementsCatalogObject, Object!Spec
------------------------------------------------------------------------------
(***************************************************************************)
(* Why a call ends.                                                        *)
(***************************************************************************)
\* The steps that a call has left, at most.
StepsLeft ==
  [idle |-> 0,
   restoreVerify |-> 1, restoreWait |-> 2, restoreUpload |-> 3, restoreGone |-> 4,
   restoreDelete |-> 5, restoreDeleteProbe |-> 6, restore |-> 7,
   createVerifyAgain |-> 1, createWait |-> 2, createVerify |-> 3, create |-> 4,
   verify |-> 8, await |-> 9, upload |-> 10, awaitGone |-> 11, delete |-> 12,
   deleteProbe |-> 13, backup |-> 14, probe |-> 15, plan |-> 16]

\* Every step of a call brings it nearer to its end, and nothing else moves it:
\* whatever is lost, late or refused, no phase of a call is entered twice, and
\* neither the restore nor the second verification leads back to what was before.
NearerToTheEnd ==
  [][pc # "idle" => IF Step THEN StepsLeft[pc'] < StepsLeft[pc] ELSE pc' = pc]_vars

\* A call of copy_bip_object or replace_bip_object has at most sixteen steps,
\* among them two deletions and two uploads; with the fairness of Step, which
\* is not reasoned about here, EveryCallEnds follows.
THEOREM CallsDescend == Spec => NearerToTheEnd
<1> DEFINE Nearer == StepsLeft[pc'] < StepsLeft[pc]
<1>1. ASSUME IndInv, Step PROVE Nearer
  <2> USE DEF Goto, EndCall, StepsLeft
  <2>1. CASE Plan \/ Probe \/ Backup \/ DeleteProbe
    BY <2>1 DEF Plan, Probe, Backup, DeleteProbe
  <2>2. CASE Delete \/ AwaitGone
    BY <2>2 DEF Delete, AwaitGone
  <2>3. CASE Upload
    BY <2>3 DEF Upload
  <2>4. CASE Await \/ Verify
    BY <2>4 DEF Await, Verify, Restore
  <2>5. CASE RestoreProbe \/ RestoreUpload \/ RestoreWait \/ RestoreVerify
    BY <2>5 DEF RestoreProbe, RestoreUpload, RestoreWait, RestoreVerify
  <2>6. CASE CreateVerify \/ CreateWait \/ CreateVerifyAgain
    BY <2>6 DEF CreateVerify, CreateWait, CreateVerifyAgain
  <2>7. CASE ReadFails
    BY <2>7 DEF ReadFails, Restore, ReadsOutside, ReadsInside
  <2>8. QED
    BY <1>1, <2>1, <2>2, <2>3, <2>4, <2>5, <2>6, <2>7 DEF Step
<1>2. ASSUME [Next]_vars, pc # "idle", ~ Step PROVE pc' = pc
  BY <1>2 DEF Next, Call, ApplyLate, CatchUp, vars
<1>3. IndInv /\ [Next]_vars => [pc # "idle" => IF Step THEN Nearer ELSE pc' = pc]_vars
  BY <1>1, <1>2
<1>4. QED
  BY <1>3, Invariant, PTL DEF Spec, NearerToTheEnd
==============================================================================
