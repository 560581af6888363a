--------------------------- MODULE AiProfileStore ---------------------------
(***************************************************************************)
(* The class AiProfileStore of src/querysaas/ai_context.py: named profiles *)
(* in one JSON file.  A handle reads the whole file, changes one profile   *)
(* of what it read and writes all of it back: save writes a file beside    *)
(* the store and renames it, delete writes the store itself.               *)
(*                                                                         *)
(* There is no lock, and the file beside the store has the same name for   *)
(* all handles.  Handles are processes; each may be killed at any step.    *)
(***************************************************************************)
EXTENDS Naturals

CONSTANTS
  Handles,     \* the stores that were opened on one path
  Names,       \* the names of profiles
  MaxChanges   \* bounds the changes that are begun

ASSUME StoreAssumption == MaxChanges \in Nat

VARIABLES
  file,      \* the store
  temp,      \* the file beside it
  handles,   \* per handle, how far its change is, what it writes and where
  changes,   \* how many changes were begun: the version of a saved profile
  kept,      \* history: the profiles as the changes that ended left them
  excused    \* history: changes overlapped, or a deletion was cut short

storeVars == <<file, temp, handles, changes, kept, excused>>

NoProfiles == [n \in Names |-> 0]

Content(state, profiles) == [state |-> state, profiles |-> profiles]
Whole(profiles) == Content("whole", profiles)
Missing == Content("missing", NoProfiles)
Empty   == Content("empty", NoProfiles)
Torn    == Content("torn", NoProfiles)    \* the end of a longer text is left

Idle == [at |-> "idle", new |-> NoProfiles, changed |-> {}, fd |-> "none"]

StoreTypeOK ==
  /\ \A c \in {file, temp} : /\ c.state \in {"missing", "empty", "torn", "whole"}
                             /\ c.profiles \in [Names -> 0 .. MaxChanges]
  /\ \A h \in Handles :
       LET r == handles[h]
       IN  /\ r.at \in {"idle", "saving", "opened", "written", "deleting", "truncated"}
           /\ r.new \in [Names -> 0 .. MaxChanges] /\ r.changed \subseteq Names
           /\ r.fd \in {"none", "temp", "file", "gone"}
           /\ r.at \in {"opened", "truncated"} <=> r.fd # "none"
  /\ changes \in 0 .. MaxChanges /\ kept \in [Names -> 0 .. MaxChanges]

StoreInit ==
  /\ file = Missing /\ temp = Missing
  /\ handles = [h \in Handles |-> Idle]
  /\ changes = 0
  /\ kept = NoProfiles
  /\ excused = FALSE
------------------------------------------------------------------------------
\* load_all takes a missing file for no profiles.
Readable == file.state \in {"missing", "whole"}

BeginChange(h, at, n, version) ==
  /\ Readable /\ changes < MaxChanges
  /\ handles[h].at = "idle"
  /\ handles' = [handles EXCEPT ![h] =
       [at |-> at, new |-> [file.profiles EXCEPT ![n] = version], changed |-> {n},
        fd |-> "none"]]
  /\ changes' = changes + 1
  /\ excused' = (excused \/ \E other \in Handles \ {h} : handles[other].at # "idle")
  /\ UNCHANGED <<file, temp, kept>>

\* A profile that exists is saved over when the caller says so.
SaveLoads(h) == \E n \in Names : BeginChange(h, "saving", n, changes + 1)

DeleteLoads(h) == \E n \in Names : file.profiles[n] # 0 /\ BeginChange(h, "deleting", n, 0)

\* Mutant: save writes the store itself.
OpenTemp_InPlace(h) ==
  /\ handles[h].at = "saving"
  /\ file' = Empty
  /\ handles' = [handles EXCEPT ![h].at = "opened", ![h].fd = "file"]
  /\ UNCHANGED <<temp, changes, kept, excused>>

\* write_text opens, which makes or empties the file, and writes.
OpenTemp(h) ==
  /\ handles[h].at = "saving"
  /\ temp' = Empty
  /\ handles' = [handles EXCEPT ![h].at = "opened", ![h].fd = "temp"]
  /\ UNCHANGED <<file, changes, kept, excused>>

OpenFile(h) ==
  /\ handles[h].at = "deleting"
  /\ file' = Empty
  /\ handles' = [handles EXCEPT ![h].at = "truncated", ![h].fd = "file"]
  /\ UNCHANGED <<temp, changes, kept, excused>>

\* Over a text that another handle has written since the file was emptied, the
\* end of which stays if it is longer.
Over(content, profiles) ==
  {Whole(profiles)} \cup IF content.state = "empty" THEN {} ELSE {Torn}

Write(h) ==
  LET r == handles[h]
  IN  CASE r.fd = "temp" -> temp' \in Over(temp, r.new) /\ UNCHANGED file
        [] r.fd = "file" -> file' \in Over(file, r.new) /\ UNCHANGED temp
        [] OTHER         -> UNCHANGED <<file, temp>>

Keep(h) ==
  kept' = [n \in Names |-> IF n \in handles[h].changed THEN handles[h].new[n] ELSE kept[n]]

WriteTemp(h) ==
  /\ handles[h].at = "opened"
  /\ Write(h)
  /\ handles' = [handles EXCEPT ![h].at = "written", ![h].fd = "none"]
  /\ UNCHANGED <<changes, kept, excused>>

WriteFile(h) ==
  /\ handles[h].at = "truncated"
  /\ Write(h) /\ Keep(h)
  /\ handles' = [handles EXCEPT ![h] = Idle]
  /\ UNCHANGED <<changes, excused>>

\* Whoever has the file beside the store open has the store open then; if there
\* is no such file any more, the call fails.
Replace(h) ==
  /\ handles[h].at = "written"
  /\ IF temp = Missing
     THEN handles' = [handles EXCEPT ![h] = Idle] /\ UNCHANGED <<file, temp, kept>>
     ELSE /\ file' = temp /\ temp' = Missing /\ Keep(h)
          /\ handles' = [g \in Handles |->
               IF g = h THEN Idle
               ELSE [handles[g] EXCEPT !.fd =
                       CASE @ = "temp" -> "file" [] @ = "file" -> "gone" [] OTHER -> @]]
  /\ UNCHANGED <<changes, excused>>

Crash(h) ==
  /\ handles[h].at # "idle"
  /\ handles' = [handles EXCEPT ![h] = Idle]
  /\ excused' = (excused \/ handles[h].at = "truncated")
  /\ UNCHANGED <<file, temp, changes, kept>>

StoreStep(h) ==
  \/ SaveLoads(h) \/ OpenTemp(h) \/ WriteTemp(h) \/ Replace(h)
  \/ DeleteLoads(h) \/ OpenFile(h) \/ WriteFile(h)
  \/ Crash(h)

StoreNext == \E h \in Handles : StoreStep(h)
------------------------------------------------------------------------------
\* The store can be read and has what the changes that ended left there, also
\* while another profile is being saved, and after processes that saved were
\* killed at any step; but not while a profile is being deleted, nor after a
\* process that deleted was killed, nor after two changes overlapped.
AsSaved ==
  \/ excused
  \/ \E h \in Handles : handles[h].at = "truncated"
  \/ Readable /\ file.profiles = kept
==============================================================================
