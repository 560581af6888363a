-------------------------- MODULE AiAssistant_proofs --------------------------
(***************************************************************************)
(* Theorems about AiAssistant and the store of profiles it reads, for any  *)
(* number of handles, names, changes and attempts, and for all answers.    *)
(***************************************************************************)
EXTENDS AiAssistant, QueryService_proofs

(***************************************************************************)
(* The inductive invariant of the store.                                   *)
(***************************************************************************)
Profiles == [Names -> 0 .. MaxChanges]

Contents == [state : {"missing", "empty", "torn", "whole"}, profiles : Profiles]

Changing == [at : {"idle", "saving", "opened", "written", "deleting", "truncated"},
             new : Profiles, changed : SUBSET Names,
             fd : {"none", "temp", "file", "gone"}]

StoreTypes ==
  /\ file \in Contents /\ temp \in Contents
  /\ handles \in [Handles -> Changing]
  /\ \A h \in Handles : handles[h].at \in {"opened", "truncated"} <=> handles[h].fd # "none"
  /\ changes \in 0 .. MaxChanges
  /\ kept \in Profiles
  /\ excused \in BOOLEAN

\* One change at a time.
Alone == \A g, h \in Handles : handles[g].at # "idle" /\ handles[h].at # "idle" => g = h

\* A change writes the profiles that are kept and its own.
WritesAllOthers ==
  \A h \in Handles : handles[h].at # "idle" =>
    \A n \in Names \ handles[h].changed : handles[h].new[n] = kept[n]

\* How far a change has written, and where.
Written ==
  \A h \in Handles :
    /\ handles[h].at = "opened"    => handles[h].fd = "temp" /\ temp = Empty
    /\ handles[h].at = "written"   => temp = Whole(handles[h].new)
    /\ handles[h].at = "truncated" => handles[h].fd = "file" /\ file = Empty

FileIsKept ==
  \/ \E h \in Handles : handles[h].at = "truncated"
  \/ Readable /\ file.profiles = kept

Orderly == Alone /\ WritesAllOthers /\ Written /\ FileIsKept

StoreInv == StoreTypes /\ (~ excused => Orderly)

(***************************************************************************)
(* The inductive invariant of a request.                                   *)
(***************************************************************************)
Requests ==
  [at : {"none", "starting", "checked", "sending", "ended"},
   function : {"none", "text", "generate", "repair"},
   original : {Extract(said) : said \in Originals} \cup {<<>>},
   schema : Schemas \cup {{}},
   cancelled : BOOLEAN,
   sent : 0 .. MaxAttempts, late : Nat,
   requests : Nat, failures : Nat, retries : Nat,
   answer : Answers \cup {<<>>},
   sql : {Extract(said) : said \in Answers} \cup {<<>>},
   outcome : {"none", "cancelled", "failed", "blocked", "done"}]

\* While a request for a text runs, every attempt before the one that is made now
\* failed and was retried, and there is an attempt left for the one to come.
TextCounts(r) ==
  r.function = "text" =>
    /\ r.retries < MaxAttempts
    /\ r.at \in {"starting", "checked"} =>
         /\ r.failures = r.sent /\ r.retries = r.sent /\ r.sent < MaxAttempts
         /\ r.requests <= r.sent
    /\ r.at = "sending" =>
         /\ r.failures = r.sent - 1 /\ r.retries = r.sent - 1
         /\ r.requests <= r.sent - 1

\* SQL is asked for once, and nobody can cancel that.
SqlCounts(r) ==
  r.function # "text" =>
    /\ r.at # "starting" /\ ~ r.cancelled /\ r.retries = 0
    /\ r.at = "checked" => r.sent = 0
    /\ r.at = "sending" => r.sent = 1

\* A request is late at its last attempt only.
LateOnce(r) ==
  /\ r.late <= 1
  /\ r.at \in {"none", "starting", "checked"} => r.late = 0
  /\ r.late = 1 => r.cancelled

RequestInv ==
  /\ request \in Requests
  /\ request.outcome # "none" <=> request.at = "ended"
  /\ request.function = "none" <=> request.at = "none"
  /\ TextCounts(request) /\ SqlCounts(request) /\ LateOnce(request)
  /\ TelemetryAddsUp

IndInv == StoreInv /\ RequestInv
------------------------------------------------------------------------------
(***************************************************************************)
(* The store.                                                              *)
(***************************************************************************)
LEMMA StoreValues ==
  /\ NoProfiles \in Profiles
  /\ Missing \in Contents /\ Empty \in Contents /\ Torn \in Contents
  /\ \A p \in Profiles : Whole(p) \in Contents
  /\ Idle \in Changing /\ Idle.at = "idle" /\ Idle.fd = "none"
BY StoreAssumption
   DEF NoProfiles, Profiles, Missing, Empty, Torn, Whole, Content, Contents, Idle, Changing

LEMMA StoreStarts == StoreInit => StoreInv
<1> SUFFICES ASSUME StoreInit PROVE StoreInv
  OBVIOUS
<1>1. \A h \in Handles : handles[h] = Idle
  BY DEF StoreInit
<1>2. StoreTypes
  <2>1. \A h \in Handles : handles[h].at \in {"opened", "truncated"} <=> handles[h].fd # "none"
    BY <1>1, StoreValues
  <2>2. handles \in [Handles -> Changing] /\ changes \in 0 .. MaxChanges
    BY StoreValues, StoreAssumption DEF StoreInit
  <2>3. QED
    BY <2>1, <2>2, StoreValues DEF StoreInit, StoreTypes
<1>3. Orderly
  <2>1. \A h \in Handles : handles[h].at = "idle"
    BY <1>1, StoreValues
  <2>2. Readable /\ file.profiles = kept
    BY DEF StoreInit, Readable, Missing, Content
  <2>3. QED
    BY <2>1, <2>2 DEF Orderly, Alone, WritesAllOthers, Written, FileIsKept
<1>4. QED
  BY <1>2, <1>3 DEF StoreInv

\* A change that begins reads a file that has what is kept, unless it overlaps
\* another one.
LEMMA ChangeBegins ==
  ASSUME StoreInv, NEW h \in Handles, NEW at \in {"saving", "deleting"}, NEW n \in Names,
         NEW version \in 0 .. MaxChanges, BeginChange(h, at, n, version)
  PROVE  StoreInv'
<1> DEFINE change == [at |-> at, new |-> [file.profiles EXCEPT ![n] = version],
                      changed |-> {n}, fd |-> "none"]
<1>1. change \in Changing
  BY DEF BeginChange, StoreInv, StoreTypes, Contents, Profiles, Changing
<1>2. /\ handles' = [handles EXCEPT ![h] = change]
      /\ UNCHANGED <<file, temp, kept>>
      /\ changes' = changes + 1 /\ changes < MaxChanges
      /\ excused' \in BOOLEAN
  BY DEF BeginChange, StoreInv, StoreTypes
<1>3. \A g \in Handles : handles'[g] = IF g = h THEN change ELSE handles[g]
  BY <1>2 DEF StoreInv, StoreTypes
<1>4. StoreTypes'
  <2>1. handles' \in [Handles -> Changing]
    BY <1>1, <1>2 DEF StoreInv, StoreTypes
  <2>2. changes' \in 0 .. MaxChanges
    BY <1>2, StoreAssumption DEF StoreInv, StoreTypes
  <2>3. \A g \in Handles : handles'[g].at \in {"opened", "truncated"} <=> handles'[g].fd # "none"
    BY <1>3 DEF StoreInv, StoreTypes
  <2>4. QED
    BY <1>2, <2>1, <2>2, <2>3 DEF StoreInv, StoreTypes
<1>5. ASSUME ~ excused' PROVE Orderly'
  <2>1. ~ excused /\ \A g \in Handles \ {h} : handles[g].at = "idle"
    BY <1>5 DEF BeginChange
  <2>2. Orderly /\ handles[h].at = "idle"
    BY <2>1 DEF StoreInv, BeginChange
  <2>3. Readable /\ file.profiles = kept
    BY <2>1, <2>2 DEF Orderly, FileIsKept
  <2>4. Alone' /\ Written'
    BY <1>3, <2>1 DEF Alone, Written
  <2>5. WritesAllOthers'
    <3>1. \A m \in Names \ {n} : change.new[m] = kept[m]
      BY <2>3 DEF StoreInv, StoreTypes, Contents, Profiles
    <3>2. handles'[h].new = change.new /\ handles'[h].changed = {n}
      BY <1>3
    <3>3. \A g \in Handles \ {h} : handles'[g].at = "idle"
      BY <1>3, <2>1
    <3> HIDE DEF change
    <3>4. ASSUME NEW g \in Handles, handles'[g].at # "idle",
                 NEW m \in Names \ handles'[g].changed
          PROVE  handles'[g].new[m] = kept'[m]
      <4>1. g = h
        BY <3>3, <3>4
      <4>2. kept' = kept
        BY <1>2
      <4>3. QED
        BY <3>1, <3>2, <4>1, <4>2
    <3>5. QED
      BY <3>4 DEF WritesAllOthers
  <2>6. FileIsKept'
    BY <1>2, <2>3 DEF FileIsKept, Readable
  <2>7. QED
    BY <2>4, <2>5, <2>6 DEF Orderly
<1>6. QED
  BY <1>4, <1>5 DEF StoreInv

\* A handle opens the file that its change writes.
LEMMA OpenKeeps ==
  ASSUME StoreInv, NEW h \in Handles, OpenTemp(h) \/ OpenFile(h)
  PROVE  StoreInv'
<1>1. StoreTypes'
  BY StoreValues DEF OpenTemp, OpenFile, StoreInv, StoreTypes, Changing
<1>2. ASSUME ~ excused' PROVE Orderly'
  <2>1. Orderly
    BY <1>2 DEF OpenTemp, OpenFile, StoreInv
  <2>2. handles \in [Handles -> Changing]
    BY DEF StoreInv, StoreTypes
  <2>3. CASE OpenTemp(h)
    <3>1. handles[h].at # "idle" /\ \A g \in Handles \ {h} : handles[g].at = "idle"
      BY <2>1, <2>3 DEF Orderly, Alone, OpenTemp
    <3>2. \A g \in Handles \ {h} : handles'[g].at = "idle"
      BY <2>2, <2>3, <3>1 DEF OpenTemp
    <3>3. /\ handles'[h].at = "opened" /\ handles'[h].fd = "temp"
          /\ handles'[h].new = handles[h].new /\ handles'[h].changed = handles[h].changed
      BY <2>2, <2>3 DEF Changing, OpenTemp
    <3>4. Alone' /\ Written'
      BY <2>3, <3>2, <3>3 DEF Alone, Written, OpenTemp
    <3>5. WritesAllOthers'
      <4>1. \A n \in Names \ handles[h].changed : handles[h].new[n] = kept[n]
        BY <2>1, <3>1 DEF Orderly, WritesAllOthers
      <4>2. kept' = kept
        BY <2>3 DEF OpenTemp
      <4>3. QED
        BY <3>2, <3>3, <4>1, <4>2 DEF WritesAllOthers
    <3>6. FileIsKept'
      BY <2>1, <2>3, <3>1 DEF Orderly, FileIsKept, Readable, OpenTemp
    <3>7. QED
      BY <3>4, <3>5, <3>6 DEF Orderly
  <2>4. CASE OpenFile(h)
    <3>1. handles[h].at # "idle" /\ \A g \in Handles \ {h} : handles[g].at = "idle"
      BY <2>1, <2>4 DEF Orderly, Alone, OpenFile
    <3>2. \A g \in Handles \ {h} : handles'[g].at = "idle"
      BY <2>2, <2>4, <3>1 DEF OpenFile
    <3>3. /\ handles'[h].at = "truncated" /\ handles'[h].fd = "file"
          /\ handles'[h].new = handles[h].new /\ handles'[h].changed = handles[h].changed
      BY <2>2, <2>4 DEF Changing, OpenFile
    <3>4. Alone' /\ Written' /\ FileIsKept'
      BY <2>4, <3>2, <3>3 DEF Alone, Written, FileIsKept, OpenFile
    <3>5. WritesAllOthers'
      <4>1. \A n \in Names \ handles[h].changed : handles[h].new[n] = kept[n]
        BY <2>1, <3>1 DEF Orderly, WritesAllOthers
      <4>2. kept' = kept
        BY <2>4 DEF OpenFile
      <4>3. QED
        BY <3>2, <3>3, <4>1, <4>2 DEF WritesAllOthers
    <3>6. QED
      BY <3>4, <3>5 DEF Orderly
  <2>5. QED
    BY <2>3, <2>4
<1>3. QED
  BY <1>1, <1>2 DEF StoreInv

\* What a change leaves in the file that it writes.
LEMMA WriteTypes ==
  ASSUME StoreTypes, NEW h \in Handles, Write(h)
  PROVE  file' \in Contents /\ temp' \in Contents
<1>1. handles[h].new \in Profiles
  BY DEF StoreTypes, Changing
<1>2. \A c \in {file, temp} : Over(c, handles[h].new) \subseteq Contents
  BY <1>1, StoreValues DEF Over
<1>3. QED
  BY <1>2 DEF Write, StoreTypes

LEMMA KeepTypes ==
  ASSUME StoreTypes, NEW h \in Handles, Keep(h)
  PROVE  kept' \in Profiles
BY DEF StoreTypes, Keep, Changing, Profiles

\* The profiles that are kept, when a change ends that wrote all others.
LEMMA KeptIsNew ==
  ASSUME StoreTypes, WritesAllOthers, NEW h \in Handles, handles[h].at # "idle", Keep(h)
  PROVE  kept' = handles[h].new
<1>1. handles[h].new \in Profiles /\ kept \in Profiles
  BY DEF StoreTypes, Changing
<1>2. \A n \in Names : kept'[n] = handles[h].new[n]
  BY DEF Keep, WritesAllOthers
<1>3. kept' \in Profiles
  BY KeepTypes
<1>4. QED
  BY <1>1, <1>2, <1>3 DEF Profiles

LEMMA WriteTempKeeps ==
  ASSUME StoreInv, NEW h \in Handles, WriteTemp(h)
  PROVE  StoreInv'
<1>1. \A g \in Handles : handles'[g] =
        IF g = h THEN [handles[h] EXCEPT !.at = "written", !.fd = "none"] ELSE handles[g]
  BY DEF WriteTemp, StoreInv, StoreTypes
<1>2. /\ handles'[h].at = "written" /\ handles'[h].fd = "none"
      /\ handles'[h].new = handles[h].new /\ handles'[h].changed = handles[h].changed
  BY <1>1 DEF StoreInv, StoreTypes, Changing
<1>3. StoreTypes'
  <2>1. handles' \in [Handles -> Changing]
    BY DEF WriteTemp, StoreInv, StoreTypes, Changing
  <2>2. \A g \in Handles : handles'[g].at \in {"opened", "truncated"} <=> handles'[g].fd # "none"
    BY <1>1, <1>2 DEF StoreInv, StoreTypes
  <2>3. file' \in Contents /\ temp' \in Contents
    BY WriteTypes DEF WriteTemp, StoreInv
  <2>4. QED
    BY <2>1, <2>2, <2>3 DEF WriteTemp, StoreInv, StoreTypes
<1>4. ASSUME ~ excused' PROVE Orderly'
  <2>1. Orderly
    BY <1>4 DEF WriteTemp, StoreInv
  <2>2. handles[h].at = "opened" /\ handles[h].fd = "temp" /\ temp = Empty
    BY <2>1 DEF WriteTemp, Orderly, Written
  <2>3. temp' = Whole(handles[h].new) /\ UNCHANGED <<file, kept>>
    BY <2>2 DEF WriteTemp, Write, Over, Empty, Content
  <2>4. \A g \in Handles \ {h} : handles[g].at = "idle"
    BY <2>1, <2>2 DEF Orderly, Alone
  <2>5. Alone' /\ Written'
    BY <1>1, <1>2, <2>3, <2>4 DEF Alone, Written
  <2>6. WritesAllOthers'
    BY <1>1, <1>2, <2>1, <2>2, <2>3, <2>4 DEF Orderly, WritesAllOthers
  <2>7. FileIsKept'
    BY <1>1, <2>1, <2>2, <2>3, <2>4 DEF Orderly, FileIsKept, Readable
  <2>8. QED
    BY <2>5, <2>6, <2>7 DEF Orderly
<1>5. QED
  BY <1>3, <1>4 DEF StoreInv

LEMMA WriteFileKeeps ==
  ASSUME StoreInv, NEW h \in Handles, WriteFile(h)
  PROVE  StoreInv'
<1>1. \A g \in Handles : handles'[g] = IF g = h THEN Idle ELSE handles[g]
  BY DEF WriteFile, StoreInv, StoreTypes
<1>2. StoreTypes'
  <2>1. handles' \in [Handles -> Changing]
    BY StoreValues DEF WriteFile, StoreInv, StoreTypes
  <2>2. \A g \in Handles : handles'[g].at \in {"opened", "truncated"} <=> handles'[g].fd # "none"
    BY <1>1 DEF StoreInv, StoreTypes, Idle
  <2>3. file' \in Contents /\ temp' \in Contents /\ kept' \in Profiles
    BY WriteTypes, KeepTypes DEF WriteFile, StoreInv
  <2>4. QED
    BY <2>1, <2>2, <2>3 DEF WriteFile, StoreInv, StoreTypes
<1>3. ASSUME ~ excused' PROVE Orderly'
  <2>1. Orderly
    BY <1>3 DEF WriteFile, StoreInv
  <2>2. handles[h].at = "truncated" /\ handles[h].fd = "file" /\ file = Empty
    BY <2>1 DEF WriteFile, Orderly, Written
  <2>3. file' = Whole(handles[h].new)
    BY <2>2 DEF WriteFile, Write, Over, Empty, Content
  <2>4. kept' = handles[h].new
    BY <2>1, <2>2, KeptIsNew DEF WriteFile, StoreInv, Orderly
  <2>5. \A g \in Handles : handles'[g].at = "idle"
    BY <1>1, <2>1, <2>2 DEF Orderly, Alone, Idle
  <2>6. FileIsKept'
    BY <2>3, <2>4 DEF FileIsKept, Readable, Whole, Content
  <2>7. QED
    BY <2>5, <2>6 DEF Orderly, Alone, WritesAllOthers, Written
<1>4. QED
  BY <1>2, <1>3 DEF StoreInv
\* The file beside the store becomes the store, also for those who have one of
\* the two open.
LEMMA ReplaceKeeps ==
  ASSUME StoreInv, NEW h \in Handles, Replace(h)
  PROVE  StoreInv'
<1>1. CASE temp = Missing
  <2>1. handles' = [handles EXCEPT ![h] = Idle] /\ UNCHANGED <<file, temp, kept, changes, excused>>
    BY <1>1 DEF Replace
  <2>2. \A g \in Handles : handles'[g] = IF g = h THEN Idle ELSE handles[g]
    BY <2>1 DEF StoreInv, StoreTypes
  <2>3. handles' \in [Handles -> Changing]
    BY <2>1, StoreValues DEF StoreInv, StoreTypes
  <2>4. StoreTypes'
    BY <2>1, <2>2, <2>3, StoreValues DEF StoreInv, StoreTypes
  <2>5. temp # Whole(handles[h].new)
    BY <1>1 DEF Missing, Whole, Content
  <2>6. excused
    BY <2>5 DEF Replace, StoreInv, Orderly, Written
  <2>7. QED
    BY <2>1, <2>4, <2>6 DEF StoreInv
<1>2. CASE temp # Missing
  <2> DEFINE Fd(fd) == CASE fd = "temp" -> "file" [] fd = "file" -> "gone" [] OTHER -> fd
  <2>1. /\ file' = temp /\ temp' = Missing /\ Keep(h)
        /\ handles' = [g \in Handles |->
             IF g = h THEN Idle ELSE [handles[g] EXCEPT !.fd = Fd(@)]]
        /\ UNCHANGED <<changes, excused>>
    BY <1>2 DEF Replace
  <2>2. ASSUME NEW g \in Handles
        PROVE  /\ Fd(handles[g].fd) \in {"none", "temp", "file", "gone"}
               /\ Fd(handles[g].fd) # "none" <=> handles[g].fd # "none"
    BY DEF StoreInv, StoreTypes, Changing
  <2>3. ASSUME NEW g \in Handles, g # h
        PROVE  /\ handles'[g] \in Changing
               /\ handles'[g].at = handles[g].at
               /\ handles'[g].fd = Fd(handles[g].fd)
    <3>1. handles[g] \in Changing
      BY DEF StoreInv, StoreTypes
    <3>2. handles'[g] = [handles[g] EXCEPT !.fd = Fd(handles[g].fd)]
      BY <2>1, <2>3
    <3> HIDE DEF Fd
    <3>3. QED
      BY <2>2, <3>1, <3>2 DEF Changing
  <2> HIDE DEF Fd
  <2>4. handles'[h] = Idle
    BY <2>1
  <2>5. StoreTypes'
    <3>1. handles' \in [Handles -> Changing]
      <4>1. \A g \in Handles : handles'[g] \in Changing
        BY <2>3, <2>4, StoreValues
      <4>2. QED
        BY <2>1, <4>1
    <3>2. \A g \in Handles : handles'[g].at \in {"opened", "truncated"} <=> handles'[g].fd # "none"
      BY <2>2, <2>3, <2>4, StoreValues DEF StoreInv, StoreTypes
    <3>3. kept' \in Profiles
      BY <2>1, KeepTypes DEF StoreInv
    <3>4. QED
      BY <2>1, <3>1, <3>2, <3>3, StoreValues DEF StoreInv, StoreTypes
  <2>6. ASSUME ~ excused' PROVE Orderly'
    <3>1. Orderly /\ handles[h].at = "written"
      BY <2>1, <2>6 DEF StoreInv, Replace
    <3>2. temp = Whole(handles[h].new)
      BY <3>1 DEF Orderly, Written
    <3>3. kept' = handles[h].new
      BY <2>1, <3>1, KeptIsNew DEF StoreInv, Orderly
    <3>4. FileIsKept'
      BY <2>1, <3>2, <3>3 DEF FileIsKept, Readable, Whole, Content
    <3>5. \A g \in Handles : handles'[g].at = "idle"
      BY <2>3, <2>4, <3>1, StoreValues DEF Orderly, Alone
    <3>6. QED
      BY <3>4, <3>5 DEF Orderly, Alone, WritesAllOthers, Written
  <2>7. QED
    BY <2>5, <2>6 DEF StoreInv
<1>3. QED
  BY <1>1, <1>2

\* What a process that is killed leaves behind is the store, unless it had
\* emptied that.
LEMMA CrashKeeps ==
  ASSUME StoreInv, NEW h \in Handles, Crash(h)
  PROVE  StoreInv'
<1>1. \A g \in Handles : handles'[g] = IF g = h THEN Idle ELSE handles[g]
  BY DEF Crash, StoreInv, StoreTypes
<1>2. StoreTypes'
  <2>1. handles' \in [Handles -> Changing]
    BY StoreValues DEF Crash, StoreInv, StoreTypes
  <2>2. \A g \in Handles : handles'[g].at \in {"opened", "truncated"} <=> handles'[g].fd # "none"
    BY <1>1, StoreValues DEF StoreInv, StoreTypes
  <2>3. QED
    BY <2>1, <2>2 DEF Crash, StoreInv, StoreTypes
<1>3. ASSUME ~ excused' PROVE Orderly'
  <2>1. Orderly /\ handles[h].at \notin {"idle", "truncated"}
    BY <1>3 DEF Crash, StoreInv
  <2>2. \A g \in Handles : handles'[g].at = "idle"
    BY <1>1, <2>1, StoreValues DEF Orderly, Alone
  <2>3. FileIsKept'
    BY <2>1 DEF Crash, Orderly, Alone, FileIsKept, Readable
  <2>4. QED
    BY <2>2, <2>3 DEF Orderly, Alone, WritesAllOthers, Written
<1>4. QED
  BY <1>2, <1>3 DEF StoreInv

LEMMA StoreKeeps ==
  ASSUME StoreInv, StoreNext \/ UNCHANGED storeVars
  PROVE  StoreInv'
<1>1. ASSUME NEW h \in Handles, SaveLoads(h) PROVE StoreInv'
  <2>1. PICK n \in Names : BeginChange(h, "saving", n, changes + 1)
    BY <1>1 DEF SaveLoads
  <2>2. changes + 1 \in 0 .. MaxChanges
    BY <2>1, StoreAssumption DEF BeginChange, StoreInv, StoreTypes
  <2>3. QED
    BY <2>1, <2>2, ChangeBegins
<1>2. ASSUME NEW h \in Handles, DeleteLoads(h) PROVE StoreInv'
  <2>1. PICK n \in Names : BeginChange(h, "deleting", n, 0)
    BY <1>2 DEF DeleteLoads
  <2>2. 0 \in 0 .. MaxChanges
    BY StoreAssumption
  <2>3. QED
    BY <2>1, <2>2, ChangeBegins
<1>3. ASSUME NEW h \in Handles,
             OpenTemp(h) \/ OpenFile(h) \/ WriteTemp(h) \/ WriteFile(h) \/ Replace(h) \/ Crash(h)
      PROVE  StoreInv'
  BY <1>3, OpenKeeps, WriteTempKeeps, WriteFileKeeps, ReplaceKeeps, CrashKeeps
<1>4. CASE UNCHANGED storeVars
  BY <1>4 DEF storeVars, StoreInv, StoreTypes, Orderly, Alone, WritesAllOthers, Written,
              FileIsKept, Readable
<1>5. QED
  BY <1>1, <1>2, <1>3, <1>4 DEF StoreNext, StoreStep
------------------------------------------------------------------------------
(***************************************************************************)
(* The request.                                                            *)
(***************************************************************************)
LEMMA NoRequest == None \in Requests /\ MaxAttempts \in Nat /\ MaxAttempts > 0
BY AssistantAssumption DEF None, Requests

\* A request begins with the counters at zero.
LEMMA AskKeeps ==
  ASSUME RequestInv, NEW f \in {"text", "generate", "repair"},
         NEW at \in {"starting", "checked"}, at = "starting" => f = "text",
         NEW original \in {Extract(said) : said \in Originals} \cup {<<>>},
         NEW schema \in Schemas \cup {{}},
         Ask(f, at, original, schema)
  PROVE  RequestInv'
<1>1. request' = [None EXCEPT !.function = f, !.at = at,
                              !.original = original, !.schema = schema]
  BY DEF Ask
<1>2. request' \in Requests
  BY <1>1, NoRequest DEF Requests
<1>3. /\ request'.function = f /\ request'.at = at /\ request'.outcome = "none"
      /\ ~ request'.cancelled
      /\ request'.sent = 0 /\ request'.late = 0 /\ request'.requests = 0
      /\ request'.failures = 0 /\ request'.retries = 0
  BY <1>1 DEF None
<1>4. QED
  BY <1>2, <1>3, NoRequest
     DEF RequestInv, TextCounts, SqlCounts, LateOnce, TelemetryAddsUp

LEMMA CheckSendCancelKeep ==
  ASSUME RequestInv, Check \/ Send \/ Cancel
  PROVE  RequestInv'
<1>1. CASE Check /\ request.cancelled
  <2>1. request' = Ended(request, "cancelled") /\ request.at = "starting"
    BY <1>1 DEF Check
  <2>2. request' \in Requests
    BY <2>1 DEF Ended, Requests, RequestInv
  <2>3. request.sent \in Nat /\ request.requests \in Nat
    BY NoRequest DEF Requests, RequestInv
  <2>4. /\ request'.at = "ended" /\ request'.outcome = "cancelled"
        /\ request'.function = request.function /\ request'.cancelled = request.cancelled
        /\ request'.sent = request.sent /\ request'.late = request.late
        /\ request'.requests = request.requests /\ request'.failures = request.failures
        /\ request'.retries = request.retries
    BY <2>1 DEF Ended, RequestInv, Requests
  <2>5. QED
    BY <2>1, <2>2, <2>3, <2>4
       DEF RequestInv, TextCounts, SqlCounts, LateOnce, TelemetryAddsUp
<1>2. CASE Check /\ ~ request.cancelled
  <2>1. request' = [request EXCEPT !.at = "checked"] /\ request.at = "starting"
    BY <1>2 DEF Check
  <2>2. request' \in Requests
    BY <2>1 DEF Requests, RequestInv
  <2>3. /\ request'.at = "checked" /\ request'.outcome = request.outcome
        /\ request'.function = request.function /\ request'.cancelled = request.cancelled
        /\ request'.sent = request.sent /\ request'.late = request.late
        /\ request'.requests = request.requests /\ request'.failures = request.failures
        /\ request'.retries = request.retries
    BY <2>1 DEF RequestInv, Requests
  <2>4. QED
    BY <2>1, <2>2, <2>3
       DEF RequestInv, TextCounts, SqlCounts, LateOnce, TelemetryAddsUp
<1>3. CASE Send
  <2>1. /\ request' = [request EXCEPT !.at = "sending", !.sent = @ + 1,
                                      !.late = @ + IF request.cancelled THEN 1 ELSE 0]
        /\ request.at = "checked"
    BY <1>3 DEF Send
  <2>2. /\ request.sent \in Nat /\ request.late = 0 /\ request.sent < MaxAttempts
        /\ request.requests \in Nat
    BY <2>1, NoRequest DEF Requests, RequestInv, TextCounts, SqlCounts, LateOnce
  <2>3. /\ request'.at = "sending" /\ request'.outcome = request.outcome
        /\ request'.function = request.function /\ request'.cancelled = request.cancelled
        /\ request'.sent = request.sent + 1
        /\ request'.late = IF request.cancelled THEN 1 ELSE 0
        /\ request'.requests = request.requests /\ request'.failures = request.failures
        /\ request'.retries = request.retries
    BY <2>1, <2>2 DEF RequestInv, Requests
  <2>4. request' \in Requests
    <3>1. request.sent + 1 \in 0 .. MaxAttempts
      BY <2>2, NoRequest
    <3>2. request.late + (IF request.cancelled THEN 1 ELSE 0) \in Nat
      BY <2>2
    <3>3. QED
      BY <2>1, <3>1, <3>2 DEF Requests, RequestInv
  <2>5. QED
    BY <2>1, <2>2, <2>3, <2>4
       DEF RequestInv, TextCounts, SqlCounts, LateOnce, TelemetryAddsUp
<1>4. CASE Cancel
  <2>1. /\ request' = [request EXCEPT !.cancelled = TRUE]
        /\ request.at \notin {"none", "ended"} /\ request.function = "text"
        /\ ~ request.cancelled
    BY <1>4 DEF Cancel, Running
  <2>2. request' \in Requests
    BY <2>1 DEF Requests, RequestInv
  <2>3. /\ request'.at = request.at /\ request'.outcome = request.outcome
        /\ request'.function = request.function
        /\ request'.sent = request.sent /\ request'.late = request.late
        /\ request'.requests = request.requests /\ request'.failures = request.failures
        /\ request'.retries = request.retries
        /\ request'.cancelled
    BY <2>1 DEF RequestInv, Requests
  <2>4. request.late = 0
    BY <2>1 DEF RequestInv, Requests, LateOnce
  <2>5. QED
    BY <2>1, <2>2, <2>3, <2>4
       DEF RequestInv, TextCounts, SqlCounts, LateOnce, TelemetryAddsUp
<1>5. QED
  BY <1>1, <1>2, <1>3, <1>4

\* What a request that is answered oddly, or not at all, is before the failure is
\* counted.
Sending(r) ==
  /\ r \in Requests /\ r.at = "sending" /\ r.outcome = "none" /\ r.function # "none"
  /\ r.function = "text" =>
       /\ r.failures = r.sent - 1 /\ r.retries = r.sent - 1
       /\ r.requests <= r.sent
  /\ r.function # "text" => ~ r.cancelled /\ r.retries = 0 /\ r.sent = 1
  /\ r.late <= 1 /\ (r.late = 1 => r.cancelled)

\* A failure is the last one, or it is a retry with an attempt left for it.
LEMMA FailureKeeps ==
  ASSUME NEW r, Sending(r), request' = AfterFailure(r)
  PROVE  RequestInv'
<1> DEFINE failed == [r EXCEPT !.failures = @ + 1]
           again  == [failed EXCEPT !.retries = @ + 1]
<1>1. /\ r \in Requests
      /\ r.sent \in Nat /\ r.sent <= MaxAttempts /\ r.late \in Nat
      /\ r.failures \in Nat /\ r.retries \in Nat /\ r.requests \in Nat
  BY NoRequest DEF Sending, Requests
<1>counted. failed \in Requests /\ again \in Requests
  <2>1. failed = [r EXCEPT !.failures = r.failures + 1] /\ r.failures + 1 \in Nat
    BY <1>1
  <2>2. failed \in Requests /\ failed.retries = r.retries
    BY <1>1, <2>1 DEF Requests
  <2>3. again = [failed EXCEPT !.retries = failed.retries + 1] /\ failed.retries + 1 \in Nat
    BY <1>1, <2>2
  <2> HIDE DEF failed, again
  <2>4. again \in Requests
    BY <2>2, <2>3 DEF Requests
  <2>5. QED
    BY <2>2, <2>4
<1>2. CASE r.function # "text"
  <2>1. request' = Ended(r, "failed")
    BY <1>2 DEF AfterFailure
  <2>2. request' \in Requests
    BY <1>1, <2>1 DEF Ended, Requests
  <2>3. /\ request'.at = "ended" /\ request'.outcome = "failed"
        /\ request'.function = r.function /\ request'.cancelled = r.cancelled
        /\ request'.sent = r.sent /\ request'.late = r.late /\ request'.retries = r.retries
    BY <1>1, <2>1 DEF Ended, Requests
  <2>4. QED
    BY <1>1, <1>2, <2>2, <2>3, NoRequest
       DEF Sending, RequestInv, TextCounts, SqlCounts, LateOnce, TelemetryAddsUp
<1>3. CASE r.function = "text" /\ r.sent = MaxAttempts
  <2>1. request' = Ended(failed, "failed")
    BY <1>3 DEF AfterFailure
  <2>2. request' \in Requests
    <3> HIDE DEF failed, again
    <3>1. QED
      BY <1>counted, <2>1 DEF Ended, Requests
  <2>3. /\ request'.at = "ended" /\ request'.outcome = "failed"
        /\ request'.function = r.function /\ request'.cancelled = r.cancelled
        /\ request'.sent = r.sent /\ request'.late = r.late /\ request'.retries = r.retries
        /\ request'.requests = r.requests /\ request'.failures = r.failures + 1
    BY <1>1, <2>1 DEF Ended, Requests
  <2>4. QED
    BY <1>1, <1>3, <2>2, <2>3, NoRequest
       DEF Sending, RequestInv, TextCounts, SqlCounts, LateOnce, TelemetryAddsUp
<1>4. CASE r.function = "text" /\ r.sent # MaxAttempts /\ r.cancelled
  <2>1. request' = Ended(again, "cancelled")
    BY <1>4 DEF AfterFailure
  <2>2. request' \in Requests
    <3> HIDE DEF failed, again
    <3>1. QED
      BY <1>counted, <2>1 DEF Ended, Requests
  <2>3. /\ request'.at = "ended" /\ request'.outcome = "cancelled"
        /\ request'.function = r.function /\ request'.cancelled = r.cancelled
        /\ request'.sent = r.sent /\ request'.late = r.late
        /\ request'.requests = r.requests /\ request'.failures = r.failures + 1
        /\ request'.retries = r.retries + 1
    BY <1>1, <2>1 DEF Ended, Requests
  <2>4. QED
    BY <1>1, <1>4, <2>2, <2>3, NoRequest
       DEF Sending, RequestInv, TextCounts, SqlCounts, LateOnce, TelemetryAddsUp
<1>5. CASE r.function = "text" /\ r.sent # MaxAttempts /\ ~ r.cancelled
  <2>1. request' = [again EXCEPT !.at = "starting"]
    BY <1>5 DEF AfterFailure
  <2>2. request' \in Requests
    <3> HIDE DEF failed, again
    <3>1. QED
      BY <1>counted, <2>1 DEF Requests
  <2>3. /\ request'.at = "starting" /\ request'.outcome = r.outcome
        /\ request'.function = r.function /\ request'.cancelled = r.cancelled
        /\ request'.sent = r.sent /\ request'.late = r.late
        /\ request'.requests = r.requests /\ request'.failures = r.failures + 1
        /\ request'.retries = r.retries + 1
    BY <1>1, <2>1 DEF Requests
  <2>4. r.late = 0 /\ r.sent < MaxAttempts
    BY <1>1, <1>5, NoRequest DEF Sending
  <2>5. QED
    BY <1>1, <1>5, <2>2, <2>3, <2>4, NoRequest
       DEF Sending, RequestInv, TextCounts, SqlCounts, LateOnce, TelemetryAddsUp
<1>6. QED
  BY <1>2, <1>3, <1>4, <1>5

LEMMA AnswersKeep ==
  ASSUME RequestInv, Unanswered \/ OddUsage \/ AnswerText \/ AnswerSql
  PROVE  RequestInv'
<1>1. /\ request \in Requests /\ request.at = "sending"
      /\ request.sent \in Nat /\ request.sent <= MaxAttempts
      /\ request.late \in Nat /\ request.requests \in Nat
      /\ request.failures \in Nat /\ request.retries \in Nat
  <2>1. request \in Requests /\ request.at = "sending"
    BY DEF RequestInv, Unanswered, OddUsage, AnswerText, AnswerSql
  <2>2. QED
    BY <2>1, NoRequest DEF Requests
<1>2. Sending(request)
  BY <1>1 DEF RequestInv, TextCounts, SqlCounts, LateOnce, Sending
<1>3. CASE Unanswered
  BY <1>2, <1>3, FailureKeeps DEF Unanswered
<1>4. /\ Counted(request) \in Requests
      /\ Counted(request).requests = request.requests + 1
      /\ \A field \in DOMAIN None \ {"requests"} : Counted(request)[field] = request[field]
  BY <1>1 DEF Counted, Requests, None
<1>5. CASE OddUsage
  <2>1. Sending(Counted(request))
    BY <1>1, <1>2, <1>4, <1>5 DEF OddUsage, RequestInv, TextCounts, Sending, None
  <2>2. QED
    BY <1>5, <2>1, FailureKeeps DEF OddUsage
<1>6. CASE AnswerText
  <2>1. request' = Ended(Counted(request), "done") /\ request.function = "text"
    BY <1>6 DEF AnswerText
  <2>2. request' \in Requests
    BY <1>4, <2>1 DEF Ended, Requests
  <2>3. /\ request'.at = "ended" /\ request'.outcome = "done"
        /\ request'.function = request.function /\ request'.cancelled = request.cancelled
        /\ request'.sent = request.sent /\ request'.late = request.late
        /\ request'.requests = request.requests + 1
        /\ request'.failures = request.failures /\ request'.retries = request.retries
    BY <1>1, <2>1 DEF Ended, Counted, Requests
  <2>4. QED
    BY <1>1, <2>1, <2>2, <2>3
       DEF RequestInv, TextCounts, SqlCounts, LateOnce, TelemetryAddsUp
<1>7. CASE AnswerSql
  <2>1. PICK said \in Answers :
          LET r == [request EXCEPT !.answer = said]
          IN  request' = IF Passes(r, said)
                         THEN Ended([r EXCEPT !.sql = Extract(said)], "done")
                         ELSE Ended(r, "blocked")
    BY <1>7 DEF AnswerSql
  <2>2. request' \in Requests
    BY <1>1, <2>1 DEF Ended, Requests
  <2>3. /\ request'.at = "ended" /\ request'.outcome \in {"done", "blocked"}
        /\ request'.function = request.function /\ request'.cancelled = request.cancelled
        /\ request'.sent = request.sent /\ request'.late = request.late
        /\ request'.retries = request.retries
    BY <1>1, <2>1 DEF Ended, Requests
  <2>4. request.function \in {"generate", "repair"}
    BY <1>7 DEF AnswerSql
  <2>5. QED
    BY <1>1, <2>2, <2>3, <2>4
       DEF RequestInv, TextCounts, SqlCounts, LateOnce, TelemetryAddsUp
<1>8. QED
  BY <1>3, <1>5, <1>6, <1>7

LEMMA RequestKeeps ==
  ASSUME RequestInv, Text \/ Generate \/ Repair \/ Cancel \/ RequestStep
  PROVE  RequestInv'
<1>1. CASE Text \/ Generate
  BY <1>1, AskKeeps DEF Text, Generate
<1>2. CASE Repair
  <2>1. PICK original \in Originals, schema \in Schemas :
          Ask("repair", "checked", Extract(original), schema)
    BY <1>2 DEF Repair
  <2>2. QED
    BY <2>1, AskKeeps
<1>3. CASE Cancel \/ Check \/ Send
  BY <1>3, CheckSendCancelKeep
<1>4. CASE Unanswered \/ OddUsage \/ AnswerText \/ AnswerSql
  BY <1>4, AnswersKeep
<1>5. QED
  BY <1>1, <1>2, <1>3, <1>4 DEF RequestStep
------------------------------------------------------------------------------
(***************************************************************************)
(* SQL that is handed back was found in an answer and has passed the       *)
(* checks; that of a repair reads approved tables.                         *)
(***************************************************************************)
SqlChecked ==
  request.sql # <<>> =>
    /\ \E said \in Answers : request.sql = Extract(said) /\ Enforced(said)
    /\ request.function = "repair" => Approved(request.sql, request.schema)

LEMMA SqlCheckedInitially == Init => SqlChecked
BY DEF Init, None, SqlChecked

LEMMA FailureKeepsNothing ==
  ASSUME NEW r \in Requests
  PROVE  /\ AfterFailure(r).sql = r.sql /\ AfterFailure(r).function = r.function
         /\ AfterFailure(r).schema = r.schema
BY DEF AfterFailure, Ended, Requests

LEMMA SqlCheckedKept ==
  ASSUME IndInv, SqlChecked, [Next]_vars
  PROVE  SqlChecked'
<1>1. request \in Requests
  BY DEF IndInv, RequestInv
<1>2. ASSUME request'.sql = request.sql, request'.function = request.function,
             request'.schema = request.schema
      PROVE  SqlChecked'
  BY <1>2 DEF SqlChecked
<1>3. CASE Text \/ Generate \/ Repair
  <2>1. request'.sql = <<>>
    BY <1>3 DEF Text, Generate, Repair, Ask, None
  <2>2. QED
    BY <2>1 DEF SqlChecked
<1>4. CASE Check \/ Send \/ Cancel
  <2>1. /\ request'.sql = request.sql /\ request'.function = request.function
        /\ request'.schema = request.schema
    BY <1>1, <1>4 DEF Check, Send, Cancel, Ended, Requests
  <2>2. QED
    BY <1>2, <2>1
<1>5. CASE Unanswered
  BY <1>1, <1>2, <1>5, FailureKeepsNothing DEF Unanswered
<1>6. CASE OddUsage \/ AnswerText
  <2>1. /\ request'.sql = request.sql /\ request'.function = request.function
        /\ request'.schema = request.schema
    BY <1>1, <1>6 DEF OddUsage, AnswerText, AfterFailure, Counted, Ended, Requests
  <2>2. QED
    BY <1>2, <2>1
<1>7. CASE AnswerSql
  <2>1. PICK said \in Answers :
          LET r == [request EXCEPT !.answer = said]
          IN  request' = IF Passes(r, said)
                         THEN Ended([r EXCEPT !.sql = Extract(said)], "done")
                         ELSE Ended(r, "blocked")
    BY <1>7 DEF AnswerSql
  <2> DEFINE r == [request EXCEPT !.answer = said]
  <2>2. /\ r.sql = request.sql /\ r.function = request.function /\ r.schema = request.schema
        /\ request'.function = request.function /\ request'.schema = request.schema
    BY <1>1, <2>1 DEF Ended, Requests
  <2>3. CASE ~ Passes(r, said)
    <3>1. request'.sql = request.sql
      BY <1>1, <2>1, <2>3 DEF Ended, Requests
    <3>2. QED
      BY <1>2, <2>2, <3>1
  <2>4. CASE Passes(r, said)
    <3>1. request'.sql = Extract(said)
      BY <1>1, <2>1, <2>4 DEF Ended, Requests
    <3>2. Enforced(said) /\ (r.function = "repair" => Approved(Extract(said), r.schema))
      BY <2>4 DEF Passes
    <3>3. QED
      BY <2>2, <3>1, <3>2 DEF SqlChecked
  <2>5. QED
    BY <2>3, <2>4
<1>8. CASE UNCHANGED request
  BY <1>8 DEF SqlChecked
<1>9. QED
  BY <1>3, <1>4, <1>5, <1>6, <1>7, <1>8 DEF Next, RequestStep, vars

\* What a call blocked is an answer that does not pass the checks.
BlockedChecked ==
  request.function = "generate" /\ request.outcome = "blocked" =>
    request.answer \in Answers /\ ~ Enforced(request.answer)

LEMMA BlockedInitially == Init => BlockedChecked
BY DEF Init, None, BlockedChecked

LEMMA BlockedKept ==
  ASSUME IndInv, BlockedChecked, [Next]_vars
  PROVE  BlockedChecked'
<1>1. request \in Requests
  BY DEF IndInv, RequestInv
<1>2. CASE Text \/ Generate \/ Repair
  <2>1. request'.outcome = "none"
    BY <1>2 DEF Text, Generate, Repair, Ask, None
  <2>2. QED
    BY <2>1 DEF BlockedChecked
<1>3. CASE Send \/ Cancel
  <2>1. /\ request'.outcome = request.outcome /\ request'.function = request.function
        /\ request'.answer = request.answer
    BY <1>1, <1>3 DEF Send, Cancel, Requests
  <2>2. QED
    BY <2>1 DEF BlockedChecked
<1>4. CASE Check \/ Unanswered \/ OddUsage \/ AnswerText
  <2>1. \/ request'.outcome # "blocked"
        \/ /\ request'.outcome = request.outcome /\ request'.function = request.function
           /\ request'.answer = request.answer
    BY <1>1, <1>4
       DEF Check, Unanswered, OddUsage, AnswerText, AfterFailure, Counted, Ended, Requests, None
  <2>2. QED
    BY <2>1 DEF BlockedChecked
<1>5. CASE AnswerSql
  <2>1. PICK said \in Answers :
          LET r == [request EXCEPT !.answer = said]
          IN  request' = IF Passes(r, said)
                         THEN Ended([r EXCEPT !.sql = Extract(said)], "done")
                         ELSE Ended(r, "blocked")
    BY <1>5 DEF AnswerSql
  <2> DEFINE r == [request EXCEPT !.answer = said]
  <2>2. CASE Passes(r, said)
    <3>1. request'.outcome = "done"
      BY <1>1, <2>1, <2>2 DEF Ended, Requests
    <3>2. QED
      BY <3>1 DEF BlockedChecked
  <2>3. CASE ~ Passes(r, said)
    <3>1. request'.answer = said /\ request'.function = r.function
      BY <1>1, <2>1, <2>3 DEF Ended, Requests
    <3>2. r.function = "generate" => ~ Enforced(said)
      BY <2>3 DEF Passes
    <3>3. QED
      BY <3>1, <3>2 DEF BlockedChecked
  <2>4. QED
    BY <2>2, <2>3
<1>6. CASE UNCHANGED request
  BY <1>6 DEF BlockedChecked
<1>7. QED
  BY <1>2, <1>3, <1>4, <1>5, <1>6 DEF Next, RequestStep, vars
------------------------------------------------------------------------------
(***************************************************************************)
(* The theorems.                                                           *)
(***************************************************************************)
LEMMA Initially == Init => IndInv
<1> SUFFICES ASSUME Init PROVE IndInv
  OBVIOUS
<1>1. StoreInv
  BY StoreStarts DEF Init
<1>2. RequestInv
  <2>1. /\ request \in Requests /\ MaxAttempts \in Nat /\ MaxAttempts > 0
        /\ request = None
    BY NoRequest DEF Init
  <2>2. /\ request.at = "none" /\ request.function = "none" /\ request.outcome = "none"
        /\ ~ request.cancelled /\ request.sent = 0 /\ request.late = 0 /\ request.retries = 0
    BY <2>1 DEF None
  <2>3. QED
    BY <2>1, <2>2 DEF RequestInv, TextCounts, SqlCounts, LateOnce, TelemetryAddsUp
<1>3. QED
  BY <1>1, <1>2 DEF IndInv

\* The store and the request have no variable in common.
LEMMA EveryStepKeeps == IndInv /\ [Next]_vars => IndInv'
<1> SUFFICES ASSUME IndInv, [Next]_vars PROVE IndInv'
  OBVIOUS
<1>1. StoreNext \/ UNCHANGED storeVars
  BY DEF Next, vars, Text, Generate, Repair, Ask, Cancel, RequestStep, Check, Send, Unanswered,
         OddUsage, AnswerText, AnswerSql
<1>2. StoreInv'
  BY <1>1, StoreKeeps DEF IndInv
<1>3. CASE UNCHANGED request
  BY <1>2, <1>3 DEF IndInv, RequestInv, TextCounts, SqlCounts, LateOnce, TelemetryAddsUp
<1>4. CASE Text \/ Generate \/ Repair \/ Cancel \/ RequestStep
  BY <1>2, <1>4, RequestKeeps DEF IndInv
<1>5. QED
  BY <1>2, <1>3, <1>4 DEF Next, vars, IndInv

\* The inductive invariant of the store and of the request.
THEOREM Invariant == Spec => []IndInv
BY Initially, EveryStepKeeps, PTL DEF Spec

\* The counters of an AiUsageTelemetry are those of the requests that were sent,
\* for any number of attempts, and all variables have their types.
THEOREM TelemetryIsTrue == Spec => []CountersAgree
<1>1. IndInv => CountersAgree
  <2> SUFFICES ASSUME IndInv PROVE CountersAgree
    OBVIOUS
  <2>1. StoreTypeOK
    <3>1. \A c \in {file, temp} : c.state \in {"missing", "empty", "torn", "whole"}
                                  /\ c.profiles \in [Names -> 0 .. MaxChanges]
      BY DEF IndInv, StoreInv, StoreTypes, Contents, Profiles
    <3>2. \A h \in Handles :
            /\ handles[h].at \in {"idle", "saving", "opened", "written", "deleting", "truncated"}
            /\ handles[h].new \in [Names -> 0 .. MaxChanges]
            /\ handles[h].changed \subseteq Names
            /\ handles[h].fd \in {"none", "temp", "file", "gone"}
      BY DEF IndInv, StoreInv, StoreTypes, Changing, Profiles
    <3>3. QED
      BY <3>1, <3>2 DEF IndInv, StoreInv, StoreTypes, StoreTypeOK, Profiles
  <2>2. request \in Requests /\ request.sent <= MaxAttempts
    BY NoRequest DEF IndInv, RequestInv, Requests
  <2>3. DOMAIN request = DOMAIN None
    BY <2>2 DEF Requests, None
  <2>4. request.retries < MaxAttempts
    BY <2>2, NoRequest DEF IndInv, RequestInv, TextCounts, SqlCounts
  <2>5. TypeOK
    BY <2>1, <2>2, <2>3, <2>4 DEF TypeOK, IndInv, RequestInv, Requests
  <2>6. QED
    BY <2>5 DEF CountersAgree, IndInv, RequestInv
<1>2. QED
  BY <1>1, Invariant, PTL

\* Once a request is cancelled, at most one more is sent, for any number of
\* attempts.
THEOREM CancelledSoon == Spec => []OneLateRequest
<1>1. IndInv => OneLateRequest
  BY DEF IndInv, RequestInv, LateOnce, OneLateRequest
<1>2. QED
  BY <1>1, Invariant, PTL

\* The store has what the changes left there that ended, for any number of
\* handles and of profiles, as long as changes do not overlap and no process that
\* deletes is killed.
THEOREM StoreIsAsSaved == Spec => []AsSaved
<1>1. IndInv => AsSaved
  BY DEF IndInv, StoreInv, Orderly, FileIsKept, AsSaved
<1>2. QED
  BY <1>1, Invariant, PTL

LEMMA SqlIsChecked == Spec => []SqlChecked
BY SqlCheckedInitially, SqlCheckedKept, Invariant, PTL DEF Spec

\* SQL that is handed back begins a query, has no second statement and takes no
\* locks, in whatever text it was found, for all answers.
THEOREM HandsBackReads == Spec => []OnlyReads
<1>1. SqlChecked => OnlyReads
  <2> SUFFICES ASSUME SqlChecked, request.sql # <<>> PROVE OnlyReads
    BY DEF OnlyReads
  <2> DEFINE sql == request.sql
             at  == Visible(sql, OracleModes(sql))
  <2>1. PICK said \in Answers : sql = Extract(said) /\ Enforced(said)
    BY DEF SqlChecked
  <2>2. sql \in Texts
    BY <2>1, ExtractedText, AssistantAssumption DEF Texts
  <2>3. ReadOnly(sql) /\ ~ Several(sql)
    BY <2>1 DEF Enforced
  <2>4. at \in SUBSET (1 .. Len(sql)) /\ Len(sql) \in Nat
    BY <2>2, Lengths DEF Visible
  <2>5. WordsOf(sql) = {i \in at : sql[i] \in Words}
    BY DEF WordsOf, Masked
  <2> HIDE DEF at
  <2>6. /\ Min(WordsOf(sql)) \in WordsOf(sql)
        /\ \A i \in WordsOf(sql) : Min(WordsOf(sql)) <= i
    BY <2>3, <2>4, <2>5, FirstAndLast DEF ReadOnly
  <2>7. \E i \in at : sql[i] = "select" /\ \A j \in at : sql[j] \in Words => i <= j
    BY <2>3, <2>5, <2>6 DEF ReadOnly
  <2>8. \A i \in at : sql[i] # "lock"
    <3>1. "lock" \in Words
      BY DEF Words, Clauses
    <3>2. QED
      BY <2>3, <2>5, <3>1 DEF ReadOnly
  <2>9. \A i, j \in at : sql[i] = "semicolon" => j <= i
    <3>1. \A i, j \in at : ~ (sql[i] = "semicolon" /\ i < j)
      BY <2>3 DEF Several, Masked, at
    <3>2. QED
      BY <2>4, <3>1
  <2>10. QED
    BY <2>7, <2>8, <2>9 DEF OnlyReads, at
<1>2. QED
  BY <1>1, SqlIsChecked, PTL

LEMMA BlockedIsChecked == Spec => []BlockedChecked
BY BlockedInitially, BlockedKept, Invariant, PTL DEF Spec

\* A query that is all of an answer, or its only code block, takes no locks and has a
\* word, outside brackets and quotes, after the last one that a clause begins with, is
\* not blocked: with whatever comments and literals it comes, the extraction finds it,
\* the classifier sees a query and the planner accepts it, for all answers.
THEOREM QueriesGetThrough == Spec => []QueriesPass
<1>1. BlockedChecked => QueriesPass
  <2> SUFFICES ASSUME BlockedChecked,
                      request.function = "generate", request.outcome = "blocked",
                      NEW b \in Candidates(request.answer), Candidates(request.answer) = {b},
                      NEW query, query = Inside(request.answer, b),
                      IsQuery(Intended(query)), ~ NestsComments(query),
                      ~ EndsInClause(Intended(query)),
                      Min(Sees(query)) \in Starts(query),
                      \A i \in Starts(query) : Min(Sees(query)) <= i,
                      \A i \in Sees(query) : query[i] # "lock"
               PROVE  FALSE
    BY DEF QueriesPass, Sees
  <2>1. request.answer \in Texts /\ ~ Enforced(request.answer)
    BY AssistantAssumption DEF BlockedChecked, Texts
  <2>2. Enforced(request.answer)
    BY <2>1, AnswersPass
  <2>3. QED
    BY <2>1, <2>2
<1>2. QED
  BY <1>1, BlockedIsChecked, PTL

\* The checks of an answer are sound and, for queries, complete: what is handed back
\* only reads, and what is blocked is no such query, for all answers.
THEOREM AnswersAreChecked == Spec => []ChecksAnswers
BY HandsBackReads, QueriesGetThrough, PTL DEF ChecksAnswers

\* The tables that a repaired query has as plain names after FROM or JOIN are approved,
\* for all answers, originals and sets of tables.  For those after a comma and for
\* quoted names, which the scan does not look for, it does not follow.
THEOREM RepairsReadApproved == Spec => []RepairsAreApproved
<1>1. SqlChecked => RepairsAreApproved
  <2> SUFFICES ASSUME SqlChecked, request.function = "repair", request.sql # <<>>,
                      ~ QuotesInLiteral(request.sql)
               PROVE  TablesOf(request.sql) \ Unlooked \subseteq request.schema
    BY DEF RepairsAreApproved
  <2>1. PICK said \in Answers : request.sql = Extract(said)
    BY DEF SqlChecked
  <2>2. request.sql \in Texts
    BY <2>1, ExtractedText, AssistantAssumption DEF Texts
  <2>3. ReferencedTables(request.sql) \subseteq request.schema
    BY DEF SqlChecked, Approved
  <2>4. QED
    BY <2>2, <2>3, TablesFound
<1>2. QED
  BY <1>1, SqlIsChecked, PTL
------------------------------------------------------------------------------
(***************************************************************************)
(* Why a request ends.                                                     *)
(***************************************************************************)
\* The steps that a request has left, at most: three for each attempt.
StepsLeft(r) ==
  3 * (MaxAttempts - r.sent)
    + CASE r.at = "sending"  -> 3
        [] r.at = "starting" -> 2
        [] r.at = "checked"  -> 1
        [] OTHER             -> 0

\* Every step of generate_ai_text_resilient, generate_oracle_sql or
\* repair_oracle_sql ends the request or brings it nearer to its end, and who
\* cancels it, or changes the store, does not set it back.
NearerToTheEnd ==
  [][Running => LET left == StepsLeft(request')
                IN  IF RequestStep
                    THEN request'.at = "ended" \/ left \in 0 .. StepsLeft(request) - 1
                    ELSE left = StepsLeft(request)]_vars

\* A failure is the end, or the attempts made are as many as before it.
LEMMA FailureGoesOn ==
  ASSUME NEW r \in Requests, request' = AfterFailure(r)
  PROVE  \/ request'.at = "ended"
         \/ request'.at = "starting" /\ request'.sent = r.sent
<1> DEFINE failed == [r EXCEPT !.failures = @ + 1]
           again  == [failed EXCEPT !.retries = @ + 1]
<1>1. CASE r.function # "text"
  <2>1. request' = Ended(r, "failed")
    BY <1>1 DEF AfterFailure
  <2>2. QED
    BY <2>1 DEF Ended, Requests
<1>2. CASE r.function = "text" /\ r.sent = MaxAttempts
  <2>1. request' = Ended(failed, "failed")
    BY <1>2 DEF AfterFailure
  <2>2. QED
    BY <2>1 DEF Ended, Requests
<1>3. CASE r.function = "text" /\ r.sent # MaxAttempts /\ r.cancelled
  <2>1. request' = Ended(again, "cancelled")
    BY <1>3 DEF AfterFailure
  <2>2. QED
    BY <2>1 DEF Ended, Requests
<1>4. CASE r.function = "text" /\ r.sent # MaxAttempts /\ ~ r.cancelled
  <2>1. request' = [again EXCEPT !.at = "starting"]
    BY <1>4 DEF AfterFailure
  <2>2. QED
    BY <2>1 DEF Requests
<1>5. QED
  BY <1>1, <1>2, <1>3, <1>4

\* A request has at most three steps for each attempt, and two more, whatever is
\* answered; with the fairness of RequestStep, which is not reasoned about here,
\* EveryRequestEnds follows.
THEOREM RequestsDescend == Spec => NearerToTheEnd
<1> DEFINE Nearer == request'.at = "ended" \/ StepsLeft(request') \in 0 .. StepsLeft(request) - 1
<1>1. ASSUME IndInv, RequestStep PROVE Nearer
  <2>1. /\ request \in Requests /\ MaxAttempts \in Nat
        /\ request.sent \in 0 .. MaxAttempts
    BY <1>1, NoRequest DEF IndInv, RequestInv, Requests
  <2>2. CASE Check
    <3>1. \/ request'.at = "ended"
          \/ request'.at = "checked" /\ request'.sent = request.sent
      BY <2>1, <2>2 DEF Check, Ended, Requests
    <3>2. request.at = "starting"
      BY <2>2 DEF Check
    <3>3. QED
      BY <2>1, <3>1, <3>2 DEF StepsLeft
  <2>3. CASE Send
    <3>1. request'.at = "sending" /\ request'.sent = request.sent + 1
      BY <2>1, <2>3 DEF Send, Requests
    <3>2. request.at = "checked" /\ request.sent < MaxAttempts
      <4>1. TextCounts(request) /\ SqlCounts(request) /\ request.at = "checked"
        BY <1>1, <2>3 DEF Send, IndInv, RequestInv
      <4>2. QED
        BY <2>1, <4>1, NoRequest DEF TextCounts, SqlCounts
    <3>3. QED
      BY <2>1, <3>1, <3>2 DEF StepsLeft
  <2>4. CASE Unanswered \/ OddUsage
    <3>1. \/ request'.at = "ended"
          \/ request'.at = "starting" /\ request'.sent = request.sent
      <4>1. CASE Unanswered
        BY <2>1, <4>1, FailureGoesOn DEF Unanswered
      <4>2. CASE OddUsage
        <5>1. Counted(request) \in Requests /\ Counted(request).sent = request.sent
          BY <2>1 DEF Counted, Requests
        <5>2. QED
          BY <4>2, <5>1, FailureGoesOn DEF OddUsage
      <4>3. QED
        BY <2>4, <4>1, <4>2
    <3>2. request.at = "sending"
      BY <2>4 DEF Unanswered, OddUsage
    <3>3. QED
      BY <2>1, <3>1, <3>2 DEF StepsLeft
  <2>5. CASE AnswerText \/ AnswerSql
    <3>1. request'.at = "ended"
      <4>1. CASE AnswerText
        BY <2>1, <4>1 DEF AnswerText, Counted, Ended, Requests
      <4>2. CASE AnswerSql
        <5>1. PICK r : /\ \E said \in Answers : r = [request EXCEPT !.answer = said]
                       /\ \E sql, outcome : \/ request' = Ended([r EXCEPT !.sql = sql], outcome)
                                            \/ request' = Ended(r, outcome)
          BY <4>2 DEF AnswerSql
        <5>2. QED
          BY <2>1, <5>1 DEF Ended, Requests
      <4>3. QED
        BY <2>5, <4>1, <4>2
    <3>2. QED
      BY <3>1
  <2>6. QED
    BY <1>1, <2>2, <2>3, <2>4, <2>5 DEF RequestStep
<1>2. ASSUME IndInv, [Next]_vars, Running, ~ RequestStep
      PROVE  StepsLeft(request') = StepsLeft(request)
  <2>1. CASE Cancel
    <3>1. request'.at = request.at /\ request'.sent = request.sent
      BY <1>2, <2>1 DEF Cancel, IndInv, RequestInv, Requests
    <3>2. QED
      BY <3>1 DEF StepsLeft
  <2>2. CASE UNCHANGED request
    BY <2>2
  <2>3. QED
    BY <1>2, <2>1, <2>2 DEF Next, vars, Text, Generate, Repair, Ask
<1>3. IndInv /\ [Next]_vars =>
        [Running => LET left == StepsLeft(request')
                    IN  IF RequestStep
                        THEN request'.at = "ended" \/ left \in 0 .. StepsLeft(request) - 1
                        ELSE left = StepsLeft(request)]_vars
  BY <1>1, <1>2
<1>4. QED
  BY <1>3, Invariant, PTL DEF Spec, NearerToTheEnd
==============================================================================
