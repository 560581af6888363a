--------------------------- MODULE PartExtraction ---------------------------
(***************************************************************************)
(* The resumable part-file extraction of querysaas.parallel_parts:         *)
(* copy_fusion_query_to_parts splits the rows 0 .. planned-1 of an Oracle  *)
(* Fusion query into pages, fetches the pages in a thread pool, writes     *)
(* each one to a part file of a hidden work directory, records it in a     *)
(* checkpoint, and when the parts hold the planned number of rows copies   *)
(* them to a publish directory and swaps that in for the destination.      *)
(*                                                                         *)
(* One process runs at a time.  It may crash at any step and be started    *)
(* again, with resume=True or resume=False; the data it extracts may change*)
(* between any two pages.                                                  *)
(*                                                                         *)
(* A part is the pair <<offset, limit>> its file is named after.  What a   *)
(* part file holds is the version of the source its page was read from:    *)
(* part and version determine the rows, the columns and so the SHA-256.    *)
(***************************************************************************)
EXTENDS Integers, Sequences, FiniteSets, FiniteSetsExt

CONSTANTS
  MaxRows,            \* max_rows; a bound on the rows of the query
  ChunkSizes,         \* the chunk sizes a run may be called with
  MinChunk,           \* minimum_chunk_size
  MaxPending,         \* max_pending_pages
  SplitFailedPages,   \* split_failed_pages
  ExternalCheckpoint, \* checkpoint_file is outside the work directory
  Versions,           \* the versions of the source data
  RowsAt,             \* the number of rows the query has in each version
  SchemaAt,           \* the columns the query has in each version
  MaxFaults,          \* bound: crashes, I/O failures and failed pages
  Missing,            \* no such directory
  Partial,            \* a directory that is being built or removed
  NoCheckpoint,       \* no such file
  NoPart

ASSUME PartAssumption ==
  /\ MaxRows \in Nat
  /\ ChunkSizes \subseteq Nat \ {0}
  /\ MinChunk \in Nat \ {0}
  /\ MaxPending \in Nat \ {0}
  /\ SplitFailedPages \in BOOLEAN
  /\ ExternalCheckpoint \in BOOLEAN
  /\ RowsAt \in [Versions -> Nat]
  /\ DOMAIN SchemaAt = Versions
  /\ MaxFaults \in Nat

(***************************************************************************)
(* Parts, the rows they stand for and the rows a version has for them.     *)
(***************************************************************************)
Parts == {p \in (0 .. MaxRows) \X (1 .. MaxRows) : p[1] + p[2] <= MaxRows}

Span(p) == p[1] .. (p[1] + p[2] - 1)

Smaller(a, b) == IF a <= b THEN a ELSE b

\* A page beyond the end of the data is short, or empty.
PageRows(v, p) ==
  IF RowsAt[v] <= p[1] THEN 0 ELSE Smaller(p[2], RowsAt[v] - p[1])

\* An empty result is a DataFrame without columns.
NoColumns == "no columns"

PageColumns(v, p) == IF PageRows(v, p) = 0 THEN NoColumns ELSE SchemaAt[v]

Absent   == "absent"     \* no such file, item or row of a table below
Torn     == "torn"       \* a part file whose writing was interrupted
Idle     == "idle"       \* no page of this part is pending
InFlight == "in flight"  \* the page is submitted and unanswered
Payload  == "payload"    \* it failed with a truncated or invalid payload
Failed   == "failed"     \* it failed otherwise
Unset    == "unset"

ASSUME VersionAssumption ==
  /\ Versions \cap {Absent, Torn, Idle, InFlight, Payload, Failed} = {}
  /\ \A v \in Versions : SchemaAt[v] # Unset

Items == [Parts -> Versions \cup {Absent}]

NoItems == [p \in Parts |-> Absent]

Listed(items) == {p \in Parts : items[p] # Absent}

RowTotal(items) == MapThenSumSet(LAMBDA p : PageRows(items[p], p), Listed(items))

\* A published directory: its manifest's planned_rows and its part files.
Datasets == [planned : 0 .. MaxRows, parts : [Parts -> Versions \cup {Absent, Torn}]]

Directories == Datasets \cup {Missing, Partial}

Checkpoints == [planned : 0 .. MaxRows, completed : Items]

ASSUME AbsenceAssumption ==
  /\ Missing # Partial
  /\ {Missing, Partial} \cap Datasets = {}
  /\ NoCheckpoint \notin Checkpoints
  /\ NoPart \notin Parts

VARIABLES
  ver,        \* the version of the source data that pages read now
  pc,         \* where the run is, "idle" when none is in progress
  planned,    \* plan.planned_rows
  tasks,      \* the deque of pages to submit
  page,       \* the submitted pages and what became of them
  batch,      \* the finished pages the scheduler has taken from wait()
  cur,        \* the part whose file is being written
  completed,  \* the items the run holds as completed
  expected,   \* the columns of the first completed page
  files,      \* the part files in the work directory
  ckpt,       \* the checkpoint file
  publish,    \* the publish directory
  output,     \* the destination directory
  old,        \* the previous dataset, moved out of the way
  faults      \* crashes and failures so far

runVars  == <<planned, tasks, page, batch, cur, completed, expected>>
workVars == <<files, ckpt>>
dirVars  == <<publish, output, old>>
vars     == <<ver, pc, runVars, workVars, dirVars, faults>>

Phases == {"idle", "discard", "loop", "write", "publish", "copy", "swap",
           "aside", "install", "cleanup", "done"}

TypeOK ==
  /\ ver \in Versions
  /\ pc \in Phases
  /\ planned \in 0 .. MaxRows
  /\ tasks \in Seq(Parts)
  /\ page \in [Parts -> Versions \cup {Idle, InFlight, Payload, Failed}]
  /\ batch \subseteq Parts
  /\ cur \in Parts \cup {NoPart}
  /\ completed \in Items
  /\ files \in [Parts -> Versions \cup {Absent, Torn}]
  /\ ckpt \in Checkpoints \cup {NoCheckpoint}
  /\ publish \in Directories
  /\ output \in Directories
  /\ old \in Directories
  /\ faults \in 0 .. MaxFaults

Init ==
  /\ ver \in Versions
  /\ pc = "idle"
  /\ planned = 0
  /\ tasks = <<>>
  /\ page = [p \in Parts |-> Idle]
  /\ batch = {}
  /\ cur = NoPart
  /\ completed = NoItems
  /\ expected = Unset
  /\ files = [p \in Parts |-> Absent]
  /\ ckpt = NoCheckpoint
  /\ publish = Missing
  /\ output = Missing
  /\ old = Missing
  /\ faults = 0
------------------------------------------------------------------------------
(***************************************************************************)
(* Planning: the chunks the completed items leave to fetch.                *)
(***************************************************************************)
Planned == Smaller(RowsAt[ver], MaxRows)

Chunks(n, c) ==
  {p \in Parts : /\ p[1] < n
                 /\ p[1] % c = 0
                 /\ p[2] = Smaller(c, n - p[1])}

Covered(items, p) == \A r \in Span(p) : \E q \in Listed(items) : r \in Span(q)

\* The set U as the queue of its parts, by offset.
OffsetOrder(U) ==
  {q \in [1 .. Cardinality(U) -> U] :
     /\ U = {q[i] : i \in DOMAIN q}
     /\ \A i, j \in DOMAIN q : i < j => q[i][1] < q[j][1]}

SaveCheckpoint(n, items) == ckpt' = [planned |-> n, completed |-> items]

\* The scheduler starts with the items in hand and the chunks they leave.
BeginLoop(n, c, items) ==
  /\ planned' = n
  /\ completed' = items
  /\ \/ /\ Listed(items) = {}
        /\ expected' = Unset
     \/ \E p \in Listed(items) :
          /\ \A q \in Listed(items) : p[1] <= q[1]
          /\ expected' = PageColumns(items[p], p)
  /\ tasks' \in OffsetOrder({p \in Chunks(n, c) : ~ Covered(items, p)})
  /\ SaveCheckpoint(n, items)
  /\ pc' = "loop"

\* (Mutant: the file is there, and its hash is not looked at.)
Intact_AnyFile ==
  [p \in Parts |-> IF files[p] # Absent THEN ckpt.completed[p] ELSE Absent]

\* The items of the checkpoint whose file is there with the recorded hash.
Intact == [p \in Parts |-> IF files[p] = ckpt.completed[p] THEN files[p] ELSE Absent]

\* resume=True.  A checkpoint of another planned_rows is refused: nothing
\* changes then.
StartResume ==
  /\ pc = "idle"
  /\ ckpt # NoCheckpoint => ckpt.planned = Planned
  /\ \E c \in ChunkSizes :
       BeginLoop(Planned, c, IF ckpt = NoCheckpoint THEN NoItems ELSE Intact)
  /\ UNCHANGED <<ver, page, batch, cur, files, dirVars, faults>>

\* resume=False: a work directory with a checkpoint is removed first.
StartFresh ==
  /\ pc = "idle"
  /\ IF ckpt = NoCheckpoint
     THEN /\ \E c \in ChunkSizes : BeginLoop(Planned, c, NoItems)
          /\ UNCHANGED <<ver, page, batch, cur, files, dirVars, faults>>
     ELSE /\ pc' = "discard"
          /\ planned' = Planned
          /\ UNCHANGED <<ver, tasks, page, batch, cur, completed, expected,
                         workVars, dirVars, faults>>

\* shutil.rmtree(work) removes an entry: a part file ...
RemovePartFile(p) ==
  /\ pc \in {"discard", "done"}
  /\ files[p] # Absent
  /\ files' = [files EXCEPT ![p] = Absent]
  /\ UNCHANGED <<ver, pc, runVars, ckpt, dirVars, faults>>

\* ... or the checkpoint, if it is kept there.
RemoveCheckpoint ==
  /\ pc \in {"discard", "done"}
  /\ ~ ExternalCheckpoint
  /\ ckpt # NoCheckpoint
  /\ ckpt' = NoCheckpoint
  /\ UNCHANGED <<ver, pc, runVars, files, dirVars, faults>>

Discarded ==
  /\ pc = "discard"
  /\ \A p \in Parts : files[p] = Absent
  /\ ExternalCheckpoint \/ ckpt = NoCheckpoint
  /\ \E c \in ChunkSizes : BeginLoop(planned, c, NoItems)
  /\ UNCHANGED <<ver, page, batch, cur, files, dirVars, faults>>
------------------------------------------------------------------------------
(***************************************************************************)
(* The scheduler loop and the page workers.  Any submitted page may be     *)
(* answered next: the size of the pool bounds only how many are at work.   *)
(***************************************************************************)
Pending == {p \in Parts : page[p] # Idle}

Submit ==
  /\ pc = "loop"
  /\ batch = {}
  /\ tasks # <<>>
  /\ Cardinality(Pending) < MaxPending
  /\ tasks' = Tail(tasks)
  /\ page' = [page EXCEPT ![Head(tasks)] = InFlight]
  /\ UNCHANGED <<ver, pc, planned, batch, cur, completed, expected,
                 workVars, dirVars, faults>>

\* A worker answers a page: with the rows of the moment, or with a failure
\* its retries did not cure.
AnswerPage(p) ==
  /\ page[p] = InFlight
  /\ \/ /\ page' = [page EXCEPT ![p] = ver]
        /\ UNCHANGED faults
     \/ /\ page' = [page EXCEPT ![p] = Payload]
        /\ UNCHANGED faults
     \/ /\ faults < MaxFaults
        /\ page' = [page EXCEPT ![p] = Failed]
        /\ faults' = faults + 1
  /\ UNCHANGED <<ver, pc, planned, tasks, batch, cur, completed, expected,
                 workVars, dirVars>>

Finished == {p \in Parts : page[p] \notin {Idle, InFlight}}

\* wait(..., FIRST_COMPLETED), reached with the queue empty or the pending
\* pages at their limit.
Wait ==
  /\ pc = "loop"
  /\ batch = {}
  /\ tasks = <<>> \/ Cardinality(Pending) >= MaxPending
  /\ Finished # {}
  /\ batch' = Finished
  /\ UNCHANGED <<ver, pc, planned, tasks, page, cur, completed, expected,
                 workVars, dirVars, faults>>

\* A run ends with an exception: the pool is shut down, the answers of the
\* pages still pending are lost, and the checkpoint is saved.
Raise ==
  /\ pc' = "idle"
  /\ planned' = 0
  /\ tasks' = <<>>
  /\ page' = [p \in Parts |-> Idle]
  /\ batch' = {}
  /\ cur' = NoPart
  /\ completed' = NoItems
  /\ expected' = Unset
  /\ SaveCheckpoint(planned, completed)
  /\ UNCHANGED <<ver, files, dirVars>>

Splittable(p) ==
  /\ SplitFailedPages
  /\ page[p] = Payload
  /\ p[2] > MinChunk

LeftHalf(p) ==
  LET left == IF MinChunk > p[2] \div 2 THEN MinChunk ELSE p[2] \div 2
  IN  <<p[1], left>>

RightHalf(p) == <<p[1] + LeftHalf(p)[2], p[2] - LeftHalf(p)[2]>>

\* (Mutant: only the left half is queued.)
SplitPage_LeftOnly(p) ==
  /\ pc = "loop"
  /\ p \in batch
  /\ Splittable(p)
  /\ tasks' = <<LeftHalf(p)>> \o tasks
  /\ page' = [page EXCEPT ![p] = Idle]
  /\ batch' = batch \ {p}
  /\ SaveCheckpoint(planned, completed)
  /\ UNCHANGED <<ver, pc, planned, cur, completed, expected, files, dirVars, faults>>

\* (Mutant: the page is queued again as it is.)
SplitPage_Whole(p) ==
  /\ pc = "loop"
  /\ p \in batch
  /\ Splittable(p)
  /\ tasks' = <<p>> \o tasks
  /\ page' = [page EXCEPT ![p] = Idle]
  /\ batch' = batch \ {p}
  /\ SaveCheckpoint(planned, completed)
  /\ UNCHANGED <<ver, pc, planned, cur, completed, expected, files, dirVars, faults>>

SplitPage(p) ==
  /\ pc = "loop"
  /\ p \in batch
  /\ Splittable(p)
  /\ tasks' = <<LeftHalf(p), RightHalf(p)>> \o tasks
  /\ page' = [page EXCEPT ![p] = Idle]
  /\ batch' = batch \ {p}
  /\ SaveCheckpoint(planned, completed)
  /\ UNCHANGED <<ver, pc, planned, cur, completed, expected, files, dirVars, faults>>

\* (Mutant: only the first page is looked at.)
SchemaChanged_Never(p) == FALSE

SchemaChanged(p) ==
  /\ expected # Unset
  /\ PageColumns(page[p], p) # expected

\* A page that failed for good or that has other columns ends the run.
RejectPage(p) ==
  /\ pc = "loop"
  /\ p \in batch
  /\ \/ page[p] \in {Payload, Failed} /\ ~ Splittable(p)
     \/ page[p] \in Versions /\ SchemaChanged(p)
  /\ Raise
  /\ UNCHANGED faults

\* _write_part opens the part file in place ...
WritePart(p) ==
  /\ pc = "loop"
  /\ p \in batch
  /\ page[p] \in Versions
  /\ ~ SchemaChanged(p)
  /\ expected' = PageColumns(page[p], p)
  /\ files' = [files EXCEPT ![p] = Torn]
  /\ cur' = p
  /\ pc' = "write"
  /\ UNCHANGED <<ver, planned, tasks, page, batch, completed, ckpt, dirVars, faults>>

\* (Mutant: the checkpoint is not saved.)
RecordPart_Unsaved ==
  /\ pc = "write"
  /\ files' = [files EXCEPT ![cur] = page[cur]]
  /\ completed' = [completed EXCEPT ![cur] = page[cur]]
  /\ page' = [page EXCEPT ![cur] = Idle]
  /\ batch' = batch \ {cur}
  /\ cur' = NoPart
  /\ pc' = "loop"
  /\ UNCHANGED <<ver, planned, tasks, expected, ckpt, dirVars, faults>>

\* ... and when it is written the item replaces one of the same part.
RecordPart ==
  /\ pc = "write"
  /\ files' = [files EXCEPT ![cur] = page[cur]]
  /\ completed' = [completed EXCEPT ![cur] = page[cur]]
  /\ SaveCheckpoint(planned, completed')
  /\ page' = [page EXCEPT ![cur] = Idle]
  /\ batch' = batch \ {cur}
  /\ cur' = NoPart
  /\ pc' = "loop"
  /\ UNCHANGED <<ver, planned, tasks, expected, dirVars, faults>>
------------------------------------------------------------------------------
(***************************************************************************)
(* Publication.                                                            *)
(***************************************************************************)
LoopEnded ==
  /\ pc = "loop"
  /\ tasks = <<>>
  /\ Pending = {}

\* The parts hold another number of rows than planned: RuntimeError.
CountMismatch ==
  /\ LoopEnded
  /\ RowTotal(completed) # planned
  /\ Raise
  /\ UNCHANGED faults

\* (Mutant: the rows are not counted.)
CountVerified_Unchecked ==
  /\ LoopEnded
  /\ SaveCheckpoint(planned, completed)
  /\ pc' = "publish"
  /\ UNCHANGED <<ver, runVars, files, dirVars, faults>>

CountVerified ==
  /\ LoopEnded
  /\ RowTotal(completed) = planned
  /\ SaveCheckpoint(planned, completed)
  /\ pc' = "publish"
  /\ UNCHANGED <<ver, runVars, files, dirVars, faults>>

\* A publish directory that a crash left behind is removed, a new one made.
BeginPublish ==
  /\ pc = "publish"
  /\ publish' = Partial
  /\ pc' = "copy"
  /\ UNCHANGED <<ver, runVars, workVars, output, old, faults>>

CopyParts ==
  /\ pc = "copy"
  /\ publish' = [planned |-> planned,
                 parts   |-> [p \in Parts |-> IF p \in Listed(completed)
                                              THEN files[p] ELSE Absent]]
  /\ pc' = "swap"
  /\ UNCHANGED <<ver, runVars, workVars, output, old, faults>>

\* There is a dataset to replace: rmtree(old), which an error or a crash may
\* leave unfinished ...
TearOld ==
  /\ pc \in {"swap", "cleanup"}
  /\ output # Missing
  /\ old \notin {Missing, Partial}
  /\ old' = Partial
  /\ UNCHANGED <<ver, pc, runVars, workVars, publish, output, faults>>

\* (Mutant: what is set aside is removed whether or not a dataset stands in
\* its place.)
RemoveStaleOld_Always ==
  /\ pc = "swap"
  /\ old' = Missing
  /\ pc' = IF output = Missing THEN "install" ELSE "aside"
  /\ UNCHANGED <<ver, runVars, workVars, publish, output, faults>>

RemoveStaleOld ==
  /\ pc = "swap"
  /\ output # Missing
  /\ old' = Missing
  /\ pc' = "aside"
  /\ UNCHANGED <<ver, runVars, workVars, publish, output, faults>>

\* (Mutant: the dataset is removed, not moved.)
MoveAside_Removed ==
  /\ pc = "aside"
  /\ old' = Missing
  /\ output' = Missing
  /\ pc' = "install"
  /\ UNCHANGED <<ver, runVars, workVars, publish, faults>>

\* ... os.replace(output, old) ...
MoveAside ==
  /\ pc = "aside"
  /\ old' = output
  /\ output' = Missing
  /\ pc' = "install"
  /\ UNCHANGED <<ver, runVars, workVars, publish, faults>>

\* ... os.replace(publish, output) ...
InstallOver ==
  /\ pc = "install"
  /\ output' = publish
  /\ publish' = Missing
  /\ pc' = "cleanup"
  /\ UNCHANGED <<ver, runVars, workVars, old, faults>>

\* ... and rmtree(old).
RemoveOld ==
  /\ pc = "cleanup"
  /\ old' = Missing
  /\ pc' = "done"
  /\ UNCHANGED <<ver, runVars, workVars, publish, output, faults>>

\* There is nothing to replace: an old dataset lying about is left alone.
InstallNew ==
  /\ pc = "swap"
  /\ output = Missing
  /\ output' = publish
  /\ publish' = Missing
  /\ pc' = "done"
  /\ UNCHANGED <<ver, runVars, workVars, old, faults>>

\* rmtree(work, ignore_errors=True) is over, whatever it has left.
Return ==
  /\ pc = "done"
  /\ pc' = "idle"
  /\ planned' = 0
  /\ tasks' = <<>>
  /\ completed' = NoItems
  /\ expected' = Unset
  /\ UNCHANGED <<ver, page, batch, cur, workVars, dirVars, faults>>
------------------------------------------------------------------------------
(***************************************************************************)
(* The environment.                                                        *)
(***************************************************************************)
\* A file operation of the run raises.
IOFailure ==
  /\ pc \in {"loop", "write", "publish", "copy", "swap", "aside", "install", "cleanup"}
  /\ faults < MaxFaults
  /\ faults' = faults + 1
  /\ Raise

\* The process is killed: only what is on disk is left.
Crash ==
  /\ pc # "idle"
  /\ faults < MaxFaults
  /\ faults' = faults + 1
  /\ pc' = "idle"
  /\ planned' = 0
  /\ tasks' = <<>>
  /\ page' = [p \in Parts |-> Idle]
  /\ batch' = {}
  /\ cur' = NoPart
  /\ completed' = NoItems
  /\ expected' = Unset
  /\ UNCHANGED <<ver, workVars, dirVars>>

SourceChanges ==
  /\ ver' \in Versions \ {ver}
  /\ UNCHANGED <<pc, runVars, workVars, dirVars, faults>>

Fetch == \E p \in Parts : AnswerPage(p)

Schedule ==
  \/ Submit
  \/ Wait
  \/ \E p \in Parts : SplitPage(p) \/ RejectPage(p) \/ WritePart(p)
  \/ RecordPart
  \/ CountMismatch
  \/ CountVerified

Publish ==
  \/ BeginPublish
  \/ CopyParts
  \/ TearOld
  \/ RemoveStaleOld
  \/ MoveAside
  \/ InstallOver
  \/ RemoveOld
  \/ InstallNew

Remove ==
  \/ \E p \in Parts : RemovePartFile(p)
  \/ RemoveCheckpoint
  \/ Discarded
  \/ Return

Next ==
  \/ StartResume
  \/ StartFresh
  \/ Fetch
  \/ Schedule
  \/ Publish
  \/ Remove
  \/ IOFailure
  \/ Crash
  \/ SourceChanges

Spec == Init /\ [][Next]_vars

\* A run that is in progress keeps going: workers answer, for every request
\* has a timeout and a bounded number of retries, and the scheduler thread
\* waits for nothing but an answer.  Nobody has to start a run.
Fairness == WF_vars(Fetch) /\ WF_vars(Schedule \/ Publish \/ Remove)

FairSpec == Spec /\ Fairness
------------------------------------------------------------------------------
(***************************************************************************)
(* Properties.                                                             *)
(***************************************************************************)
Written(d) == {p \in Parts : d.parts[p] # Absent}

WholeFiles(d) == \A p \in Parts : d.parts[p] # Torn

EveryOffset(d) ==
  \A r \in 0 .. d.planned - 1 : \E p \in Written(d) : r \in Span(p)

OneHeader(d) ==
  \A p, q \in Written(d) : PageColumns(d.parts[p], p) = PageColumns(d.parts[q], q)

RowsAddUp(d) == RowTotal(d.parts) = d.planned

IsComplete(d) == WholeFiles(d) /\ EveryOffset(d) /\ OneHeader(d) /\ RowsAddUp(d)

Complete == {d \in Datasets : IsComplete(d)}

\* What stands at the destination is complete: no torn part file was taken
\* for a finished one on resume, no offset of the plan was lost in a split, a
\* crash or a batch of answers, all parts have the same columns, and they
\* have as many rows as the manifest says (lines 99-107, 131-158).
PublishedComplete == output # Missing => IsComplete(output)

\* Every offset of the plan is in a completed part, in a pending page or in a
\* page still to be submitted, at every moment of the scheduler loop.
Holding(r) ==
  \/ \E p \in Listed(completed) : r \in Span(p)
  \/ \E p \in Pending : r \in Span(p)
  \/ \E i \in DOMAIN tasks : r \in Span(tasks[i])

NoOffsetDropped ==
  pc \in {"loop", "write"} => \A r \in 0 .. planned - 1 : Holding(r)

\* Whenever a run is stopped, by an exception or by a crash, what it had
\* completed can be resumed: the checkpoint lists it and its file is whole,
\* except for the part whose file is being rewritten (lines 149-151, 169).
Resumable ==
  pc \notin {"idle", "discard", "done"} =>
    /\ ckpt # NoCheckpoint
    /\ ckpt.planned = planned
    /\ \A p \in Listed(completed) :
         /\ ckpt.completed[p] = completed[p]
         /\ p # cur => files[p] = completed[p]

\* When the source does not change, a published dataset holds every row of the
\* plan exactly once.  Parts may overlap in the work directory: it is the row
\* count of line 156 that keeps them from being published.
ExactlyOnce ==
  output # Missing =>
    /\ EveryOffset(output)
    /\ \A p, q \in Written(output) : p # q => Span(p) \cap Span(q) = {}

\* Once a complete dataset has been published there is always one on disk,
\* at the destination or set aside, also when the process is killed between
\* the two renames of lines 164 and 165.
OnDisk == output # Missing \/ old \notin {Missing, Partial}

DatasetSurvives == [][OnDisk => OnDisk']_vars

\* The directories behave as PartDataset promises: a dataset leaves the destination
\* only when its replacement is complete beside it, and is kept until that is in
\* its place (lines 159-166).  The destination may stay empty in between.
Dataset == INSTANCE PartDataset WITH dest <- output, ready <- publish, aside <- old

ImplementsPartDataset == Dataset!Spec

\* A run that is started ends: splitting stops at minimum_chunk_size, and the
\* bounded queue of pending pages does not come to a standstill.
EveryRunEnds == (pc # "idle") ~> (pc = "idle")

\* The module's own description, line 1: "Resumable exact-offset parallel part
\* extraction".  With a source that does not change and every page answered,
\* the completed parts hold the planned number of rows.
ExactOffsetResume == LoopEnded => RowTotal(completed) = planned

------------------------------------------------------------------------------
(***************************************************************************)
(* The inductive invariant of the proofs.                                  *)
(***************************************************************************)
CurrentPart ==
  /\ pc = "write" => /\ cur \in batch
                     /\ page[cur] \in Versions
                     /\ PageColumns(page[cur], cur) = expected
  /\ pc # "write" => cur = NoPart

\* All items at hand have the columns the scheduler compares pages with.
ColumnsAgree ==
  /\ pc \notin {"idle", "discard"} =>
       \A p \in Listed(completed) : PageColumns(completed[p], p) = expected
  /\ ckpt # NoCheckpoint =>
       \A p, q \in Listed(ckpt.completed) :
         PageColumns(ckpt.completed[p], p) = PageColumns(ckpt.completed[q], q)

\* What the loop hands over to publication.
Accepted ==
  pc \in {"publish", "copy"} =>
    /\ RowTotal(completed) = planned
    /\ \A r \in 0 .. planned - 1 : \E p \in Listed(completed) : r \in Span(p)

\* The directories, along the steps of the swap.
DirectoriesSound ==
  /\ pc \in {"swap", "aside", "install"} => publish \in Complete
  /\ output # Missing => output \in Complete
  /\ old \notin {Missing, Partial} => old \in Complete
  /\ pc = "aside" => output # Missing /\ old = Missing
  /\ pc = "install" => output = Missing /\ old \in Complete
  /\ pc = "cleanup" => output # Missing

IndInv ==
  /\ TypeOK
  /\ CurrentPart
  /\ NoOffsetDropped
  /\ Resumable
  /\ ColumnsAgree
  /\ Accepted
  /\ DirectoriesSound
==============================================================================
