---------------------------- MODULE OrderedExport ----------------------------
(***************************************************************************)
(* The export of a query to one delimited file by parallel pages,          *)
(* copy_fusion_to_local_parallel of querysaas.pipeline.  Pages are fetched *)
(* in a thread pool, collected as they finish, and written in the order of *)
(* their offsets to a temporary file that replaces the destination at the  *)
(* end.  Without max_rows the end of the data is found by a page with fewer*)
(* rows than it asked for.                                                 *)
(*                                                                         *)
(* Page k starts at offset StartOffset + k * ChunkSize.  The data may      *)
(* change between two pages; what a page holds is given by the version of  *)
(* the data it was read from, and so the file is the sequence of the       *)
(* versions of pages 0, 1, ... in it.                                      *)
(***************************************************************************)
EXTENDS Integers, Sequences, FiniteSets

CONSTANTS
  ChunkSize,    \* chunk_size
  StartOffset,  \* start_offset
  Limits,       \* the values of max_rows that are considered, NoLimit for none
  MaxPending,   \* max_pending_pages
  Versions,     \* the versions of the source data
  RowsAt,       \* the number of rows the query has in each version
  SchemaAt,     \* the columns the query has in each version
  MaxPages,     \* bound: pages of one run
  MaxFaults,    \* bound: crashes, I/O failures and failed pages
  NoLimit,
  NoFile

ASSUME ExportAssumption ==
  /\ ChunkSize \in Nat \ {0}
  /\ StartOffset \in Nat
  /\ Limits \subseteq (Nat \ {0}) \cup {NoLimit}
  /\ MaxPending \in Nat \ {0}
  /\ RowsAt \in [Versions -> Nat]
  /\ DOMAIN SchemaAt = Versions
  /\ MaxPages \in Nat \ {0}
  /\ MaxFaults \in Nat
  /\ NoLimit \notin Nat

\* The bound on the pages is never what ends a run.
ASSUME EnoughPages ==
  \A m \in Limits :
    IF m = NoLimit
    THEN \A v \in Versions : RowsAt[v] < StartOffset + MaxPages * ChunkSize
    ELSE m <= MaxPages * ChunkSize

Absent    == "absent"     \* not in the buffer
Idle      == "idle"       \* not pending
InFlight  == "in flight"  \* submitted and unanswered
Failed    == "failed"     \* answered with an error
Unset     == "unset"
NoColumns == "no columns"

ASSUME VersionAssumption ==
  /\ Versions \cap {Absent, Idle, InFlight, Failed} = {}
  /\ \A v \in Versions : SchemaAt[v] # Unset

Pages == 0 .. MaxPages - 1

Smaller(a, b) == IF a <= b THEN a ELSE b

Offset(k) == StartOffset + k * ChunkSize

\* (Mutant: max_rows is only looked at to submit another page.)
Limit_WholeChunks(m, k) == ChunkSize

\* The rows page k asks for when max_rows is m.
Limit(m, k) ==
  IF m = NoLimit THEN ChunkSize ELSE Smaller(ChunkSize, m - k * ChunkSize)

\* The rows it gets.
PageRows(m, v, k) ==
  IF RowsAt[v] <= Offset(k) THEN 0 ELSE Smaller(Limit(m, k), RowsAt[v] - Offset(k))

VARIABLES
  maxRows,    \* max_rows of the calls
  ver,        \* the version of the data that pages read now
  pc,         \* where the run is, "idle" when none is in progress
  next,       \* the next page to submit
  page,       \* the pending pages and what became of them
  batch,      \* the finished pages taken from wait()
  buffer,     \* pages: what has been collected and not yet written
  out,        \* the temporary file, page by page; Len(out) is the next to write
  terminal,   \* a short page has been written
  expected,   \* the columns of the first page with rows
  dest,       \* the destination file
  faults      \* crashes and failures so far

runVars == <<next, page, batch, buffer, out, terminal, expected>>
vars == <<maxRows, ver, pc, runVars, dest, faults>>

Phases == {"idle", "submit", "wait", "collect", "drain", "replace"}

TypeOK ==
  /\ maxRows \in Limits
  /\ ver \in Versions
  /\ pc \in Phases
  /\ next \in 0 .. MaxPages
  /\ page \in [Pages -> Versions \cup {Idle, InFlight, Failed}]
  /\ batch \subseteq Pages
  /\ buffer \in [Pages -> Versions \cup {Absent}]
  /\ out \in Seq(Versions)
  /\ Len(out) <= next
  /\ terminal \in BOOLEAN
  /\ dest = NoFile \/ dest \in Seq(Versions)
  /\ faults \in 0 .. MaxFaults

Clear ==
  /\ next' = 0
  /\ page' = [k \in Pages |-> Idle]
  /\ batch' = {}
  /\ buffer' = [k \in Pages |-> Absent]
  /\ out' = <<>>
  /\ terminal' = FALSE
  /\ expected' = Unset

Init ==
  /\ maxRows \in Limits
  /\ ver \in Versions
  /\ pc = "idle"
  /\ next = 0
  /\ page = [k \in Pages |-> Idle]
  /\ batch = {}
  /\ buffer = [k \in Pages |-> Absent]
  /\ out = <<>>
  /\ terminal = FALSE
  /\ expected = Unset
  /\ dest = NoFile
  /\ faults = 0
------------------------------------------------------------------------------
Pending == {k \in Pages : page[k] # Idle}

Finished == {k \in Pages : page[k] \notin {Idle, InFlight}}

Start ==
  /\ pc = "idle"
  /\ pc' = "submit"
  /\ UNCHANGED <<maxRows, ver, runVars, dest, faults>>

CanSubmit ==
  /\ ~ terminal
  /\ maxRows # NoLimit => next * ChunkSize < maxRows
  /\ next < MaxPages

\* (Mutant: the next offset is not advanced.)
SubmitOne_SameOffset ==
  /\ pc = "submit"
  /\ CanSubmit
  /\ Cardinality(Pending) < MaxPending
  /\ page' = [page EXCEPT ![next] = InFlight]
  /\ UNCHANGED <<maxRows, ver, pc, next, batch, buffer, out, terminal, expected, dest, faults>>

SubmitOne ==
  /\ pc = "submit"
  /\ CanSubmit
  /\ Cardinality(Pending) < MaxPending
  /\ page' = [page EXCEPT ![next] = InFlight]
  /\ next' = next + 1
  /\ UNCHANGED <<maxRows, ver, pc, batch, buffer, out, terminal, expected, dest, faults>>

\* (Mutant: the loop ends with the last page submitted.)
SubmitDone_PagesPending ==
  /\ pc = "submit"
  /\ ~ CanSubmit \/ Cardinality(Pending) >= MaxPending
  /\ pc' = IF ~ CanSubmit THEN "replace" ELSE "wait"
  /\ UNCHANGED <<maxRows, ver, runVars, dest, faults>>

\* Nothing more to submit for now; the loop goes on while pages are pending.
SubmitDone ==
  /\ pc = "submit"
  /\ ~ CanSubmit \/ Cardinality(Pending) >= MaxPending
  /\ pc' = IF Pending = {} THEN "replace" ELSE "wait"
  /\ UNCHANGED <<maxRows, ver, runVars, dest, faults>>

\* A worker answers, with the rows of the moment or with an error.
AnswerPage(k) ==
  /\ page[k] = InFlight
  /\ \/ /\ page' = [page EXCEPT ![k] = ver]
        /\ UNCHANGED faults
     \/ /\ faults < MaxFaults
        /\ page' = [page EXCEPT ![k] = Failed]
        /\ faults' = faults + 1
  /\ UNCHANGED <<maxRows, ver, pc, next, batch, buffer, out, terminal, expected, dest>>

Wait ==
  /\ pc = "wait"
  /\ Finished # {}
  /\ batch' = Finished
  /\ pc' = "collect"
  /\ UNCHANGED <<maxRows, ver, next, page, buffer, out, terminal, expected, dest, faults>>

\* A finished page is taken over; the last of the batch ends the collecting.
Collect(k) ==
  /\ pc = "collect"
  /\ k \in batch
  /\ page[k] \in Versions
  /\ buffer' = [buffer EXCEPT ![k] = page[k]]
  /\ page' = [page EXCEPT ![k] = Idle]
  /\ batch' = batch \ {k}
  /\ pc' = IF batch' = {} THEN "drain" ELSE "collect"
  /\ UNCHANGED <<maxRows, ver, next, out, terminal, expected, dest, faults>>

\* A run ends with an exception: the temporary file is removed.
Raise ==
  /\ pc' = "idle"
  /\ Clear
  /\ UNCHANGED <<maxRows, ver, dest>>

\* Any failed page of the batch ends the run, needed or not.
CollectFailed(k) ==
  /\ pc = "collect"
  /\ k \in batch
  /\ page[k] = Failed
  /\ Raise
  /\ UNCHANGED faults

HeadReady == Len(out) \in Pages /\ buffer[Len(out)] # Absent

HeadRows == PageRows(maxRows, buffer[Len(out)], Len(out))

\* (Mutant: columns are not compared.)
SchemaChanged_Never == FALSE

SchemaChanged ==
  /\ HeadRows > 0
  /\ expected # Unset
  /\ SchemaAt[buffer[Len(out)]] # expected

HeadColumns == IF HeadRows > 0 THEN SchemaAt[buffer[Len(out)]] ELSE expected

\* (Mutant: only a page without rows is the end of the data.)
WriteFull_SomeRows ==
  /\ pc = "drain"
  /\ HeadReady
  /\ ~ SchemaChanged
  /\ HeadRows > 0
  /\ out' = Append(out, buffer[Len(out)])
  /\ expected' = HeadColumns
  /\ buffer' = [buffer EXCEPT ![Len(out)] = Absent]
  /\ UNCHANGED <<maxRows, ver, pc, next, page, batch, terminal, dest, faults>>

\* The next page in order is written; it has all the rows it asked for.
WriteFull ==
  /\ pc = "drain"
  /\ HeadReady
  /\ ~ SchemaChanged
  /\ HeadRows = Limit(maxRows, Len(out))
  /\ out' = Append(out, buffer[Len(out)])
  /\ expected' = HeadColumns
  /\ buffer' = [buffer EXCEPT ![Len(out)] = Absent]
  /\ UNCHANGED <<maxRows, ver, pc, next, page, batch, terminal, dest, faults>>

\* It has fewer: the data ends here, and every later page is dropped.
WriteShort ==
  /\ pc = "drain"
  /\ HeadReady
  /\ ~ SchemaChanged
  /\ HeadRows < Limit(maxRows, Len(out))
  /\ out' = Append(out, buffer[Len(out)])
  /\ expected' = HeadColumns
  /\ terminal' = TRUE
  /\ page' = [k \in Pages |-> IF k > Len(out) THEN Idle ELSE page[k]]
  /\ buffer' = [k \in Pages |-> IF k >= Len(out) THEN Absent ELSE buffer[k]]
  /\ pc' = "submit"
  /\ UNCHANGED <<maxRows, ver, next, batch, dest, faults>>

RejectColumns ==
  /\ pc = "drain"
  /\ HeadReady
  /\ SchemaChanged
  /\ Raise
  /\ UNCHANGED faults

DrainDone ==
  /\ pc = "drain"
  /\ ~ HeadReady
  /\ pc' = "submit"
  /\ UNCHANGED <<maxRows, ver, runVars, dest, faults>>

\* os.replace(temporary, output)
Replace ==
  /\ pc = "replace"
  /\ dest' = out
  /\ pc' = "idle"
  /\ Clear
  /\ UNCHANGED <<maxRows, ver, faults>>

\* A write fails, or the process is killed.  The hidden temporary file of a
\* killed run stays behind; its name is never used again.
Stop ==
  /\ pc # "idle"
  /\ faults < MaxFaults
  /\ faults' = faults + 1
  /\ Raise

SourceChanges ==
  /\ ver' \in Versions \ {ver}
  /\ UNCHANGED <<maxRows, pc, runVars, dest, faults>>

Fetch == \E k \in Pages : AnswerPage(k)

Loop ==
  \/ SubmitOne
  \/ SubmitDone
  \/ Wait
  \/ \E k \in Pages : Collect(k) \/ CollectFailed(k)
  \/ WriteFull
  \/ WriteShort
  \/ RejectColumns
  \/ DrainDone
  \/ Replace

Next == Start \/ Fetch \/ Loop \/ Stop \/ SourceChanges

Spec == Init /\ [][Next]_vars

\* Requests have timeouts and a bounded number of retries; the thread that
\* runs the loop waits only for an answer.
FairSpec == Spec /\ WF_vars(Fetch) /\ WF_vars(Loop)
------------------------------------------------------------------------------
(***************************************************************************)
(* Properties.                                                             *)
(***************************************************************************)
RowsOf(m, f, k) == PageRows(m, f[k + 1], k)

\* No page but the last has fewer rows than it asked for.
Gapless(m, f) == \A k \in 0 .. Len(f) - 2 : RowsOf(m, f, k) = Limit(m, k)

\* The file ends where the data ends or where max_rows does.
ReachesEnd(m, f) ==
  \/ Len(f) > 0 /\ RowsOf(m, f, Len(f) - 1) < Limit(m, Len(f) - 1)
  \/ m # NoLimit /\ Len(f) * ChunkSize >= m

OneHeader(m, f) ==
  \A j, k \in 0 .. Len(f) - 1 :
    RowsOf(m, f, j) > 0 /\ RowsOf(m, f, k) > 0 => SchemaAt[f[j + 1]] = SchemaAt[f[k + 1]]

IsExport(m, f) == Gapless(m, f) /\ ReachesEnd(m, f) /\ OneHeader(m, f)

\* The destination is a complete export: pages in the order of their offsets
\* whatever order they were answered in, none missing, none after the end of
\* the data, all with the columns of the header (lines 69-106).
ExportComplete == dest # NoFile => IsExport(maxRows, dest)

\* While the end of the data is not known, every page that was submitted is
\* written, buffered or pending, and only one of these.
PagesAccounted ==
  ~ terminal =>
    \A k \in Pages :
      /\ (k < next) <=> (k < Len(out) \/ buffer[k] # Absent \/ page[k] # Idle)
      /\ k < Len(out) => buffer[k] = Absent /\ page[k] = Idle
      /\ buffer[k] # Absent => page[k] = Idle

\* Once a short page is written nothing is left in hand, so nothing follows it.
NothingAfterEnd ==
  terminal => /\ Pending = {}
              /\ \A k \in Pages : buffer[k] = Absent
              /\ pc \in {"submit", "replace"}

RowCount(m, f) ==
  IF f = <<>> THEN 0 ELSE (Len(f) - 1) * ChunkSize + RowsOf(m, f, Len(f) - 1)

\* A file all of whose pages were read from one version of the source has all
\* the rows of that version from start_offset on, up to max_rows.
Available(m, v) ==
  LET left == IF RowsAt[v] <= StartOffset THEN 0 ELSE RowsAt[v] - StartOffset
  IN  IF m = NoLimit THEN left ELSE Smaller(left, m)

AllRows ==
  dest # NoFile =>
    \A v \in Versions :
      (\A i \in 1 .. Len(dest) : dest[i] = v) => RowCount(maxRows, dest) = Available(maxRows, v)

\* The destination behaves as AtomicExport promises.
Exports == [m \in Limits |-> {f \in Seq(Versions) : IsExport(m, f)}]

File == INSTANCE AtomicExport

ImplementsAtomicExport == File!Spec

\* A run that is started ends, whatever the order of the answers.
EveryRunEnds == (pc # "idle") ~> (pc = "idle")
------------------------------------------------------------------------------
(***************************************************************************)
(* The inductive invariant of the proofs.                                  *)
(***************************************************************************)
\* The temporary file is an export as far as it goes.
WrittenSoFar ==
  /\ Gapless(maxRows, out)
  /\ ~ terminal => \A k \in 0 .. Len(out) - 1 : RowsOf(maxRows, out, k) = Limit(maxRows, k)
  /\ terminal => Len(out) > 0 /\ RowsOf(maxRows, out, Len(out) - 1) < Limit(maxRows, Len(out) - 1)
  /\ \A k \in 0 .. Len(out) - 1 : RowsOf(maxRows, out, k) > 0 => SchemaAt[out[k + 1]] = expected

\* What can be written has been written before more pages are submitted.
Drained == pc \notin {"collect", "drain"} => ~ HeadReady

EndReached == pc = "replace" => ReachesEnd(maxRows, out)

IndInv ==
  /\ TypeOK
  /\ PagesAccounted
  /\ NothingAfterEnd
  /\ WrittenSoFar
  /\ Drained
  /\ EndReached
  /\ ExportComplete
==============================================================================
