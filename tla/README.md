# A TLA+ model of QuerySaaS

QuerySaaS is a Python library that reads an Oracle Fusion instance through
BI Publisher (BIP) requests and puts the rows into local files and DuckDB
tables, copies BI Publisher catalog objects between instances, packs and submits
FBDI loads, queries a folder of local files, and generates SQL with AI
providers. It has no
server and no background process: every operation is a blocking call, made
concurrent by thread pools for page requests, made fragile by a remote side
that fails, lags and changes, and made durable by files that must survive a
killed process.

This directory models the parts of it where these three meet. Every module is
translated from the code under `src/src/querysaas`; `PROJECT.json` maps each
definition to the lines it stands for.

## Inventory

| Component | State it keeps | Operations | What is hard |
|---|---|---|---|
| Part-file extraction, `parallel_parts.py` | work directory with part files, checkpoint, publish directory, destination, the dataset set aside; in memory the queue, the pending futures, the completed items | plan, resume, discard, schedule, split a failed page, write a part, publish, swap, clean up | crashes at any point, resumption with another chunk size, overlapping parts, pages of different moments, a swap of two renames |
| Single-file export, `pipeline.py` | temporary file, buffer of pages, destination | fetch pages out of order, write them in order, find the end of the data, replace the file | ordering, a short page in the middle, pages beyond the end |
| DuckDB synchronisation, `oracle_fusion.py`, `fusion_api.py` | the target table | select the mode, count, drop, fetch and merge pages | merges committed one by one, retries of the whole operation, merges out of order, a source that changes between pages |
| Network retry, `network_retry.py` | none | retry a call, classify an error | nested retries, errors told apart by their text |
| Query execution and provisioning, `oracle_fusion.py` | the connection | `execute_query`, `executequery`, `provision_bip_report` | a retry loop of their own under the wrapped one |
| BI Publisher catalog, `bip.py` | the remote catalog; a backup in memory | probe, download, upload, delete, verify, replace, restore, copy, schedule | lost answers, late requests, lagging reads, a restore that may fail itself |
| FBDI and ESS, `fbdi.py` | the registry a connection has read; the archive at the destination; remote jobs | refresh, resolve, pack CSV files or queries, import, submit, monitor (one request), purge | a job resolved several times in a call, archives left by failed calls, a submission without an answer, a registry replaced by the packaged one |
| Local data library, `local_data.py` | views and tables of a DuckDB file; in memory the records and the protected aliases | refresh, guard, execute, materialise, export | two kinds of alias in one namespace, tables and views that outlive the process, a folder that changes during a refresh |
| AI profiles and runtime, `ai_context.py`, `ai_runtime.py` | profile file, the file beside it, cancellation token, telemetry | save, delete, resilient request | an atomic save beside a non-atomic delete, several processes without a lock, cancellation by another thread |
| SQL scanning, `sql.py`, `ai_sql.py`, `ai_context.py` | none | validate, count, limit, page; extract, mask, classify, enforce read-only; find tables | three scanners that should agree with one another and with Oracle on comments and literals |
| AI providers, prompts, repair | none | build a prompt, post it, check the SQL of the answer | what a model answers is anything; the rest is wording and I/O |

The components call one another in one direction. Synchronisation, export and
extraction obtain pages through `executequery`, which is wrapped by the retry
policy; the functions of `fusion_api.py` select among them; catalog copy uses
two connections, one only to read. Shared state is on disk (work directory,
DuckDB file) or remote (catalog, jobs), never in memory between two calls.

What makes each modelled component correct is stated by the properties below;
the hazards behind them are listed with their lines in `PROJECT.json`.

## Modules

`PartDataset`, `AtomicExport` and `CatalogObject` are abstract specifications.
`*_MC` modules give the constants of a module values for TLC, `*_proofs` hold theorems.

### PartExtraction (implements PartDataset)

`copy_fusion_query_to_parts` from the plan to the removal of the work
directory. A part is the pair offset and limit its file is named after. The
content of a file is the version of the source its page was read from: part and
version determine rows, columns and hash, so that comparing versions is
comparing the SHA-256 of lines 105 and 150. `Torn` is a file whose writing was
interrupted, `Partial` a directory caught in construction or removal.

| Code | Model |
|---|---|
| `tasks`, `pending`, `completed`, `expected` | the variables `tasks`, `page`, `completed`, `expected` |
| the `done` set of `wait()` | `batch` |
| part files, checkpoint file | `files`, `ckpt` |
| `publish`, `output`, `old` | `publish`, `output`, `old` |
| lines 96-130, with and without `resume` | `StartResume`, `StartFresh` ... `Discarded` |
| the scheduler loop | `Submit`, `Wait`, `SplitPage`, `RejectPage`, `WritePart`, `RecordPart`, `CountMismatch`, `CountVerified` |
| lines 159-167 | `BeginPublish` ... `InstallOver`, `RemoveOld`, `InstallNew`, `RemovePartFile`, `RemoveCheckpoint`, `Return` |
| an exception | `Raise` (the checkpoint is saved, answers are lost) |

`AnswerPage` is a worker; `Crash`, `IOFailure` and `SourceChanges` are the
environment. A publish directory left by a crash is overwritten by
`BeginPublish`, as line 160 removes it. A checkpoint of another plan is refused
before anything changes, so `StartResume` is then simply not enabled.

`PartDataset` has three directories: the destination, the dataset made ready for
it and the one set aside. It promises that the destination holds a complete
dataset or nothing, and that one is vacated only for another that stands
complete beside it. It does not promise that the second rename follows the
first: a destination that was vacated may stay empty (see below).

### OrderedExport (implements AtomicExport)

`copy_fusion_to_local_parallel`. Page `k` is at offset `start_offset + k *
chunk_size`; the temporary file is the sequence of the versions of its pages.
`maxRows`, the argument `max_rows`, is a variable that is chosen at the
beginning and never changes: a limit, or none (`NoLimit`), when only a short or
empty page ends the loop. `AtomicExport` has it too, since it determines what a
complete export is.
Submission up to the limit (`SubmitOne`, `SubmitDone`), `wait()` and collecting
(`Wait`, `Collect`), the drain loop (`WriteFull`, `WriteShort`, `DrainDone`)
and `Replace` are separate actions, and workers answer between any two of them.

### DuckSync

`copy2dd` (sequential) and `syncquery2dd_parallel` with its caller
`copy2dd_parallel`, the mode selection of `sync_fusion_query_to_duckdb` and the
wrapper that runs the whole operation again after a transient error. A row is a
key and the version it was read from; the table is a function from keys. Every
merge is committed on its own, so a crash or failure keeps what was merged.
The body of `syncquery2dd` after its check of the query is not modelled: no
SELECT query passes the check.
`began`, the version at the start of the call, is only there for properties.
Finished pages are merged in any order, the order of `as_completed` among them.

### CatalogCopy (implements CatalogObject)

`copy_bip_object` and `replace_bip_object`, with one phase for every request
they make at the destination. The catalog is external: a request is carried out
and answered, or refused, or `Lost` (not carried out, carried out with its
answer lost, or carried out late), and reads show an earlier state until
`CatchUp`. An upload over an existing object is refused, by a fault or by an
answer that does not confirm it: this is an assumption about BI Publisher drawn
from the code, which deletes before it uploads. Waiting is one action that sees
the wanted state or the deadline; time passes by other actions happening first.
`CatalogObject` is what the call promises of the object at its destination: it
is removed only with overwrite and while the call has a copy of it, only the
archive of the call or the backup takes its place, and it stays after a success.
A late request is carried out by the same rule. Nobody but the call writes to the
destination: an object that someone else puts there between the plan (line 622)
and the upload is not modelled. `upload_bip_object` would then be refused, and
the verification, which asks for a readable archive only, would accept the
object of the other.

### LocalDataLibrary

The class of that name: a refresh is `Discover` followed by `CreateSafe`,
`CreateExact`, `RecordFile` or `RecordFailure` for each file and `Registered`,
one statement or `stat` each, between which the folder may change and the
process be killed. `BreakOff` is the `stat` that fails in the handler. The
database, `objects`, maps a name to a view of a file (`Reader`), a view of a
name (`Alias`) or a table, and survives the object; `records` and `backed` are
`_files` and `_file_backed`. What DuckDB does is external and small: a view is
read by name each time, `CREATE OR REPLACE` never crosses from a view to a
table or back, and a view of an unreadable file cannot be created. The guard of
lines 130-135 looks at the targets of DML and of `DROP`, `ALTER` and `TRUNCATE TABLE`:
`DropView`, `ReplaceView` (a view of the caller's in place of an alias) and
`CreateTable` pass it, and `touched` remembers which names they took. Left out
are `ALTER ... RENAME`, a text of several statements, of which the guard looks at
the first keyword, and the temporary table `querysaas_files` of line 108, which
hides a file of that name. Names are
sequences of texts and numbers, so that line 95's `orders_2` is a name of its
own unless a file is called that.

### FbdiRegistry and FbdiLoad

`FbdiRegistry` is the resolution of selectors as operators: `Score`,
`Matching` (only the best matches), `Candidates` (the option is applied after
that), `Agreed`, `Controls`. `FbdiLoad` is a connection that calls `csv2fbdi`,
`duckdb2fbdi` and `import_fbdi` one after another. `pc` is the function body a
call is in: `resolve` and `stage` for `duckdb2fbdi`, `find` and `pack` for
`csv2fbdi`, `import` and `post` for `import_fbdi`, which the others end in. The
archive is on disk between calls and after a crash; `rows` is
`_fbdi_job_rows`, read on first use or replaced by the packaged registry.
`Post` is answered with a request number, or leaves open whether the job was
submitted: that holds of a lost or unreadable answer as of one with an error in
it, which the code reports as a refusal. Only a call that fails before it is
reported as not submitted. The
history variables `given`, `first`, `before` and `meant` only serve properties.
`Purge` is `purge_fbdi` up to its request: it resolves the job again from the
selectors of a load, without the option that the load had, or takes the option,
for one load or a range of them. `submit_ess_job` posts what it is given.

### SqlText, SqlPlanner, AiSql

Operators on texts, which are short sequences of lexemes: the clauses of a
query, brackets, semicolons, and what begins and ends literals and comments.
`SqlText` is the reference: what Oracle hides, which texts it runs as one query
and how many rows they have; rows are locked by a query that is in no brackets.
`SqlPlanner` is `sql.py`, whose scanner nests comments: `Accepts` is
`validate_query`, `CountQuery` and `LimitQuery` the statements that are made, or
`Refusal`. `validate_query` refuses a query whose last word outside brackets and
quotes is WHERE, BY, JOIN or another with which a clause begins; numbers,
operators and quoted names are no words to it. So WHERE 1 = 1, ORDER BY 1 and
NATURAL JOIN "W", the lexemes of `Dangling`, are refused at the end of a query
as incomplete, and stand for ON (a = b) and FROM (SELECT ...) as well. `AiSql`
is the path of a model's answer: `Extract`, `Masked`, `ReadOnly`, `Several`,
`Enforced`, and the scan for tables of `ai_context.py`, which looks for plain
names after FROM and JOIN (`Unlooked` are the others: those after a comma, and
quoted names). All scans are recursive functions; what a scanner sees is the set
of positions of the lexemes it neither hides nor skips.

### QueryService

A caller types a text, connects, and calls `executequery`, `countquery` or
`copy2dd`. A call is a program of statements; each is sent, answered, refused by
Oracle, or broken off by the network, and `Fail` is the retry of the statement
within the retry of the whole call (`inner` and `outer`). An error is the set
of what `is_retryable_network_error` finds in its text, since the text of a SQL
error may contain any words and numbers. `results` says for each value from
which run of the call it is. Once a connection exists the texts do not change,
the table does.

### AiProfileStore, AiAssistant

`AiProfileStore` has one action for each system call that matters: reading,
opening (which empties), writing, renaming. Processes interleave and are killed
between any two. A process holds its file open across the renames of others
(`fd`). `AiAssistant` extends it: a request reads a profile, is checked, sent
and answered or fails; `generate_ai_text_resilient` repeats it, counts it and
looks at its token, which another thread may set at any time;
`generate_oracle_sql` and `repair_oracle_sql` send one request and pass on what
`AiSql` lets through.

## Runs

Type correctness is the first conjunct of `IndInv` in the runs of PartExtraction
and OrderedExport, and of `AttemptsApart` (DuckSync), `ReportIsTrue`
(CatalogCopy, FbdiLoad), `GuardIsSound` (LocalDataLibrary), `RetriesApart`
(QueryService) and `CountersAgree` (AiAssistant) in the others.

| Run | Question | Size |
|---|---|---|
| `Parts_stable` | offsets, overlaps, exactly-once, survival of a dataset, and that runs end; source unchanged, chunk sizes 2 and 3 over 4 rows, one fault | 296 thousand states |
| `Parts_changing` | the inductive invariant, complete datasets, resumability and refinement with a source that loses rows or changes a column, checkpoint outside the work directory | 1.6 million |
| `Parts_resume` (violated) | a resumed run can complete | |
| `Export` | invariant, completeness, all rows of a steady source, refinement, and that runs end; changing source, `max_rows` of 5 and none, non-zero start offset, one fault | 499 thousand |
| `Sync` | all properties of DuckSync, changing source, two attempts, two faults | 80 thousand |
| `Copy` | a reported success is one, the destination implements `CatalogObject`, calls end; two archives, three faults | 7 thousand |
| `Copy_lost` (violated) | a lost destination is followed by a restore | |
| `Library` | aliases show their files, the guard protects no more than them, tables are kept, whatever tables and views the caller has made; three events | 705 thousand |
| `Library_aliases` (violated) | each file has its two aliases | |
| `Fbdi` | what is submitted is what was given, for the job that was meant, at most once, and a purge concerns the option of its load; two calls, one fault | 149 thousand |
| `Query` | which queries the planner refuses, what it makes of the others, whether the scanners for generated SQL agree with Oracle, counts are true, retries do not mix runs and are bounded; 18 lexemes, texts of up to four | 387 thousand |
| `Ai` | the store is as it was saved, one late request at most, telemetry adds up, SQL that is handed back only reads, a repair has only approved names after FROM and JOIN, and what is blocked is blocked for a reason that is stated; requests end | 48 thousand |

Deadlock is checked in every run but the last two: a component that has nothing
to do can always be called again. `Query` has one call, and stops when it has
ended; in `Ai` the changes of the store are bounded, and nothing can be asked of
an assistant whose store can no longer be read.

**Bounds.** `MaxRows` 4 with chunks of 2 and 3 and a minimum of 2, or fewer rows
and a minimum of 1, has a split, a chunk shorter than the others, and overlaps
of a half with a chunk of a later run. `MaxFaults` bounds crashes and failures
together: one is enough for a crash at every step followed by a run that meets
everything the crash left; truncated payloads, which cause splits, are not
bounded by it. Three versions are the source as it was, one with fewer rows and
one with other columns, in any order. `MaxPending` 2 is the smallest bound at
which pages overtake one another. `MaxPages` of the export is larger than any
version needs (`EnoughPages`), so that it never ends a run. From row 1 on, one
version fills three pages of two and another ends with half a page; `max_rows` 5
cuts the third page: an export is ended by the limit, by a short page, and by an
empty one. In `Sync`, five rows and a page size of two make three pages, the
last one short, and version "B" moves every row to another place; `Threshold` 3
lets the two counts fall on either side. Two archives in `Copy` distinguish
replacement from backup; three faults allow a lost upload, a failing read and a
lost request of the restore in one call. In `Library` there are files that share
a stem, files whose normalized aliases collide, and a managed name that is the
alias of a file; three events are enough for a table to be made, a file to turn
up and another to vanish during the refresh. In `Fbdi` a business object has the
name of another one's control file, as `Customers.ctl` has in the packaged
registry, and a table is in two jobs; two sources and two calls allow a
collision of two files and an archive that one call leaves and the next one
imports, and a purge after a load. In `Query`, three lexemes after `SELECT *
FROM t` suffice for a comment with something in it, an ended literal before a
clause, a bracketed clause and two clauses in either order, each of them also at
the end where it is refused if its last word begins a clause; plain quotes,
which behave as q-literals, appear in the answers of `Ai`. One retry at each
level tells a bound that multiplies from one that adds; limits of 1 and 2 and
tables of 0 and 3 rows tell every limit from the others. In `Ai` two changes of
two processes are all pairs of overlapping saves and deletions; three attempts
have a failure that is neither first nor last. The 38 answers are 17 texts bare
and in a code block, two in a second block, two in a block that is cut off; a
comma, a quoted name and queries that end in a clause word are among them.

**Fairness.** A page that was requested is answered: `executequery` passes a
timeout to every request and retries a bounded number of times; a request
to a language model has a time-out as well. A thread that
is not waiting for an answer goes on. A wait for the catalog has a deadline.
Nothing is assumed of callers, of the source or of crashes: calls need not be
made, lagging reads need not catch up, and processes that save need not go on.

## Proofs

The `*_proofs` modules prove for every value of the constants what the runs
check on small ones: any number of rows, pages, versions, files, names, sources,
processes, retries and faults. Assumed are only the named assumptions of the
modules, which TLC evaluates: the types of the constants; that sentinel values
are none of the values; that a registry is finite and an option in it has one
object (`RegistriesAssumption`); that versions of a source are ordered in time
(`Age` in DuckSync); that normalized names are texts (`NamesAssumption` of
LocalDataLibrary).

Each theorem is proved action by action: `Init => IndInv`, `IndInv /\ [Next]_vars
=> IndInv'`, and the property from the invariant. The invariants of the first
two modules are checked as `IndInv` by their runs; those of the others were
found with TLC on the same runs. The refinements show that each step is a step
of the abstract module or leaves its variables alone. Where a fact wants an
induction, over the elements of a fold or of a recursive function, the least
counterexample takes its place.

*PartExtraction.* `PublishedComplete` is not inductive: whether a published
dataset is complete depends on what the loop handed over, and that on what it
resumed. `IndInv` adds

- `NoOffsetDropped`: every offset of the plan is completed, pending or queued,
  so that at the end of the loop all are completed;
- `Resumable`: the checkpoint lists what is completed and its files are whole,
  so that copying the files of completed items copies no torn one;
- `ColumnsAgree`: all completed items have the columns the loop compares with,
  also across a resume, where the first item gives them;
- `Accepted`: during publication the count has been verified;
- `DirectoriesSound`: which of the three directories is complete at each step
  of the swap, which gives `DatasetSurvives` and the refinement of
  `PartDataset`.

`NoOffsetDropped` rests on a lemma that the chunks of a plan cover it and on
one that the halves of a split cover the page. `EveryRowOnce` is about the sum
that line 147 of `parallel_parts.py` verifies: if the parts cover the plan and
their limits add up to its length, no two of them overlap. It supposes that
the number of rows up to `max_rows` is the same in all versions (`Steady`); without that it
is false, see below.

*OrderedExport.* `IndInv` says that each submitted page is in exactly one place
(`PagesAccounted`), that nothing is left once the end is found
(`NothingAfterEnd`), that the temporary file is a gapless prefix with one set
of columns (`WrittenSoFar`), and that whatever can be written has been before
submission goes on (`Drained`). With nothing pending and nothing left to
submit, the file has then reached the end (`EndReached`). `FileHasAllRows` adds
up the rows of its pages.

*DuckSync.* The first part is about paging: the pages of a version do not
overlap, only the last is shorter, and together they have every row. The
invariant then says what belongs to the attempt in progress (`Attempts`), that
nothing in the table or on its way is newer than the source (`Ages`), and, while
the source is as it was when the attempt counted it, that the pages merged are
in the table and account for the rows counted (`Stable`). From it follow
`SyncComplete`, and that a retry does not take over rows of the attempt before.

*CatalogCopy.* The inductive invariant follows the phases of a call (`OnTheWay`): until it
deletes, nothing is on its way and reads show what there is; at the upload
nothing is there; afterwards all that is there or on its way is its own archive,
or its backup. So the readable archive that ends the call is the archive of the
call, however reads lag and whatever was lost. For the refinement of
`CatalogObject` the invariant says of each request that is on its way what it
would do if it were carried out now: a deletion is only on its way with
overwrite, and while what stands at the destination is the archive of the call
or its backup; an upload is of one of these. Then the step in which a request is
carried out late is covered as well as the one in which it is sent.

*LocalDataLibrary.* A view of a refresh reads a file or another name, and a
later file of the same refresh may replace what that name has. `Chains` says
that some ranking of the names decreases from each view to the one it reads,
namely the order in which they were created; the chain of a name therefore
ends, at a reader of a listed file. `ViewsStand` says whose aliases are still
their own, `GuardedViews` that the guard knows views only. That a number is
left for every name (`Queued`) is counted: fewer aliases are in use than the
loop has numbers to try.

*FbdiLoad.* Resolving is a function of registry, selectors and option. The
lemmas on it say that an option narrows a resolution and determines its object,
so that a job which was resolved stays the one that is resolved (`AboutFirst`);
`FilesSoFar` and `JobIsSound` say of whose sources the staged, packed and
submitted files are, and what a purge names.

*QueryService.* Its inductive invariant is `ServiceInv`. `PostsBounded` counts
the requests left rather than made: those of the runs before, of the statements
before in this run, and of the tries of this statement. `ValuesOfTheCall`, which
no run states, says that each value is that of its statement for a size of the
table during the call.

The other theorems are about texts of any length and have a theory of their own
before them. A text is scanned by a recursive function, so each lemma on it is an
induction over positions: `Iterated` gives that the function exists, `UpTo` that
what its steps preserve holds throughout; the predicate of an induction is a set,
since theorems with an operator as parameter cannot be used. On them rest

- `SameModes`: two texts that have the same lexemes after positions of the same
  mode are scanned alike. With it a semicolon can be taken out of the end
  (`SemicolonOut`), a text cut off (`SameBeginning`) or put into brackets
  (`RunsInBrackets`) without anything else being seen or hidden;
- `PlannerScan`: where no comment has the beginning of another one in it, the
  scan that nests comments is Oracle's;
- `DepthIsLevel`: as the brackets of a query are balanced, the depth that never
  goes below zero is the number of open brackets, so that what is outside
  brackets stays so in a part of the query (`QueryPart`), and the last ORDER BY
  outside brackets can be cut off with what follows (`OrderOut`);
- `AsOracleStep`: at each lexeme the scan for tables, which only begins literals
  and comments that end, is in Oracle's mode, or Oracle is in one that nothing
  ends and sees nothing more;
- `LastWord`: the last word that the planner sees outside brackets is that of the
  query as Oracle reads it, so that exactly the queries of `EndsInClause` are
  refused;
- `PartSeen`: a query within a text that is seen from its first lexeme on is seen in
  it as by itself; with it an answer is read: what is found in it is the query
  (`IntendedOfPart`) and the checks let it through (`AnswersPass`).

`QueriesAccepted`, `CountsRows`, `LimitsRows` and `QueriesEnforced` state for all
texts what the properties say of the text of a call; `Counting` connects them with
the call: its text begins with SELECT and a count asks for the statement made of it.

*AiAssistant.* The invariant of the store says for each process what its change
will leave, and of the file that it is what the changes that ended left, as long
as no two overlapped; the one of the request relates its counters to the place
where it is. `SqlChecked` says that what is handed back was extracted from an
answer and has passed the checks, which gives `OnlyReads`; `BlockedChecked` says
that what was blocked is an answer that fails them. The module
extends `QueryService_proofs` for the lemmas on texts: `TablesFound` gives that
the plain names of a repair after FROM and JOIN are approved, `AnswersPass` that a
query which is all of an answer, or its only code block, is not blocked unless it
ends in a clause word (`QueriesPass`).

**That runs end.** Liveness needs fairness and ENABLED, which are beyond the prover.
The other half of the argument is proved: a measure that every step of a run
lowers, in any environment. `NearerToTheEnd` states it in five modules.

- *CatalogCopy*, `CallsDescend`: a rank of the phases; neither the restore nor the
  second verification leads back. A call has at most sixteen steps.
- *OrderedExport*, `RunsDescend`: pages to submit, to answer, to collect and to write,
  four times their number and the place in the loop. No page comes back to where it
  was, and the loop does not go round without a page that has come further.
- *DuckSync*, `CallsDescend`: the attempts that are left, then pages to ask for, to
  answer and to merge.
- *AiAssistant*, `RequestsDescend`: three steps for each attempt that is left.
- *PartExtraction*, `RunsDescend`: the stages of a run come in one order, and within
  the scheduler loop a weighted sum decreases. A split makes two pages of one, so that
  counting pages does not do; what decreases is the number of rows at which a page
  that is queued or pending could still be split. For that no two of these pages may
  overlap, which is `PagesStayApart`: the chunks of a plan are disjoint, as are the
  halves of a page. (What `Parts_resume` counts twice is no pending page but an item
  that an earlier run completed.)

What TLC adds to this is that the fairness assumed suffices, that is, that some step
of the run is possible wherever it is not over.

Proving changed the models in some places: assumptions that were used and not
stated (an option of a registry with two objects, an `Age` of the version before
the first, an object that is no object), preconditions of `PurgesTheLoad` that
held only in the run's registry, and definitions that the prover cannot read
(`Sorted`, and what the scanners see, which were made with `SelectSeq`). The
assumption on `Sizes` of `QueryService` was written as `SUBSET Nat \ {{}}`, which by
its precedence holds of other sets than those of numbers; it is `Sizes \subseteq Nat`
now. One
property was false beyond the bound of its run: `CountIsTrue` held of texts with
three lexemes after `SELECT` and fails for `/*`, `/*`, `*/`, `--`, `*/` before an
ORDER BY, see `NestsComments` below.

**Model-checked only**: the liveness properties `EveryRunEnds` (PartExtraction and
OrderedExport), `EveryCallEnds` (DuckSync and CatalogCopy) and `EveryRequestEnds`.
Every other property of a passing run is a theorem.

## Where code and documents disagree

The violated runs, each listed under `findings` in `PROJECT.json`:

- `Parts_resume`: line 123 of `parallel_parts.py` queues a chunk that is only
  partly covered as a whole. After a split and a stop, the completed half is
  fetched again within its chunk and counted twice: no resumed run can
  complete any more, only `resume=False` helps.
- `Copy_lost`: `replace_bip_object` deletes outside its try statement; if the
  answer to the deletion is lost there is no restore.
- `Library_aliases`: line 95 of `local_data.py` compares normalized aliases
  only. The exact alias of a later file replaces the normalized alias of an
  earlier one (`orders-.csv` and `orders.csv`): that file is listed as readable
  and no name shows it, as its exact alias is a view of the normalized one.

Limits of the code that no run states as a property, first those that a
document contradicts:

- `syncquery2dd` accepts no SELECT: its pattern `r"^SELECT\\b"`
  (`oracle_fusion.py`, line 1099) asks for a backslash. `mode="auto"` fails for
  every query at or below the threshold;
- `duckdb2fbdi` overwrites the staged file of an earlier query whose selector
  means the same control file (`fbdi.py`, line 423), and `source_rows` counts
  both; `csv2fbdi` refuses the same input as a duplicate name;
- the retries of a sequential `copy2dd` multiply with those of the statements
  in it: `max_retries=3` gives up to sixteen requests for one statement, where
  README.md, line 797, has one retry contract. `RequestBound` is that bound;
- a deletion writes the profile store in place (`ai_context.py`, line 203)
  though CHANGELOG.md, line 169, has "Atomic profile writes": a process that is
  killed there leaves an empty store, which `save` and `delete` then refuse to
  read;
- a SQL error with a number such as 500 in its text is retried, although
  docs/SECURITY.md, line 13, excludes SQL errors from retries;
- between the two renames of the swap (`parallel_parts.py`, line 164) there is
  no dataset at the destination. A run that fails at the second rename or is killed
  before it leaves it so; the dataset is intact in the hidden directory set aside,
  which no later run moves back (`DatasetSurvives` speaks of the disk, not of the
  destination, and `PartDataset` lets the destination stay empty). README.md, line
  2067, has "Existing destination remains unchanged after failure" and calls that
  intentional, CHANGELOG.md, line 46, has "Atomic CSV and Parquet part-file
  datasets", and line 57 "atomic replacement";
- the scan for tables looks for plain names after FROM and JOIN only. Tables after a
  comma and quoted names are never compared with the approved ones, though
  CHANGELOG.md, line 159, has "Repair output cannot use write SQL or tables outside
  approved context" (`Unlooked` in `ChecksQueries` and `RepairsAreApproved`).

And the others:

- `validate_query` (`sql.py`, line 102) refuses, as incomplete, queries that are
  complete to Oracle and whose last word outside brackets and quotes begins a
  clause: `... ORDER BY 1`, `... WHERE 1=1`, `SELECT * FROM (SELECT ...)`,
  `... JOIN u ON (a=b)`, `... JOIN "W"`. They are neither counted nor limited nor
  paged, and generated SQL of this kind is blocked (`EndsInClause` in
  `AcceptsQueries`, `LimitIsKept`, `ChecksQueries` and `QueriesPass`);
- an answer to an import that has an error in it is reported as "Oracle Fusion
  rejected FBDI request" (`fbdi.py`, line 386), whatever the service did before it
  answered so;
- an object that someone else puts at the destination of a catalog copy after the
  plan (`bip.py`, line 622) is taken for the copy: the upload is refused, which is a
  warning only, and a success is reported if that object is a readable archive;
- a query with FOR UPDATE is accepted, but Oracle does not run it in the brackets
  of a count or limit wrapper (`TakesLocks`);
- any page with a status of success counts as a provisioned report, so that the
  first query is the one that fails;
- an empty `reportBytes` is an empty result, whatever made it empty;
- an unreadable payload or a refused connection is not retried by the shared
  policy, though the loop in `execute_query`, which it switches off, would;
- `count_query` drops a `FETCH FIRST` with the ORDER BY before it, and counts
  all rows (`CutsLimit` in `CountIsTrue`); what is malformed after an ORDER BY is
  cut as well, so that a count may succeed for what is no query;
- `limit_query` leaves a query with a limit of its own as it is, also if that is
  above `max_rows`;
- `sql.py` nests comments, which neither Oracle nor `ai_sql.py` does: a query
  with `/*` inside a comment is refused as unterminated, or, when a later
  comment ends both, counted without what stands between them: in
  `SELECT * FROM t /* a /* b */ -- */ ORDER BY c` with `WHERE ROWNUM <= 2` on the
  next line, `count_query` cuts off the WHERE with the ORDER BY that Oracle does not
  see (`NestsComments`);
- the scan for tables knows no q-literals: a quote in one hides or shows what
  comes after (`QuotesInLiteral`). It also takes names of WITH for tables, and
  accepts a table of another schema that has the name of an approved one;
- `extract_sql` begins at the first keyword that begins a line, so that a
  comment or a bracket before the query is lost, and a keyword at a line's
  beginning within a comment is taken for the query;
- `generate_ai_text_resilient` repeats every failure, also of authentication;
  an answer whose token numbers cannot be read is thrown away, asked for again,
  and counted as a request and as a failure;
- overlapping savers share the file beside the store: one may lose the profile
  of another, write into the store itself or leave a torn one (`excused` in
  `AsSaved`);
- a purge by the selectors of a load, after the registry was refreshed or
  replaced by the packaged one, may concern another option;
- `replace_target` drops the DuckDB table before the first page is fetched, in a
  transaction of its own: a call that fails then leaves no table or a part of
  one;
- a library opened with `read_only=True` cannot create a view, so that every
  file is listed as unreadable;
- the views of files that have left the folder stay in the database;
- `_dml_targets` knows no `DROP VIEW` and no `CREATE`: an alias can be dropped
  and a table made under its name, which then hides the file until it is
  dropped; or a view of the caller's can take its place until the next refresh
  (`touched` in the properties of `LocalDataLibrary`). Nor does it know `ALTER VIEW`,
  and of a text of several statements only the first keyword is looked at;
- a file whose alias is `querysaas_files` is hidden by the temporary table of that
  name;
- the option of a load filters rows after the best matches were taken: with the
  packaged registry, the control files of options 135 and 168 that are named as
  another business object (`Customers`, `Catalogs`, `PriceList`,
  `SupplierSite`) are never found;
- a failed refresh, or `get_fbdi_jobs(refresh=False)` before the first use,
  leaves a connection with the packaged registry until a forced refresh;
- a `csv2fbdi` that fails while packing leaves a valid archive of some of the
  sources at the destination, which a later `import_fbdi` accepts;
- overlapping parts of two runs can add up to the planned number when the
  source lost rows in between: `ExactlyOnce` holds of an unchanged source only;
- the buffer of `copy_fusion_to_local_parallel` is not bounded by
  `max_pending_pages`: while the first page is slow, answered pages are
  replaced by new ones;
- a query without rows is exported without a header;
- a source that changes under OFFSET paging makes synchronisations skip rows;
  the parallel version prints a warning if the counts differ, the sequential
  one does not;
- the parallel synchronisation can put an older row over a newer one;
- the restore does not look at the answer to its upload, so that it may report
  the replacement as restored if that turns up late; and for a destination path
  without a suffix it cannot upload the backup at all;
- `verify_bip_object` asks for a readable archive, not for the one uploaded: a
  copy retried before an earlier request has settled may report success for the
  earlier archive. `Call` is therefore enabled in a settled catalog only.

## Not modelled

Argument validation, metrics, progress output, file formats, the content of XML
results; `copy_fusion_to_local` (one query, one rename); `monitor_ess_job`
(reads a status and changes nothing); `schedule_bip_report` (one request),
folders and object XML; the SQL dialect of DuckDB in `ai_sql.py`;
`explain_oracle_sql`, streaming (`iter_sse_text`), previews, limits of a schema
context, prompts, formats of the providers and discovery of models (wording and
I/O); the provider registry, exception classes, the embedded report and the
packaged data.

## Plan

All modules are modelled and checked; the eight components have their theorems.
An abstract specification may still be worth adding: a table replaced atomically,
against which `DuckSync` fails only by dropping the table first. Liveness can be
proved from the descent theorems when the prover has ENABLED and fairness.
