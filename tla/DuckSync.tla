------------------------------ MODULE DuckSync ------------------------------
(***************************************************************************)
(* The synchronisation of an Oracle Fusion query into a DuckDB table:      *)
(* FusionConnection.copy2dd and syncquery2dd_parallel of                   *)
(* querysaas.oracle_fusion, called directly or through                     *)
(* sync_fusion_query_to_duckdb of querysaas.fusion_api, and retried as a   *)
(* whole by the wrapper of querysaas.network_retry.                        *)
(*                                                                         *)
(* A call counts the rows of the query, drops the table if it is to be     *)
(* replaced, and merges the rows by primary key, page by page.  Every merge*)
(* is committed on its own.  The parallel version submits all pages to a   *)
(* thread pool and merges them in the order in which they are answered.    *)
(*                                                                         *)
(* A row is a key and the version of the source it was read from.  Rows are*)
(* paged in the order of their keys, which are numbers here; the merge key *)
(* is unique and never null.                                               *)
(***************************************************************************)
EXTENDS Integers, FiniteSets, FiniteSetsExt

CONSTANTS
  MaxKey,       \* bound: keys are 1 .. MaxKey
  Count,        \* count, the rows of a page
  Threshold,    \* parallel_threshold
  MaxAttempts,  \* max_retries + 1
  Versions,     \* the versions of the source data
  Before,       \* an earlier version: the rows that are in the table at first
  RowsIn,       \* the keys the query has in each version
  SchemaAt,     \* the columns the query has in each version
  Age,          \* when the version came about: the source only moves forward
  MaxFaults,    \* bound: failed requests, failed merges and crashes
  NoTable

ASSUME SyncAssumption ==
  /\ MaxKey \in Nat
  /\ Count \in Nat \ {0}
  /\ Threshold \in Nat
  /\ MaxAttempts \in Nat \ {0}
  /\ Before \notin Versions
  /\ RowsIn \in [Versions \cup {Before} -> SUBSET (1 .. MaxKey)]
  /\ DOMAIN SchemaAt = Versions \cup {Before}
  /\ Age \in [Versions \cup {Before} -> Nat]
  /\ \A v \in Versions : Age[Before] <= Age[v]
  /\ MaxFaults \in Nat

Keys == 1 .. MaxKey

Absent    == "absent"     \* the table has no row of this key
Idle      == "idle"       \* the page is not submitted, or it is done with
InFlight  == "in flight"
Transient == "transient"  \* the page failed with an error the wrapper retries
Fatal     == "fatal"      \* or with another one

ASSUME VersionAssumption ==
  (Versions \cup {Before}) \cap {Absent, Idle, InFlight, Transient, Fatal} = {}

Tables == [Keys -> Versions \cup {Before, Absent}]

ASSUME NoTableIsNone == NoTable \notin Tables

\* The pages a count of n rows makes: offsets 0, Count, 2 * Count, ...
Pages(n) == {k \in 0 .. MaxKey : k * Count < n}

AllPages == Pages(MaxKey)

\* The place of a key in ORDER BY, from 1.
Rank(v, key) == Cardinality({j \in RowsIn[v] : j <= key})

\* (Mutant: a row too few, at the end of the page.)
PageOf_LastSkipped(v, k) ==
  {key \in RowsIn[v] : k * Count < Rank(v, key) /\ Rank(v, key) < (k + 1) * Count}

\* OFFSET k * Count ROWS FETCH NEXT Count ROWS ONLY, in version v.
PageOf(v, k) ==
  {key \in RowsIn[v] : k * Count < Rank(v, key) /\ Rank(v, key) <= (k + 1) * Count}

VARIABLES
  ver,        \* the version that pages read now
  pc,         \* where the call is, "idle" when there is none
  mode,       \* "sequential" or "parallel"
  replace,    \* replace_target
  began,      \* the version at the start of the call (for the properties)
  attempt,    \* the attempt the retry wrapper is at
  total,      \* the rows counted at the start of the attempt
  page,       \* what became of the pages of the attempt
  done,       \* the pages of the attempt that are merged or were empty
  processed,  \* processed_rows
  table,      \* the target table
  outcome,    \* how the last call ended
  faults      \* failures so far

callVars == <<mode, replace, began, attempt>>
attemptVars == <<total, page, done, processed>>
vars == <<ver, pc, callVars, attemptVars, table, outcome, faults>>

TypeOK ==
  /\ ver \in Versions
  /\ pc \in {"idle", "count", "drop", "pages"}
  /\ mode \in {"sequential", "parallel"}
  /\ replace \in BOOLEAN
  /\ began \in Versions
  /\ attempt \in 0 .. MaxAttempts
  /\ total \in 0 .. MaxKey
  /\ page \in [AllPages -> Versions \cup {Idle, InFlight, Transient, Fatal}]
  /\ done \subseteq Pages(total)
  /\ processed \in 0 .. Cardinality(done) * Count
  /\ table \in Tables \cup {NoTable}
  /\ outcome \in {"none", "success", "failed", "rejected"}
  /\ faults \in 0 .. MaxFaults

NoPages == [k \in AllPages |-> Idle]

Init ==
  /\ ver \in Versions
  /\ pc = "idle"
  /\ mode = "sequential"
  /\ replace = FALSE
  /\ began = ver
  /\ attempt = 0
  /\ total = 0
  /\ page = NoPages
  /\ done = {}
  /\ processed = 0
  /\ table = [key \in Keys |-> IF key \in RowsIn[Before] THEN Before ELSE Absent]
  /\ outcome = "none"
  /\ faults = 0
------------------------------------------------------------------------------
(***************************************************************************)
(* Calls.                                                                  *)
(***************************************************************************)
Call(m, r) ==
  /\ mode' = m
  /\ replace' = r
  /\ began' = ver
  /\ attempt' = 1
  /\ pc' = "count"
  /\ outcome' = "none"

\* copy2dd and copy2dd_parallel choose their mode themselves.
CallCopy ==
  /\ pc = "idle"
  /\ \E m \in {"sequential", "parallel"}, r \in BOOLEAN : Call(m, r)
  /\ UNCHANGED <<ver, attemptVars, table, faults>>

\* The mode sync_fusion_query_to_duckdb selects.
SelectedMode(requested) ==
  IF requested # "auto" THEN requested
  ELSE IF Cardinality(RowsIn[ver]) > Threshold THEN "parallel" ELSE "sequential"

\* Whether the method for the mode takes a query that starts with SELECT.  The
\* pattern of syncquery2dd is the raw string r"^SELECT\\b": it asks for a
\* backslash after the word.
TakesSelect(m) == m = "parallel"

CallSync ==
  /\ pc = "idle"
  /\ \E requested \in {"auto", "sequential", "parallel"}, r \in BOOLEAN :
       /\ TakesSelect(SelectedMode(requested))
       /\ Call(SelectedMode(requested), r)
  /\ UNCHANGED <<ver, attemptVars, table, faults>>

\* ValueError, which nothing retries.
RejectSync ==
  /\ pc = "idle"
  /\ \E requested \in {"auto", "sequential", "parallel"} :
       ~ TakesSelect(SelectedMode(requested))
  /\ outcome' = "rejected"
  /\ UNCHANGED <<ver, pc, callVars, attemptVars, table, faults>>
------------------------------------------------------------------------------
(***************************************************************************)
(* One attempt.                                                            *)
(***************************************************************************)
CountRows ==
  /\ pc = "count"
  /\ total' = Cardinality(RowsIn[ver])
  /\ pc' = "drop"
  /\ UNCHANGED <<ver, callVars, page, done, processed, table, outcome, faults>>

\* (Mutant: the table is dropped whatever was asked for.)
DropTarget_Always ==
  /\ pc = "drop"
  /\ table' = NoTable
  /\ page' = [k \in AllPages |-> IF mode = "parallel" /\ k \in Pages(total)
                                 THEN InFlight ELSE Idle]
  /\ pc' = "pages"
  /\ UNCHANGED <<ver, callVars, total, done, processed, outcome, faults>>

\* (Mutant: only the first attempt drops it.)
DropTarget_FirstAttempt ==
  /\ pc = "drop"
  /\ table' = IF replace /\ attempt = 1 THEN NoTable ELSE table
  /\ page' = [k \in AllPages |-> IF mode = "parallel" /\ k \in Pages(total)
                                 THEN InFlight ELSE Idle]
  /\ pc' = "pages"
  /\ UNCHANGED <<ver, callVars, total, done, processed, outcome, faults>>

\* DROP TABLE IF EXISTS, before any page is asked for.
DropTarget ==
  /\ pc = "drop"
  /\ table' = IF replace THEN NoTable ELSE table
  /\ page' = [k \in AllPages |-> IF mode = "parallel" /\ k \in Pages(total)
                                 THEN InFlight ELSE Idle]
  /\ pc' = "pages"
  /\ UNCHANGED <<ver, callVars, total, done, processed, outcome, faults>>

\* (Mutant: another page is asked for while one is pending.)
AskNext_Ahead ==
  /\ pc = "pages"
  /\ mode = "sequential"
  /\ \E k \in Pages(total) \ done :
       /\ page[k] = Idle
       /\ page' = [page EXCEPT ![k] = InFlight]
  /\ UNCHANGED <<ver, pc, callVars, total, done, processed, table, outcome, faults>>

\* The sequential version asks for the next page when the last is merged.
AskNext ==
  /\ pc = "pages"
  /\ mode = "sequential"
  /\ page = NoPages
  /\ \E k \in Pages(total) \ done :
       /\ \A j \in Pages(total) \ done : k <= j
       /\ page' = [page EXCEPT ![k] = InFlight]
  /\ UNCHANGED <<ver, pc, callVars, total, done, processed, table, outcome, faults>>

AnswerPage(k) ==
  /\ page[k] = InFlight
  /\ \/ /\ page' = [page EXCEPT ![k] = ver]
        /\ UNCHANGED faults
     \/ /\ faults < MaxFaults
        /\ \E e \in {Transient, Fatal} : page' = [page EXCEPT ![k] = e]
        /\ faults' = faults + 1
  /\ UNCHANGED <<ver, pc, callVars, total, done, processed, table, outcome>>

Present(t) == {key \in Keys : t # NoTable /\ t[key] # Absent}

\* The columns of the frame are not those of the table.
SchemaDiffers(v) == \E key \in Present(table) : SchemaAt[table[key]] # SchemaAt[v]

\* _merge_dataframe: the table is created, or rows are updated and inserted.
Merged(v, k) ==
  [key \in Keys |-> IF key \in PageOf(v, k) THEN v
                    ELSE IF key \in Present(table) THEN table[key] ELSE Absent]

\* (Mutant: an empty page is asked for again.)
MergePage_EmptyAgain(k) ==
  /\ pc = "pages"
  /\ page[k] \in Versions
  /\ page' = [page EXCEPT ![k] = Idle]
  /\ \/ /\ PageOf(page[k], k) = {}
        /\ UNCHANGED <<done, processed, table>>
     \/ /\ PageOf(page[k], k) # {}
        /\ ~ SchemaDiffers(page[k])
        /\ table' = Merged(page[k], k)
        /\ done' = done \cup {k}
        /\ processed' = processed + Cardinality(PageOf(page[k], k))
  /\ UNCHANGED <<ver, pc, callVars, total, outcome, faults>>

\* The sequential version stops at an empty page, the parallel one skips it.
MergePage(k) ==
  /\ pc = "pages"
  /\ page[k] \in Versions
  /\ page' = [page EXCEPT ![k] = Idle]
  /\ \/ /\ PageOf(page[k], k) = {}
        /\ done' = IF mode = "parallel" THEN done \cup {k} ELSE Pages(total)
        /\ UNCHANGED <<processed, table>>
     \/ /\ PageOf(page[k], k) # {}
        /\ ~ SchemaDiffers(page[k])
        /\ table' = Merged(page[k], k)
        /\ done' = done \cup {k}
        /\ processed' = processed + Cardinality(PageOf(page[k], k))
  /\ UNCHANGED <<ver, pc, callVars, total, outcome, faults>>

\* The connection to DuckDB is closed; what is merged is committed.
EndAttempt ==
  /\ total' = 0
  /\ page' = NoPages
  /\ done' = {}
  /\ processed' = 0

EndCall(how) ==
  /\ pc' = "idle"
  /\ attempt' = 0
  /\ EndAttempt
  /\ outcome' = how
  /\ UNCHANGED <<mode, replace, began>>

\* The wrapper starts all over again if the error is one it retries.
Fail(e) ==
  \/ /\ e = Transient
     /\ attempt < MaxAttempts
     /\ attempt' = attempt + 1
     /\ pc' = "count"
     /\ EndAttempt
     /\ UNCHANGED <<mode, replace, began, outcome>>
  \/ /\ e = Transient => attempt = MaxAttempts
     /\ EndCall("failed")

\* A failed page ends the attempt; the answers of the others are discarded.
PageFailed(k) ==
  /\ pc = "pages"
  /\ page[k] \in {Transient, Fatal}
  /\ Fail(page[k])
  /\ UNCHANGED <<ver, table, faults>>

RejectColumns(k) ==
  /\ pc = "pages"
  /\ page[k] \in Versions
  /\ PageOf(page[k], k) # {}
  /\ SchemaDiffers(page[k])
  /\ Fail(Fatal)
  /\ UNCHANGED <<ver, table, faults>>

\* The count fails, or DuckDB does.
OtherFailure ==
  /\ pc # "idle"
  /\ faults < MaxFaults
  /\ faults' = faults + 1
  /\ \/ pc = "count" /\ Fail(Transient)
     \/ Fail(Fatal)
  /\ UNCHANGED <<ver, table>>

\* The process is killed.
Crash ==
  /\ pc # "idle"
  /\ faults < MaxFaults
  /\ faults' = faults + 1
  /\ EndCall("none")
  /\ UNCHANGED <<ver, table>>

\* The number of rows may differ from the count: that is only a warning.
Finish ==
  /\ pc = "pages"
  /\ page = NoPages
  /\ done = Pages(total)
  /\ EndCall("success")
  /\ UNCHANGED <<ver, table, faults>>

SourceChanges ==
  /\ ver' \in {v \in Versions : Age[v] > Age[ver]}
  /\ UNCHANGED <<pc, callVars, attemptVars, table, outcome, faults>>

Fetch == \E k \in AllPages : AnswerPage(k)

Work ==
  \/ CountRows
  \/ DropTarget
  \/ AskNext
  \/ \E k \in AllPages : MergePage(k) \/ PageFailed(k) \/ RejectColumns(k)
  \/ Finish

Next ==
  \/ CallCopy
  \/ CallSync
  \/ RejectSync
  \/ Fetch
  \/ Work
  \/ OtherFailure
  \/ Crash
  \/ SourceChanges

Spec == Init /\ [][Next]_vars

\* Requests time out; the main thread waits for nothing but an answer.
FairSpec == Spec /\ WF_vars(Fetch) /\ WF_vars(Work)
------------------------------------------------------------------------------
(***************************************************************************)
(* Properties.                                                             *)
(***************************************************************************)
\* If the source has not changed since it began, a call that succeeds has
\* brought every row of the query up to date, after any failed attempts and in
\* any order of the answers; a replaced table has no other rows (lines 955-1003,
\* 1527-1561).
SyncComplete ==
  outcome = "success" /\ ver = began =>
    /\ \A key \in RowsIn[ver] : key \in Present(table) /\ table[key] = ver
    /\ replace => Present(table) = RowsIn[ver]

\* If the source has not changed since the call began, the pages have as many
\* rows as were counted: the warning of line 1585 is given only if it has.
RowsAddUp ==
  pc = "pages" /\ page = NoPages /\ done = Pages(total) /\ ver = began =>
    processed = total

\* Rows are lost only to replace_target: a merge, a failed attempt or a retry
\* removes none.
MergeKeepsRows ==
  [][pc # "idle" /\ ~ replace => Present(table) \subseteq Present(table')]_vars

\* A table that is replaced holds only rows of the attempt in progress, none
\* of a failed one and none of the table before (lines 912-915, 1444-1446).
ReplacedOnly ==
  replace /\ pc = "pages" => Cardinality(Present(table)) <= processed

\* The counts of a call and the table that it replaces agree, in the types that
\* the module declares.
AttemptsApart == TypeOK /\ RowsAddUp /\ ReplacedOnly

\* The sequential version never puts an older row over a newer one.  (The
\* parallel one may: it merges pages in the order of their answers, and rows
\* move between pages when the source changes.)
NeverOlder ==
  [][mode = "sequential" /\ pc # "idle" =>
       \A key \in Present(table) \cap Present(table') :
         Age[table'[key]] >= Age[table[key]]]_vars

\* A call ends, whatever fails and whatever becomes of the source.
EveryCallEnds == (pc # "idle") ~> (pc = "idle")
==============================================================================
