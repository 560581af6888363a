-------------------------- MODULE LocalDataLibrary --------------------------
(***************************************************************************)
(* The folder library of src/querysaas/local_data.py: files of a folder    *)
(* are views of a DuckDB database, under an exact and a normalized alias,  *)
(* beside tables that the caller manages.                                  *)
(*                                                                         *)
(* A refresh is one statement after another: the folder may change and the *)
(* process may be killed between any two of them.  Every statement is      *)
(* committed on its own and the database outlives the process, the views   *)
(* of files that are gone included.                                        *)
(*                                                                         *)
(* A name is a sequence that begins with a text and may go on with the     *)
(* numbers put behind it; names are compared as DuckDB does, up to case.   *)
(* What a table holds is the file it was copied from, until it is edited.  *)
(*                                                                         *)
(* A text that a caller executes is one statement: an edit or removal of a *)
(* table, the removal of a view, or a view or table of what can be read.   *)
(* Views of the caller's read a file.  Renaming, several statements in one *)
(* text, of which the guard looks at the first, and the temporary table    *)
(* querysaas_files of each connection (line 108), which hides a file of    *)
(* that name, are left out: no file is called so.                          *)
(***************************************************************************)
EXTENDS Naturals, Sequences, FiniteSets

CONSTANTS
  Order,       \* the files there may be, as a refresh sorts them
  Stem,        \* file |-> its name without the suffix
  Path,        \* file |-> its path in the folder, without the suffix
  Safe,        \* name |-> _safe_name of it
  Managed,     \* the names callers give tables
  MaxEvents,   \* bounds statements, crashes and changes of the folder
  Edited,      \* the contents of a table after DML
  Nothing      \* no object of a name, no contents

Files == {Order[i] : i \in DOMAIN Order}

\* Line 95: a number is put behind a name that is taken.
Numbered(base, n) == IF n = 1 THEN base ELSE Append(base, n)

Plain    == {Stem[f] : f \in Files} \cup {Path[f] : f \in Files}
SafeNames == {Numbered(Safe[p], n) : p \in Plain, n \in 1 .. Len(Order)}
Names    == Plain \cup SafeNames \cup Managed

ASSUME OrderAssumption ==
  /\ Order \in Seq(Files)
  /\ \A i, j \in DOMAIN Order : Order[i] = Order[j] => i = j

ASSUME NamesAssumption ==
  /\ DOMAIN Stem = Files /\ DOMAIN Path = Files
  /\ Plain \subseteq DOMAIN Safe
  /\ \A p \in Plain : Safe[p] \in Seq({Safe[p][i] : i \in DOMAIN Safe[p]})
  /\ \A n \in Names : n # Nothing

ASSUME ContentsAssumption ==
  Edited \notin Files /\ Nothing \notin Files \cup {Edited}

Contents == Files \cup {Edited}

\* What a name of the database denotes.
Reader(f) == [kind |-> "reader", from |-> f]
Alias(n)  == [kind |-> "alias", from |-> n]
Table(c)  == [kind |-> "table", from |-> c]

Views  == {Reader(f) : f \in Files} \cup {Alias(n) : n \in Names}
Tables == {Table(c) : c \in Contents}

ASSUME NothingIsNoObject == Nothing \notin Views \cup Tables

Record(f, table, exact, readable) ==
  [file |-> f, table |-> table, exact |-> exact, readable |-> readable]

Records == [file : Files, table : Names, exact : Names, readable : BOOLEAN]

ASSUME EventsAssumption == MaxEvents \in Nat

VARIABLES
  disk,      \* file |-> "absent", "readable" or "unreadable"
  objects,   \* name |-> a view, a table or Nothing: the database
  pc,        \* "closed", "ready" or the step of a refresh
  opening,   \* the refresh is the constructor's
  readOnly,  \* self.read_only
  found,     \* the files that _discover returned
  queue,     \* those that are still to be registered
  safe,      \* the normalized alias of the file in hand
  used,      \* normalized aliases given in this refresh
  made,      \* the records of this refresh
  records,   \* self._files
  backed,    \* self._file_backed
  settled,   \* history: the last refresh was completed
  touched,   \* history: names that statements of the caller took from a view since
  events     \* those that were bounded by MaxEvents so far

libraryVars == <<records, backed>>
refreshVars == <<opening, found, queue, safe, used, made>>
history     == <<settled, touched>>
vars == <<disk, objects, pc, readOnly, refreshVars, libraryVars, history, events>>

Refreshing == {"safe", "exact", "record", "failed"}

TypeOK ==
  /\ disk \in [Files -> {"absent", "readable", "unreadable"}]
  /\ objects \in [Names -> Views \cup Tables \cup {Nothing}]
  /\ pc \in Refreshing \cup {"closed", "ready"}
  /\ opening \in BOOLEAN
  /\ readOnly \in BOOLEAN
  /\ found \subseteq Files
  /\ queue \in Seq(Files)
  /\ pc \in {"exact", "record", "failed"} => queue # <<>>
  /\ safe \in SafeNames \cup {Nothing}
  /\ used \subseteq SafeNames
  /\ made \subseteq Records
  /\ records \subseteq Records
  /\ backed \subseteq Names
  /\ settled \in BOOLEAN
  /\ touched \subseteq Names
  /\ events \in 0 .. MaxEvents

Init ==
  /\ disk \in [Files -> {"absent", "readable", "unreadable"}]
  /\ objects = [n \in Names |-> Nothing]
  /\ pc = "closed"
  /\ opening = FALSE
  /\ readOnly = FALSE
  /\ found = {}
  /\ queue = <<>>
  /\ safe = Nothing
  /\ used = {}
  /\ made = {}
  /\ records = {}
  /\ backed = {}
  /\ settled = FALSE
  /\ touched = {}
  /\ events = 0
------------------------------------------------------------------------------
(***************************************************************************)
(* DuckDB, as the library uses it.                                         *)
(***************************************************************************)
IsTable(n) == objects[n] \in Tables
IsView(n)  == objects[n] \in Views

\* A view is looked up by the name in its text each time it is read.
End(n) ==
  LET step[i \in 0 .. Len(Order) + 1] ==
        IF i = 0 THEN objects[n]
        ELSE LET o == step[i - 1]
             IN  IF o \in Views /\ o.kind = "alias" THEN objects[o.from] ELSE o
  IN  step[Len(Order) + 1]

\* The rows that a name denotes: those of a file, of a table, or none.
Shows(n) ==
  IF End(n) # Nothing /\ End(n).kind # "alias" THEN End(n).from ELSE Nothing

\* A view can be read, and created, while its file can.
CanRead(n) ==
  Shows(n) # Nothing /\ (End(n).kind = "reader" => disk[Shows(n)] = "readable")

\* CREATE OR REPLACE VIEW: a table of that name is not replaced.
CanCreateView(n) == ~ readOnly /\ ~ IsTable(n)

\* CREATE TABLE and CREATE OR REPLACE TABLE: a view is not replaced.
CanCreateTable(n, replace) ==
  ~ readOnly /\ (objects[n] = Nothing \/ (replace /\ IsTable(n)))
------------------------------------------------------------------------------
(***************************************************************************)
(* Opening and refreshing.                                                 *)
(***************************************************************************)
Sorted(fs) ==
  LET upTo[i \in 0 .. Len(Order)] ==
        IF i = 0 THEN <<>>
        ELSE IF Order[i] \in fs THEN Append(upTo[i - 1], Order[i]) ELSE upTo[i - 1]
  IN  upTo[Len(Order)]

\* Lines 86-89: what is in the folder now; the aliases are forgotten.
Discover ==
  /\ pc' = "safe"
  /\ found' = {f \in Files : disk[f] # "absent"}
  /\ queue' = Sorted(found')
  /\ safe' = Nothing
  /\ used' = {}
  /\ made' = {}
  /\ backed' = {}
  /\ settled' = FALSE

\* The local variables of a refresh end with it.
Forget ==
  /\ opening' = FALSE
  /\ found' = {}
  /\ queue' = <<>>
  /\ safe' = Nothing
  /\ used' = {}
  /\ made' = {}

\* The object is gone, the database stays.
Gone ==
  /\ pc' = "closed"
  /\ readOnly' = FALSE
  /\ records' = {}
  /\ backed' = {}
  /\ settled' = FALSE
  /\ touched' = {}
  /\ Forget

Open ==
  /\ pc = "closed"
  /\ readOnly' \in BOOLEAN
  /\ opening' = TRUE
  /\ Discover
  /\ UNCHANGED <<disk, objects, records, touched, events>>

\* (Mutant: what is no alias is cleared away first.)
Refresh_Clearing ==
  /\ pc = "ready"
  /\ opening' = FALSE
  /\ Discover
  /\ objects' = [n \in Names |-> IF n \in backed THEN objects[n] ELSE Nothing]
  /\ UNCHANGED <<disk, readOnly, records, touched, events>>

Refresh ==
  /\ pc = "ready"
  /\ opening' = FALSE
  /\ Discover
  /\ UNCHANGED <<disk, objects, readOnly, records, touched, events>>

\* Line 92: a name that two files share gives way to the path.
Shared(f) == \E g \in found \ {f} : Stem[g] = Stem[f]

ExactAlias(f) == IF Shared(f) THEN Path[f] ELSE Stem[f]

\* Lines 93-95.
Free(base, n) ==
  /\ Numbered(base, n) \notin used
  /\ \A m \in 1 .. n - 1 : Numbered(base, m) \in used

SafeAlias(f) ==
  Numbered(Safe[ExactAlias(f)],
           CHOOSE n \in 1 .. Len(Order) : Free(Safe[ExactAlias(f)], n))

\* (Mutant: CREATE VIEW IF NOT EXISTS.)
Put_IfMissing(n, view) ==
  objects' = IF IsView(n) THEN objects ELSE [objects EXCEPT ![n] = view]

\* CREATE OR REPLACE VIEW.
Put(n, view) == objects' = [objects EXCEPT ![n] = view]

\* Line 96: the name is taken whether or not the view can be created.
Note(f) == used' = used \cup {SafeAlias(f)}

CreateSafe ==
  /\ pc = "safe" /\ queue # <<>>
  /\ LET f == Head(queue)
     IN  /\ safe' = SafeAlias(f)
         /\ Note(f)
         /\ IF CanCreateView(SafeAlias(f)) /\ disk[f] = "readable"
            THEN /\ Put(SafeAlias(f), Reader(f))
                 /\ pc' = IF ExactAlias(f) = SafeAlias(f) THEN "record" ELSE "exact"
            ELSE pc' = "failed" /\ UNCHANGED objects
  /\ UNCHANGED <<disk, readOnly, opening, found, queue, made, libraryVars, history, events>>

CreateExact ==
  /\ pc = "exact"
  /\ LET exact == ExactAlias(Head(queue))
     IN  IF CanCreateView(exact) /\ CanRead(safe)
         THEN /\ Put(exact, Alias(safe))
              /\ pc' = "record"
         ELSE pc' = "failed" /\ UNCHANGED objects
  /\ UNCHANGED <<disk, readOnly, refreshVars, libraryVars, history, events>>

\* A file that has gone fails p.stat(), here and once more in the handler.
NextFile(f, readable) ==
  /\ made' = made \cup {Record(f, safe, ExactAlias(f), readable)}
  /\ queue' = Tail(queue)
  /\ pc' = "safe"
  /\ UNCHANGED <<opening, found, used, safe>>

RecordFile ==
  /\ pc = "record"
  /\ LET f == Head(queue)
     IN  IF disk[f] # "absent"
         THEN /\ NextFile(f, TRUE)
              /\ backed' = backed \cup {safe, ExactAlias(f)}
         ELSE /\ pc' = "failed"
              /\ UNCHANGED <<refreshVars, backed>>
  /\ UNCHANGED <<disk, objects, readOnly, records, history, events>>

\* (Mutant: the aliases are noted whether or not the views were created.)
RecordFailure_Backed ==
  /\ pc = "failed"
  /\ LET f == Head(queue)
     IN  /\ disk[f] # "absent"
         /\ NextFile(f, FALSE)
         /\ backed' = backed \cup {safe, ExactAlias(f)}
  /\ UNCHANGED <<disk, objects, readOnly, records, history, events>>

RecordFailure ==
  /\ pc = "failed"
  /\ LET f == Head(queue)
     IN  disk[f] # "absent" /\ NextFile(f, FALSE)
  /\ UNCHANGED <<disk, objects, readOnly, libraryVars, history, events>>

\* p.stat() raises in the handler: the refresh ends, and with the constructor's
\* the object.
BreakOff ==
  /\ pc = "failed"
  /\ disk[Head(queue)] = "absent"
  /\ UNCHANGED <<disk, objects, events>>
  /\ IF opening
     THEN Gone
     ELSE /\ pc' = "ready"
          /\ Forget
          /\ UNCHANGED <<readOnly, libraryVars, history>>

Registered ==
  /\ pc = "safe" /\ queue = <<>>
  /\ records' = made
  /\ pc' = "ready"
  /\ settled' = TRUE
  /\ touched' = {}
  /\ Forget
  /\ UNCHANGED <<disk, objects, readOnly, backed, events>>
------------------------------------------------------------------------------
(***************************************************************************)
(* Statements of the caller.                                               *)
(***************************************************************************)
Event ==
  /\ events < MaxEvents
  /\ events' = events + 1

\* _guard, for a statement with a keyword of _DML and a target it recognizes.
Allowed(n) == ~ readOnly /\ n \notin backed

Statement(n, object) ==
  /\ pc = "ready"
  /\ Event
  /\ objects' = [objects EXCEPT ![n] = object]
  /\ UNCHANGED <<disk, pc, readOnly, refreshVars, libraryVars, settled>>

Dml(n) ==
  /\ Allowed(n) /\ IsTable(n)
  /\ Statement(n, Table(Edited))
  /\ UNCHANGED touched

DropTable(n) ==
  /\ Allowed(n) /\ IsTable(n)
  /\ Statement(n, Nothing)
  /\ UNCHANGED touched

\* The patterns of _dml_targets know no DROP VIEW: it passes for any alias.
DropView(n) ==
  /\ ~ readOnly /\ IsView(n)
  /\ Statement(n, Nothing)
  /\ touched' = touched \cup {n}

\* CREATE is none of the guarded keywords: a view of the caller's may take the
\* place of an alias ...
ReplaceView(n, f) ==
  /\ CanCreateView(n) /\ disk[f] = "readable"
  /\ Statement(n, Reader(f))
  /\ touched' = touched \cup {n}

\* ... and a table one that was dropped.
CreateTable(n, source, replace) ==
  /\ CanCreateTable(n, replace) /\ CanRead(source)
  /\ Statement(n, Table(Shows(source)))
  /\ UNCHANGED touched

Materialize(n, source, replace) ==
  /\ n \notin backed
  /\ CreateTable(n, source, replace)

\* The rows of any name are written to a file, which may be one of the folder.
Export(source, f) ==
  /\ pc = "ready"
  /\ CanRead(source)
  /\ Event
  /\ disk' = [disk EXCEPT ![f] = "readable"]
  /\ UNCHANGED <<objects, pc, readOnly, refreshVars, libraryVars, history>>

Close ==
  /\ pc = "ready"
  /\ Gone
  /\ UNCHANGED <<disk, objects, events>>
------------------------------------------------------------------------------
(***************************************************************************)
(* The environment.                                                        *)
(***************************************************************************)
FolderChanges(f) ==
  /\ disk' \in {[disk EXCEPT ![f] = s] : s \in {"absent", "readable", "unreadable"}}
  /\ disk' # disk
  /\ Event
  /\ UNCHANGED <<objects, pc, readOnly, refreshVars, libraryVars, history>>

Crash ==
  /\ pc \in Refreshing
  /\ Gone
  /\ Event
  /\ UNCHANGED <<disk, objects>>
------------------------------------------------------------------------------
Register ==
  \/ CreateSafe \/ CreateExact \/ RecordFile \/ RecordFailure \/ BreakOff
  \/ Registered

Targets == Managed \cup backed

Statements ==
  \/ \E n \in Names : Dml(n) \/ DropTable(n) \/ DropView(n)
  \/ \E n \in Targets, source \in Names, replace \in BOOLEAN :
       CreateTable(n, source, replace) \/ Materialize(n, source, replace)
  \/ \E n \in Targets, f \in Files : ReplaceView(n, f)
  \/ \E source \in Names, f \in Files : Export(source, f)

Next ==
  \/ Open \/ Refresh \/ Register \/ Close
  \/ Statements
  \/ Crash
  \/ \E f \in Files : FolderChanges(f)

Spec == Init /\ [][Next]_vars
------------------------------------------------------------------------------
(***************************************************************************)
(* Properties.                                                             *)
(***************************************************************************)
AliasesOf(r) == {r.table, r.exact}

\* Aliases that no other file has been given as well.
Distinct(r) ==
  \A q \in records \ {r} : AliasesOf(q) \cap AliasesOf(r) = {}

\* After a refresh both aliases of a readable file show that file and not
\* another one: what earlier refreshes and tables left behind does not hide
\* it, unless two files were given the same alias.
AliasShowsFile ==
  pc = "ready" /\ settled =>
    \A r \in records :
      r.readable /\ Distinct(r) /\ AliasesOf(r) \cap touched = {} =>
        \A n \in AliasesOf(r) : Shows(n) = r.file

\* docs/LOCAL_DATA_LIBRARY.md, line 12: "Each file receives an exact quoted
\* alias and a normalized alias."
EachFileHasItsAliases ==
  pc = "ready" /\ settled =>
    \A r \in records :
      r.readable /\ AliasesOf(r) \cap touched = {} =>
        \A n \in AliasesOf(r) : Shows(n) = r.file

\* Even where two files were given the same alias, it shows a file that the
\* refresh found and neither a file that is gone nor an old table.
ListedFilesShown ==
  pc = "ready" /\ settled /\ touched = {} =>
    \A r \in records : r.readable =>
      \A n \in AliasesOf(r) :
        End(n) \in Views /\ Shows(n) \in {q.file : q \in records}

\* What the guard refuses to change is a view of a file, also when a refresh
\* was broken off: a managed table is refused only where its name was an alias
\* that the caller dropped.
GuardsOnlyAliases ==
  pc = "ready" => \A n \in backed \ touched : IsView(n)

\* The records of the library agree with the database, in the types that the
\* module declares.
GuardIsSound == TypeOK /\ GuardsOnlyAliases

\* Opening and refreshing never change a managed table, though it has the
\* name of a file that turned up later, and statements change only their own.
TablesKept ==
  [][\A n \in Names : IsTable(n) /\ objects'[n] # objects[n] =>
       /\ pc = "ready"
       /\ \A m \in Names \ {n} : objects'[m] = objects[m]]_vars
==============================================================================
