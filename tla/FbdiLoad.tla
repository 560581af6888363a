------------------------------ MODULE FbdiLoad ------------------------------
(***************************************************************************)
(* Loading data with src/querysaas/fbdi.py: csv2fbdi, duckdb2fbdi and      *)
(* import_fbdi, from the selectors to the request that submits the job;    *)
(* and purge_fbdi, by the selectors of a load or by an option.             *)
(*                                                                         *)
(* A call resolves its selectors more than once: to find the job, to name  *)
(* the files of the archive, and in import_fbdi from the names of the      *)
(* files that are in the archive.  The archive stays on disk, whatever     *)
(* becomes of the call, and may be imported by a later one.  The registry  *)
(* is read on first use and kept by the connection; when that fails, the   *)
(* packaged one takes its place.                                           *)
(***************************************************************************)
EXTENDS FbdiRegistry, Sequences

CONSTANTS
  Registries,   \* what the instance's registry may be
  Packaged,     \* the packaged registry
  Sources,      \* CSV files or queries of the caller
  MaxSources,   \* bounds the sources of a call
  MaxCalls,     \* bounds the calls
  MaxFaults,    \* bounds failures and changes of the instance
  Unread,       \* no registry, _fbdi_job_rows is None
  NoJob

File == [control : Names, data : Sources]

\* An input of a call: what to load and the selector it goes by.
Input == [data : Sources, selector : Names]

ASSUME RegistriesAssumption ==
  /\ \A reg \in Registries \cup {Packaged} : reg \subseteq Rows /\ IsFiniteSet(reg)
  \* An option is a row of fun_erp_interface_options.
  /\ \A reg \in Registries \cup {Packaged} : \A q, r \in reg :
       q.option = r.option => q.object = r.object

ASSUME BoundsAssumption == MaxSources \in Nat /\ MaxCalls \in Nat /\ MaxFaults \in Nat

ASSUME SentinelsAssumption ==
  /\ Unread \notin Registries \cup {Packaged}
  /\ NoJob \notin Configurations

VARIABLES
  live,       \* the registry of the instance
  rows,       \* self._fbdi_job_rows
  pc,
  call,       \* the public function that was called
  inputs,     \* sources that are still to be put into the archive
  option,     \* interface_options_id of the resolution to come
  config,     \* the configuration that was resolved last
  named,      \* import_fbdi: the selectors given, none for the archive's names
  staged,     \* duckdb2fbdi: the files of its temporary directory
  files,      \* csv2fbdi: the entries written to the archive
  archive,    \* the archive at the destination
  jobs,       \* the jobs that the instance has accepted
  answer,     \* what the call returned or raised
  given,      \* history: the sources of the call
  first,      \* history: the configuration resolved first in the call
  meant,      \* history: the selectors it was resolved by
  before,     \* history: the jobs accepted before the call
  calls, faults

callVars == <<call, inputs, option, config, named, staged, files, given, first, meant>>
vars == <<live, rows, pc, callVars, archive, jobs, answer, before, calls, faults>>

\* A file at the destination is a zip file with its entries, or torn.
Whole(entries) == [state |-> "whole", files |-> entries]
Torn           == [state |-> "torn", files |-> {}]
NoArchive      == [state |-> "none", files |-> {}]

Job == [config : Configurations, files : SUBSET File,
        by : {"csv2fbdi", "duckdb2fbdi", "import_fbdi", "purge_fbdi"},
        given : SUBSET Sources, first : Configurations \cup {NoJob},
        meant : SUBSET Names, registry : {Packaged, Unread} \cup Registries,
        loads : SUBSET Nat]

TypeOK ==
  /\ live \in Registries
  /\ rows \in Registries \cup {Packaged, Unread}
  /\ pc \in {"idle", "resolve", "stage", "find", "pack", "import", "purge", "post"}
  /\ call \in {"none", "csv2fbdi", "duckdb2fbdi", "import_fbdi", "purge_fbdi"}
  /\ inputs \in Seq(Input) /\ Len(inputs) <= MaxSources
  /\ option \in Options \cup {AnyOption}
  /\ config \in Configurations \cup {NoJob}
  /\ pc \in {"stage", "pack", "post"} => config # NoJob
  /\ named \subseteq Names
  /\ staged \subseteq [control : Names, input : Input]
  /\ files \subseteq File
  /\ archive \in [state : {"none", "torn", "whole"}, files : SUBSET File]
  /\ pc \in {"import", "post"} /\ call # "purge_fbdi" => archive.state = "whole"
  /\ \A i \in 1 .. Len(jobs) : jobs[i] \in Job
  /\ answer \in {"none", "submitted", "unknown", "failed"}
  /\ given \subseteq Sources
  /\ first \in Configurations \cup {NoJob} /\ meant \subseteq Names
  /\ before \in 0 .. Len(jobs)
  /\ calls \in 0 .. MaxCalls
  /\ faults \in 0 .. MaxFaults

Init ==
  /\ live \in Registries
  /\ rows = Unread
  /\ pc = "idle"
  /\ call = "none"
  /\ inputs = <<>>
  /\ option = AnyOption
  /\ config = NoJob
  /\ named = {}
  /\ staged = {}
  /\ files = {}
  /\ archive = NoArchive
  /\ jobs = <<>>
  /\ answer = "none"
  /\ given = {}
  /\ first = NoJob /\ meant = {}
  /\ before = 0
  /\ calls = 0
  /\ faults = 0
------------------------------------------------------------------------------
Fault ==
  /\ faults < MaxFaults
  /\ faults' = faults + 1
  /\ UNCHANGED calls

Selectors == {inputs[i].selector : i \in DOMAIN inputs}

\* The local variables of a call end with it.
End(how) ==
  /\ pc' = "idle"
  /\ answer' = how
  /\ call' = "none"
  /\ inputs' = <<>>
  /\ option' = AnyOption
  /\ config' = NoJob
  /\ named' = {}
  /\ staged' = {}
  /\ files' = {}
  /\ given' = {}
  /\ first' = NoJob /\ meant' = {}
  /\ UNCHANGED before

Raise ==
  /\ End("failed")
  /\ UNCHANGED <<live, rows, jobs>>
------------------------------------------------------------------------------
(***************************************************************************)
(* The registry.                                                           *)
(***************************************************************************)
\* A live registry, or the packaged one when the query or its result fails.
Refreshed ==
  \/ rows' = live /\ UNCHANGED <<calls, faults>>
  \/ rows' = Packaged /\ Fault

RefreshJobs ==
  /\ pc = "idle"
  /\ Refreshed
  /\ UNCHANGED <<live, pc, callVars, archive, jobs, answer, before>>

\* get_fbdi_jobs(refresh=False).
GetJobs ==
  /\ pc = "idle"
  /\ rows = Unread
  /\ rows' = Packaged
  /\ UNCHANGED <<live, pc, callVars, archive, jobs, answer, before, calls, faults>>

\* _rows, on first use.
ReadRegistry ==
  /\ pc \in {"resolve", "find", "import", "purge"}
  /\ (call = "purge_fbdi" => option = AnyOption)
  /\ rows = Unread
  /\ Refreshed
  /\ UNCHANGED <<live, pc, callVars, archive, jobs, answer, before>>
------------------------------------------------------------------------------
(***************************************************************************)
(* The calls.                                                              *)
(***************************************************************************)
Begin(function, step, ins, ss, o) ==
  /\ pc = "idle"
  /\ calls < MaxCalls
  /\ calls' = calls + 1
  /\ UNCHANGED faults
  /\ pc' = step
  /\ call' = function
  /\ inputs' = ins
  /\ named' = ss
  /\ option' = o
  /\ given' = {ins[i].data : i \in DOMAIN ins}
  /\ before' = Len(jobs)
  /\ answer' = "none"
  /\ UNCHANGED <<live, rows, config, staged, files, first, meant, archive, jobs>>

\* Each source once; the keys of a dictionary of queries are different.
Inputs ==
  {ins \in UNION {[1 .. n -> Input] : n \in 1 .. MaxSources} :
     \A i, j \in DOMAIN ins : ins[i].data = ins[j].data => i = j}

KeysDiffer(ins) ==
  \A i, j \in DOMAIN ins : ins[i].selector = ins[j].selector => i = j

CallCsv(ins, o) == Begin("csv2fbdi", "find", ins, {}, o)

CallDuckDb(ins, o) ==
  /\ KeysDiffer(ins)
  /\ Begin("duckdb2fbdi", "resolve", ins, {}, o)

\* What is not a zip file is refused at once.
CallImport(ss, o) ==
  /\ archive.state = "whole"
  /\ Begin("import_fbdi", "import", <<>>, ss, o)

\* By the selectors ss; the first configuration of a call is what it is about.
Settle(ss) ==
  /\ config' = Resolved(rows, ss, option)
  /\ first' = IF first = NoJob THEN config' ELSE first
  /\ meant' = IF first = NoJob THEN ss \ {Blank} ELSE meant

\* duckdb2fbdi, before it opens the database.
Resolve ==
  /\ pc = "resolve" /\ rows # Unread
  /\ IF Resolves(rows, Selectors, option)
     THEN /\ Settle(Selectors)
          /\ pc' = "stage"
          /\ UNCHANGED <<live, rows, call, inputs, option, named, staged, files,
                         given, archive, jobs, answer, before>>
     ELSE Raise /\ UNCHANGED archive
  /\ UNCHANGED <<calls, faults>>

\* One query: its file takes the place of another one of that name.
StageFile ==
  /\ pc = "stage" /\ inputs # <<>>
  /\ LET in == Head(inputs)
         controls == Controls(rows, in.selector, config)
     IN  IF \E c \in Names : controls = {c}
         THEN /\ staged' = {e \in staged : e.control \notin controls}
                           \cup {[control |-> c, input |-> in] : c \in controls}
              /\ inputs' = Tail(inputs)
              /\ UNCHANGED <<live, rows, pc, call, option, config, named, files,
                             given, first, meant, archive, jobs, answer, before>>
         ELSE Raise /\ UNCHANGED archive
  /\ UNCHANGED <<calls, faults>>

QueryFails ==
  /\ pc = "stage" /\ inputs # <<>>
  /\ Fault
  /\ Raise /\ UNCHANGED archive

\* The staged files are given to csv2fbdi.
StageDone ==
  /\ pc = "stage" /\ inputs = <<>>
  /\ pc' = "find"
  /\ inputs' \in {ins \in Inputs :
       /\ Len(ins) = Cardinality(staged)
       /\ {ins[i] : i \in DOMAIN ins} = {e.input : e \in staged}}
  /\ option' = config.option
  /\ UNCHANGED <<live, rows, call, config, named, staged, files, given, first, meant,
                 archive, jobs, answer, before, calls, faults>>

\* csv2fbdi finds the job and opens the archive, which loses what it held.
Find ==
  /\ pc = "find" /\ rows # Unread
  /\ IF Resolves(rows, Selectors, option)
     THEN /\ Settle(Selectors)
          /\ pc' = "pack"
          /\ archive' = Torn
          /\ UNCHANGED <<live, rows, call, inputs, option, named, staged, files,
                         given, jobs, answer, before>>
     ELSE Raise /\ UNCHANGED archive
  /\ UNCHANGED <<calls, faults>>

\* A source is missing: the archive has not been opened.
SourceMissing ==
  /\ pc = "find" /\ rows # Unread
  /\ Fault
  /\ Raise /\ UNCHANGED archive

\* A mutant without the check of duplicate names.
PackFile_Duplicates ==
  /\ pc = "pack" /\ inputs # <<>>
  /\ LET in == Head(inputs)
         controls == Controls(rows, in.selector, config)
     IN  IF \E c \in Names : controls = {c}
         THEN /\ files' = files \cup {[control |-> c, data |-> in.data] : c \in controls}
              /\ inputs' = Tail(inputs)
              /\ UNCHANGED <<live, rows, pc, call, option, config, named, staged,
                             given, first, meant, archive, jobs, answer, before>>
         ELSE Raise /\ archive' = Whole(files)
  /\ UNCHANGED <<calls, faults>>

\* An exception closes the archive with the entries that it has.
PackFile ==
  /\ pc = "pack" /\ inputs # <<>>
  /\ LET in == Head(inputs)
         controls == Controls(rows, in.selector, config)
     IN  IF /\ \E c \in Names : controls = {c}
            /\ \A f \in files : f.control \notin controls
         THEN /\ files' = files \cup {[control |-> c, data |-> in.data] : c \in controls}
              /\ inputs' = Tail(inputs)
              /\ UNCHANGED <<live, rows, pc, call, option, config, named, staged,
                             given, first, meant, archive, jobs, answer, before>>
         ELSE Raise /\ archive' = Whole(files)
  /\ UNCHANGED <<calls, faults>>

WriteFails ==
  /\ pc = "pack"
  /\ Fault
  /\ Raise
  /\ archive' \in {Whole(files), Torn}

\* A mutant that imports without the option that was resolved.
PackDone_AnyOption ==
  /\ pc = "pack" /\ inputs = <<>>
  /\ archive' = Whole(files)
  /\ pc' = "import"
  /\ option' = AnyOption
  /\ UNCHANGED <<live, rows, call, inputs, config, named, staged, files, given,
                 first, meant, jobs, answer, before, calls, faults>>

PackDone ==
  /\ pc = "pack" /\ inputs = <<>>
  /\ archive' = Whole(files)
  /\ pc' = "import"
  /\ option' = config.option
  /\ UNCHANGED <<live, rows, call, inputs, config, named, staged, files, given,
                 first, meant, jobs, answer, before, calls, faults>>

\* import_fbdi: without selectors, the names in the archive are selectors.
ImportSelectors ==
  IF named \ {Blank} # {} THEN named ELSE {f.control : f \in archive.files}

Import ==
  /\ pc = "import" /\ rows # Unread
  /\ IF Resolves(rows, ImportSelectors, option)
     THEN /\ Settle(ImportSelectors)
          /\ pc' = "post"
          /\ UNCHANGED <<live, rows, call, inputs, option, named, staged, files,
                         given, archive, jobs, answer, before>>
     ELSE Raise /\ UNCHANGED archive
  /\ UNCHANGED <<calls, faults>>

\* A mutant that takes one of several configurations.
Purge_AnyConfiguration ==
  /\ pc = "purge" /\ rows # Unread
  /\ \/ /\ \E c \in Agreed(rows, named, option) : config' = c /\ first' = c
        /\ meant' = named /\ pc' = "post"
        /\ UNCHANGED <<live, rows, call, inputs, option, named, staged, files, given,
                       archive, jobs, answer, before>>
     \/ Agreed(rows, named, option) = {} /\ Raise /\ UNCHANGED archive
  /\ UNCHANGED <<calls, faults>>

\* purge_fbdi: an option is taken as it is, selectors are resolved.
Purge ==
  /\ pc = "purge"
  /\ \/ /\ option # AnyOption
        /\ config' = [option |-> option, object |-> Blank]
        /\ pc' = "post"
        /\ UNCHANGED <<live, rows, call, inputs, option, named, staged, files, given,
                       first, meant, archive, jobs, answer, before>>
     \/ /\ option = AnyOption /\ rows # Unread /\ Resolves(rows, named, option)
        /\ Settle(named)
        /\ pc' = "post"
        /\ UNCHANGED <<live, rows, call, inputs, option, named, staged, files, given,
                       archive, jobs, answer, before>>
     \/ /\ option = AnyOption /\ rows # Unread /\ ~ Resolves(rows, named, option)
        /\ Raise /\ UNCHANGED archive
  /\ UNCHANGED <<calls, faults>>

\* The request ids of a purge, one or a range, are arguments of the call.
Loads ==
  IF call = "purge_fbdi" THEN {lo .. hi : lo, hi \in 1 .. Len(jobs)} \ {{}} ELSE {{}}

Accepted ==
  \E loads \in Loads :
    jobs' = Append(jobs,
      [config |-> config, files |-> IF call = "purge_fbdi" THEN {} ELSE archive.files,
       by |-> call, given |-> given, first |-> first, meant |-> meant,
       registry |-> rows, loads |-> loads])

\* A mutant that retries a request without an answer.
Post_Retried ==
  /\ pc = "post"
  /\ \/ Accepted /\ End("submitted") /\ UNCHANGED <<calls, faults>>
     \/ (Accepted \/ UNCHANGED jobs) /\ UNCHANGED <<pc, callVars, answer, before>> /\ Fault
  /\ UNCHANGED <<live, rows, archive>>

\* _post: one request, and only a ReqstId is a success.  What raises leaves open
\* whether the job was submitted: no answer, one that is not JSON or has no
\* ReqstId, but also the "rejected" of any status of failure, which something
\* between the instance and the client may have sent.
Post ==
  /\ pc = "post"
  /\ \/ Accepted /\ End("submitted") /\ UNCHANGED <<calls, faults>>
     \/ (Accepted \/ UNCHANGED jobs) /\ End("unknown") /\ Fault
  /\ UNCHANGED <<live, rows, archive>>

RegistryChanges ==
  /\ live' \in Registries \ {live}
  /\ Fault
  /\ UNCHANGED <<rows, pc, callVars, archive, jobs, answer, before>>

\* The process is killed; the next one begins with no registry.
Crash ==
  /\ pc # "idle"
  /\ Fault
  /\ End("none")
  /\ rows' = Unread
  /\ UNCHANGED <<live, archive, jobs>>
------------------------------------------------------------------------------
\* By an option, or by the selectors that a load was made with.
CallPurge(ss, o) == jobs # <<>> /\ Begin("purge_fbdi", "purge", <<>>, ss, o)

Call ==
  \E o \in Options \cup {AnyOption} :
    \/ \E i \in DOMAIN jobs : CallPurge(IF o = AnyOption THEN jobs[i].meant ELSE {}, o)
    \/ \E ins \in Inputs : CallCsv(ins, o) \/ CallDuckDb(ins, o)
    \/ \E ss \in SUBSET Names : Cardinality(ss) <= MaxSources /\ CallImport(ss, o)

Stage   == StageFile \/ QueryFails \/ StageDone
Pack    == Find \/ SourceMissing \/ PackFile \/ WriteFails \/ PackDone

Next ==
  \/ RefreshJobs \/ GetJobs \/ ReadRegistry \/ RegistryChanges
  \/ Call \/ Resolve \/ Stage \/ Pack \/ Import \/ Purge \/ Post
  \/ Crash

Spec == Init /\ [][Next]_vars
------------------------------------------------------------------------------
(***************************************************************************)
(* Properties.                                                             *)
(***************************************************************************)
\* csv2fbdi submits each source that it was given, or nothing; duckdb2fbdi
\* submits no other file than its own; and no two files go by one name.  An
\* archive of another call, or given up half way, never goes under their names.
FilesOfTheCall ==
  \A i \in 1 .. Len(jobs) :
    LET loaded == {f.data : f \in jobs[i].files}
    IN  jobs[i].by \in {"csv2fbdi", "duckdb2fbdi"} =>
          /\ loaded # {} /\ loaded \subseteq jobs[i].given
          /\ jobs[i].by = "csv2fbdi" => loaded = jobs[i].given
          /\ \A f, g \in jobs[i].files : f.control = g.control => f = g

\* The job that is submitted is the one that the caller's selectors resolved
\* to, though it is resolved anew from the names in the archive.
SameJob ==
  \A i \in 1 .. Len(jobs) :
    jobs[i].by # "purge_fbdi" => jobs[i].config = jobs[i].first

\* A purge by the selectors of a load names the option that was loaded, also one
\* that the caller had given then and left out now, as long as the connection
\* has the registry that the load had.
PurgesTheLoad ==
  \A i, l \in 1 .. Len(jobs) :
    /\ l \in jobs[i].loads /\ jobs[l].by # "purge_fbdi"
    /\ jobs[i].meant = jobs[l].meant /\ jobs[i].registry = jobs[l].registry
    => jobs[i].config.option = jobs[l].config.option

\* A call submits at most once.  One that says so has submitted, and one that
\* fails before it posts has not; what raised after the request tells neither.
AnswerIsTrue ==
  /\ Len(jobs) <= before + 1
  /\ pc # "idle" => Len(jobs) = before
  /\ answer = "submitted" => Len(jobs) = before + 1
  /\ answer = "failed" => Len(jobs) = before

\* What a call reports is true, in the types that the module declares.
ReportIsTrue == TypeOK /\ AnswerIsTrue
==============================================================================
