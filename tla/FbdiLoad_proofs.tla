--------------------------- MODULE FbdiLoad_proofs ---------------------------
(***************************************************************************)
(* Theorems about FbdiLoad, for all registries and names, any number of    *)
(* sources, calls and faults.                                              *)
(***************************************************************************)
EXTENDS FbdiLoad, FiniteSetTheorems, FunctionTheorems, SequenceTheorems, TLAPS

(***************************************************************************)
(* The inductive invariant.                                                *)
(***************************************************************************)
Types ==
  /\ live \in Registries
  /\ rows \in Registries \cup {Packaged, Unread}
  /\ pc \in {"idle", "resolve", "stage", "find", "pack", "import", "purge", "post"}
  /\ call \in {"none", "csv2fbdi", "duckdb2fbdi", "import_fbdi", "purge_fbdi"}
  /\ inputs \in Seq(Input) /\ Len(inputs) <= MaxSources
  /\ option \in Options \cup {AnyOption}
  /\ config \in Configurations \cup {NoJob}
  /\ named \subseteq Names
  /\ staged \subseteq [control : Names, input : Input]
  /\ files \subseteq File
  /\ archive \in [state : {"none", "torn", "whole"}, files : SUBSET File]
  /\ jobs \in Seq(Job)
  /\ answer \in {"none", "submitted", "unknown", "failed"}
  /\ given \subseteq Sources
  /\ first \in Configurations \cup {NoJob} /\ meant \subseteq Names
  /\ before \in 0 .. Len(jobs)
  /\ calls \in 0 .. MaxCalls
  /\ faults \in 0 .. MaxFaults

Packing == {"csv2fbdi", "duckdb2fbdi"}

\* Which step a call can be at.
StepsOfCalls ==
  /\ pc = "idle" <=> call = "none"
  /\ pc \in {"resolve", "stage"} => call = "duckdb2fbdi"
  /\ pc \in {"find", "pack"} => call \in Packing
  /\ pc = "import" => call \in Packing \cup {"import_fbdi"}
  /\ pc = "purge" => call = "purge_fbdi"
  /\ pc \in {"import", "post"} /\ call # "purge_fbdi" => archive.state = "whole"

\* A call has not submitted before it posts.
NotYet ==
  /\ pc # "idle" => answer = "none" /\ Len(jobs) = before
  /\ Len(jobs) <= before + 1
  /\ answer = "submitted" => Len(jobs) = before + 1
  /\ answer = "failed" => Len(jobs) = before

\* The configuration a call is about is one that its selectors agree on in the
\* registry that the connection keeps; later resolutions are given its option.
AboutFirst ==
  /\ pc \in {"idle", "resolve", "purge"} => first = NoJob
  /\ first = NoJob => meant = {}
  /\ first # NoJob =>
       /\ rows # Unread
       /\ meant # {} /\ Blank \notin meant
       /\ first \in Agreed(rows, meant, AnyOption)
       /\ pc \in {"find", "import"} => option = first.option
       /\ pc \in {"stage", "pack", "post"} => config = first
       /\ pc = "post" /\ call = "purge_fbdi" => Agreed(rows, meant, AnyOption) = {first}
  /\ pc \in {"stage", "pack"} => first # NoJob
  /\ pc = "post" => config # NoJob /\ (call # "purge_fbdi" => first # NoJob)

DataOf(ins) == {ins[i].data : i \in DOMAIN ins}

OneName(fs) == \A f, g \in fs : f.control = g.control => f = g

\* The files that a call submits.
Complete(by, fs, sources) ==
  /\ fs # {} /\ {f.data : f \in fs} \subseteq sources /\ OneName(fs)
  /\ by = "csv2fbdi" => {f.data : f \in fs} = sources

\* What a call has packed and what it has yet to pack are what it was given.
FilesSoFar ==
  /\ pc = "idle" => staged = {}
  /\ pc \in {"idle", "resolve", "stage", "find"} =>
       files = {} /\ DataOf(inputs) \subseteq given /\ {e.input.data : e \in staged} \subseteq given
  /\ pc = "find" /\ call = "csv2fbdi" => DataOf(inputs) = given
  /\ pc = "pack" =>
       LET sources == {f.data : f \in files} \cup DataOf(inputs)
       IN  /\ OneName(files)
           /\ files # {} \/ inputs # <<>>
           /\ sources \subseteq given /\ (call = "csv2fbdi" => sources = given)
  /\ pc \in {"import", "post"} /\ call \in Packing => Complete(call, archive.files, given)

JobIsSound(job) ==
  /\ job.by \in Packing => Complete(job.by, job.files, job.given)
  /\ job.by # "purge_fbdi" =>
       /\ job.config = job.first /\ job.loads = {}
       /\ job.meant # {}
       /\ job.config \in Agreed(job.registry, job.meant, AnyOption)
  /\ job.by = "purge_fbdi" =>
       job.meant = {} \/ Agreed(job.registry, job.meant, AnyOption) = {job.config}

JobsAreSound == \A i \in 1 .. Len(jobs) : JobIsSound(jobs[i])

IndInv ==
  Types /\ StepsOfCalls /\ NotYet /\ AboutFirst /\ FilesSoFar /\ JobsAreSound
------------------------------------------------------------------------------
(***************************************************************************)
(* Resolutions.                                                            *)
(***************************************************************************)
\* Only finitely many configurations are agreed on in a finite registry.
LEMMA AgreedFinite ==
  ASSUME NEW reg, IsFiniteSet(reg), NEW ss, NEW o
  PROVE  IsFiniteSet(Agreed(reg, ss, o))
<1> DEFINE all == {Configuration(r) : r \in reg}
           f   == [r \in reg |-> Configuration(r)]
<1>1. f \in Surjection(reg, all)
  <2>1. f \in [reg -> all] /\ \A c \in all : \E r \in reg : f[r] = c
    OBVIOUS
  <2> HIDE DEF f, all
  <2>2. QED
    BY <2>1, Fun_IsSurj
<1>2. IsFiniteSet(all)
  <2> HIDE DEF f, all
  <2>1. QED
    BY <1>1, FS_Surjection
<1>3. Agreed(reg, ss, o) \in SUBSET all
  BY DEF Agreed
<1>4. QED
  BY <1>2, <1>3, FS_Subset

\* What resolves has one configuration, the one that it resolves to.
LEMMA ResolvedIsAgreed ==
  ASSUME NEW reg, IsFiniteSet(reg), NEW ss, NEW o, Resolves(reg, ss, o)
  PROVE  /\ Agreed(reg, ss, o) = {Resolved(reg, ss, o)}
         /\ ss \ {Blank} # {}
<1>1. IsFiniteSet(Agreed(reg, ss, o)) /\ Cardinality(Agreed(reg, ss, o)) = 1
  BY AgreedFinite DEF Resolves
<1>2. PICK c : Agreed(reg, ss, o) = {c}
  BY <1>1, FS_Singleton
<1>3. Resolved(reg, ss, o) = c
  BY <1>2 DEF Resolved
<1>4. QED
  BY <1>2, <1>3 DEF Resolves

\* An empty selector says nothing, and an option narrows a resolution.
LEMMA AgreedNarrows ==
  ASSUME NEW reg, NEW ss, NEW o
  PROVE  /\ Agreed(reg, ss, o) \subseteq Agreed(reg, ss \ {Blank}, AnyOption)
         /\ Agreed(reg, ss, AnyOption) = Agreed(reg, ss \ {Blank}, AnyOption)
<1>1. \A s : Candidates(reg, s, o) \subseteq Candidates(reg, s, AnyOption)
  BY DEF Candidates
<1>2. (ss \ {Blank}) \ {Blank} = ss \ {Blank}
  OBVIOUS
<1>3. QED
  BY <1>1, <1>2 DEF Agreed

LEMMA AgreedTypes ==
  ASSUME NEW reg \in Registries \cup {Packaged}, NEW ss, NEW o
  PROVE  Agreed(reg, ss, o) \subseteq Configurations
BY RegistriesAssumption DEF Agreed, Configuration, Configurations, Rows

\* An option has one object: two configurations of a registry that have the same
\* option are the same.
LEMMA OptionDetermines ==
  ASSUME NEW reg \in Registries \cup {Packaged}, NEW ss, NEW tt, NEW o, o # AnyOption,
         ss \ {Blank} # {}, NEW c \in Agreed(reg, ss, o), NEW d \in Agreed(reg, tt, AnyOption),
         d.option = o
  PROVE  c = d
<1>1. PICK s \in ss \ {Blank} : TRUE
  OBVIOUS
<1>2. PICK q \in reg : c = Configuration(q) /\ q.option = o
  BY <1>1 DEF Agreed, Candidates, Matching
<1>3. PICK r \in reg : d = Configuration(r)
  BY DEF Agreed
<1>4. q.option = r.option
  BY <1>2, <1>3 DEF Configuration
<1>5. q.object = r.object
  BY <1>4, RegistriesAssumption
<1>6. QED
  BY <1>2, <1>3, <1>4, <1>5 DEF Configuration

\* The first resolution of a call says what the call is about; each later one
\* comes to the same.
LEMMA SettleKeeps ==
  ASSUME IndInv, rows # Unread, NEW ss \in SUBSET Names, Resolves(rows, ss, option),
         first # NoJob => option = first.option, Settle(ss)
  PROVE  /\ config' = first' /\ first' \in Configurations /\ first' # NoJob
         /\ meant' \subseteq Names /\ meant' # {} /\ Blank \notin meant'
         /\ first' \in Agreed(rows, meant', AnyOption)
         /\ first = NoJob /\ option = AnyOption => Agreed(rows, meant', AnyOption) = {first'}
<1>1. rows \in Registries \cup {Packaged} /\ IsFiniteSet(rows)
  BY RegistriesAssumption DEF IndInv, Types
<1> DEFINE c == Resolved(rows, ss, option)
<1>2. Agreed(rows, ss, option) = {c} /\ ss \ {Blank} # {} /\ config' = c
  BY <1>1, ResolvedIsAgreed DEF Settle
<1>3. c \in Configurations /\ c # NoJob
  BY <1>1, <1>2, AgreedTypes, SentinelsAssumption
<1>4. c \in Agreed(rows, ss \ {Blank}, AnyOption)
  BY <1>2, AgreedNarrows
<1>5. CASE first = NoJob
  <2>1. first' = c /\ meant' = ss \ {Blank}
    BY <1>2, <1>5 DEF Settle
  <2>2. option = AnyOption => Agreed(rows, ss \ {Blank}, AnyOption) = {c}
    BY <1>2, AgreedNarrows
  <2> HIDE DEF c
  <2>3. QED
    BY <1>2, <1>3, <1>4, <2>1, <2>2
<1>6. CASE first # NoJob
  <2>1. first' = first /\ meant' = meant
    BY <1>6 DEF Settle
  <2>2. /\ first \in Agreed(rows, meant, AnyOption) /\ meant # {} /\ Blank \notin meant
        /\ first \in Configurations /\ meant \subseteq Names
    BY <1>6 DEF IndInv, AboutFirst, Types
  <2>3. first.option \in Options
    BY <2>2 DEF Configurations
  <2>4. option # AnyOption
    BY <1>6, <2>3, NamesAssumption
  <2> HIDE DEF c
  <2>5. c = first
    BY <1>1, <1>2, <1>6, <2>2, <2>4, OptionDetermines
  <2>6. QED
    BY <1>2, <1>6, <2>1, <2>2, <2>5
<1>7. QED
  BY <1>5, <1>6
------------------------------------------------------------------------------
(***************************************************************************)
(* Steps that end a call.                                                  *)
(***************************************************************************)
LEMMA CountersKeep ==
  ASSUME Types, Fault \/ UNCHANGED <<calls, faults>>
  PROVE  calls' \in 0 .. MaxCalls /\ faults' \in 0 .. MaxFaults
BY BoundsAssumption DEF Types, Fault

\* Nothing of a call is left when it ends.
LEMMA EndKeeps ==
  ASSUME IndInv, NEW how \in {"none", "submitted", "unknown", "failed"}, End(how),
         live' \in Registries, rows' \in Registries \cup {Packaged, Unread},
         archive' \in [state : {"none", "torn", "whole"}, files : SUBSET File],
         jobs' \in Seq(Job), Len(jobs') \in {before, before + 1},
         how = "submitted" => Len(jobs') = before + 1,
         how = "failed" => Len(jobs') = before,
         Fault \/ UNCHANGED <<calls, faults>>, JobsAreSound'
  PROVE  IndInv'
<1>1. /\ pc' = "idle" /\ call' = "none" /\ answer' = how /\ inputs' = <<>>
      /\ option' = AnyOption /\ config' = NoJob /\ named' = {} /\ staged' = {}
      /\ files' = {} /\ given' = {} /\ first' = NoJob /\ meant' = {} /\ before' = before
  BY DEF End
<1>2. inputs' \in Seq(Input) /\ Len(inputs') <= MaxSources
  BY <1>1, BoundsAssumption, EmptySeq
<1>3. before \in Nat
  BY LenProperties DEF IndInv, Types
<1>4. Types'
  <2>1. before' \in 0 .. Len(jobs')
    BY <1>1, <1>3
  <2>2. calls' \in 0 .. MaxCalls /\ faults' \in 0 .. MaxFaults
    BY CountersKeep DEF IndInv
  <2>3. QED
    BY <1>1, <1>2, <2>1, <2>2 DEF Types
<1>5. StepsOfCalls' /\ AboutFirst' /\ FilesSoFar'
  BY <1>1 DEF StepsOfCalls, AboutFirst, FilesSoFar, DataOf, Packing
<1>6. NotYet'
  BY <1>1, <1>3 DEF NotYet
<1>7. QED
  BY <1>4, <1>5, <1>6 DEF IndInv

LEMMA RaiseKeeps ==
  ASSUME IndInv, pc # "idle", Raise, Fault \/ UNCHANGED <<calls, faults>>,
         archive' \in [state : {"none", "torn", "whole"}, files : SUBSET File]
  PROVE  IndInv'
<1>1. End("failed") /\ UNCHANGED <<live, rows, jobs>>
  BY DEF Raise
<1>2. Len(jobs') = before
  BY <1>1 DEF IndInv, NotYet
<1>3. JobsAreSound'
  BY <1>1 DEF IndInv, JobsAreSound
<1>4. /\ live' \in Registries /\ rows' \in Registries \cup {Packaged, Unread}
      /\ jobs' \in Seq(Job)
  BY <1>1 DEF IndInv, Types
<1>5. QED
  BY <1>1, <1>2, <1>3, <1>4, EndKeeps
------------------------------------------------------------------------------
(***************************************************************************)
(* Steps that read the registry, and beginnings.                           *)
(***************************************************************************)
\* The sources of a call are a sequence.
LEMMA InputsAreSeqs ==
  ASSUME NEW ins \in Inputs
  PROVE  ins \in Seq(Input) /\ Len(ins) <= MaxSources /\ DataOf(ins) \subseteq Sources
<1>1. PICK n \in 1 .. MaxSources : ins \in [1 .. n -> Input]
  BY DEF Inputs
<1>2. ins \in Seq(Input) /\ Len(ins) = n
  BY <1>1, BoundsAssumption
<1>3. DataOf(ins) \subseteq Sources
  BY <1>1 DEF DataOf, Input
<1>4. QED
  BY <1>1, <1>2, <1>3, BoundsAssumption

\* The registry is read when there is none, or between calls.
LEMMA RegistryKeeps ==
  ASSUME IndInv, RefreshJobs \/ GetJobs \/ ReadRegistry \/ RegistryChanges
  PROVE  IndInv'
<1>1. UNCHANGED <<pc, callVars, archive, jobs, answer, before>>
  BY DEF RefreshJobs, GetJobs, ReadRegistry, RegistryChanges
<1>2. live' \in Registries /\ rows' \in Registries \cup {Packaged, Unread}
  BY DEF RefreshJobs, GetJobs, ReadRegistry, RegistryChanges, Refreshed, IndInv, Types
<1>3. calls' \in 0 .. MaxCalls /\ faults' \in 0 .. MaxFaults
  BY CountersKeep
     DEF RefreshJobs, GetJobs, ReadRegistry, RegistryChanges, Refreshed, IndInv
<1>4. Types'
  BY <1>1, <1>2, <1>3 DEF callVars, IndInv, Types
<1>5. first # NoJob => rows' = rows
  BY DEF RefreshJobs, GetJobs, ReadRegistry, RegistryChanges, IndInv, AboutFirst
<1>6. AboutFirst'
  <2>1. CASE first = NoJob
    BY <1>1, <2>1 DEF callVars, IndInv, AboutFirst
  <2>2. CASE first # NoJob
    BY <1>1, <1>5, <2>2 DEF callVars, IndInv, AboutFirst
  <2>3. QED
    BY <2>1, <2>2
<1>7. StepsOfCalls' /\ NotYet' /\ FilesSoFar' /\ JobsAreSound'
  BY <1>1 DEF callVars, IndInv, StepsOfCalls, NotYet, FilesSoFar, DataOf, JobsAreSound
<1>8. QED
  BY <1>4, <1>6, <1>7 DEF IndInv

LEMMA BeginKeeps ==
  ASSUME IndInv,
         NEW function \in {"csv2fbdi", "duckdb2fbdi", "import_fbdi", "purge_fbdi"},
         NEW step \in {"resolve", "find", "import", "purge"},
         NEW ins \in Seq(Input), Len(ins) <= MaxSources, DataOf(ins) \subseteq Sources,
         NEW ss \in SUBSET Names, NEW o \in Options \cup {AnyOption},
         step = "resolve" => function = "duckdb2fbdi",
         step = "find"    => function = "csv2fbdi",
         step = "import"  => function = "import_fbdi" /\ archive.state = "whole",
         step = "purge"   => function = "purge_fbdi",
         Begin(function, step, ins, ss, o)
  PROVE  IndInv'
<1>1. /\ pc = "idle" /\ pc' = step /\ call' = function /\ inputs' = ins /\ named' = ss
      /\ option' = o /\ given' = DataOf(ins) /\ before' = Len(jobs) /\ answer' = "none"
      /\ UNCHANGED <<live, rows, config, staged, files, first, meant, archive, jobs, faults>>
      /\ calls' = calls + 1 /\ calls < MaxCalls
  BY DEF Begin, DataOf
<1>2. calls' \in 0 .. MaxCalls
  BY <1>1, BoundsAssumption DEF IndInv, Types
<1>3. Len(jobs) \in Nat
  BY LenProperties DEF IndInv, Types
<1>4. Types'
  BY <1>1, <1>2, <1>3 DEF IndInv, Types
<1>5. StepsOfCalls' /\ NotYet'
  BY <1>1, <1>3 DEF StepsOfCalls, NotYet, Packing
<1>6. AboutFirst'
  BY <1>1 DEF IndInv, AboutFirst
<1>7. FilesSoFar'
  <2>1. files' = {} /\ staged' = {} /\ given' = DataOf(inputs')
    BY <1>1 DEF IndInv, FilesSoFar
  <2>2. QED
    BY <1>1, <2>1 DEF FilesSoFar, Packing
<1>8. JobsAreSound'
  BY <1>1 DEF IndInv, JobsAreSound
<1>9. QED
  BY <1>4, <1>5, <1>6, <1>7, <1>8 DEF IndInv

LEMMA CallKeeps ==
  ASSUME IndInv, Call
  PROVE  IndInv'
<1>1. /\ <<>> \in Seq(Input) /\ Len(<<>>) <= MaxSources /\ DataOf(<<>>) \subseteq Sources
  BY EmptySeq, BoundsAssumption DEF DataOf
<1>2. ASSUME NEW o \in Options \cup {AnyOption}, NEW ins \in Inputs, CallCsv(ins, o)
      PROVE  IndInv'
  BY <1>2, InputsAreSeqs, BeginKeeps DEF CallCsv
<1>3. ASSUME NEW o \in Options \cup {AnyOption}, NEW ins \in Inputs, CallDuckDb(ins, o)
      PROVE  IndInv'
  BY <1>3, InputsAreSeqs, BeginKeeps DEF CallDuckDb
<1>4. ASSUME NEW o \in Options \cup {AnyOption}, NEW ss \in SUBSET Names, CallImport(ss, o)
      PROVE  IndInv'
  BY <1>1, <1>4, BeginKeeps DEF CallImport
<1>5. ASSUME NEW o \in Options \cup {AnyOption}, NEW ss \in SUBSET Names, CallPurge(ss, o)
      PROVE  IndInv'
  BY <1>1, <1>5, BeginKeeps DEF CallPurge
<1>6. ASSUME NEW i \in DOMAIN jobs PROVE jobs[i].meant \in SUBSET Names
  <2>1. jobs[i] \in Job
    BY LenProperties, ElementOfSeq DEF IndInv, Types
  <2>2. QED
    BY <2>1 DEF Job
<1>7. QED
  BY <1>2, <1>3, <1>4, <1>5, <1>6 DEF Call
------------------------------------------------------------------------------
(***************************************************************************)
(* Steps of a call.                                                        *)
(***************************************************************************)
\* The sources that are left are the first of them and those after it.
LEMMA HeadOfInputs ==
  ASSUME NEW ins \in Seq(Input), ins # <<>>
  PROVE  /\ Head(ins) \in Input /\ Tail(ins) \in Seq(Input)
         /\ Len(Tail(ins)) <= Len(ins)
         /\ DataOf(ins) = {Head(ins).data} \cup DataOf(Tail(ins))
<1>1. /\ Head(ins) \in Input /\ Tail(ins) \in Seq(Input) /\ Len(Tail(ins)) = Len(ins) - 1
      /\ \A i \in 1 .. Len(Tail(ins)) : Tail(ins)[i] = ins[i + 1]
      /\ Len(ins) \in Nat \ {0}
      /\ DOMAIN ins = 1 .. Len(ins) /\ DOMAIN Tail(ins) = 1 .. Len(Tail(ins))
      /\ Head(ins) = ins[1]
  BY HeadTailProperties, LenProperties, EmptySeq
<1>2. DataOf(ins) \subseteq {Head(ins).data} \cup DataOf(Tail(ins))
  <2>1. ASSUME NEW i \in 1 .. Len(ins), i # 1 PROVE ins[i].data \in DataOf(Tail(ins))
    <3>1. i - 1 \in 1 .. Len(Tail(ins)) /\ ins[i] = Tail(ins)[i - 1]
      BY <1>1, <2>1
    <3>2. QED
      BY <1>1, <3>1 DEF DataOf
  <2>2. QED
    BY <1>1, <2>1 DEF DataOf
<1>3. DataOf(Tail(ins)) \subseteq DataOf(ins)
  <2>1. ASSUME NEW i \in 1 .. Len(Tail(ins)) PROVE Tail(ins)[i].data \in DataOf(ins)
    <3>1. i + 1 \in 1 .. Len(ins) /\ Tail(ins)[i] = ins[i + 1]
      BY <1>1
    <3>2. QED
      BY <1>1, <3>1 DEF DataOf
  <2>2. QED
    BY <1>1, <2>1 DEF DataOf
<1>4. Head(ins).data \in DataOf(ins)
  BY <1>1 DEF DataOf
<1>5. QED
  BY <1>1, <1>2, <1>3, <1>4

\* Selectors that resolve are not none.
LEMMA InputsResolve ==
  ASSUME inputs \in Seq(Input), NEW reg, NEW o, Resolves(reg, Selectors, o)
  PROVE  Selectors \in SUBSET Names /\ inputs # <<>>
<1>1. Selectors \subseteq Names
  <2>1. \A i \in DOMAIN inputs : inputs[i] \in Input
    BY LenProperties, ElementOfSeq
  <2>2. QED
    BY <2>1 DEF Selectors, Input
<1>2. inputs # <<>>
  BY DEF Resolves, Selectors
<1>3. QED
  BY <1>1, <1>2

LEMMA ResolveKeeps ==
  ASSUME IndInv, Resolve
  PROVE  IndInv'
<1>1. /\ pc = "resolve" /\ rows # Unread /\ first = NoJob /\ call = "duckdb2fbdi"
      /\ UNCHANGED <<calls, faults>>
  BY DEF Resolve, IndInv, AboutFirst, StepsOfCalls
<1>2. CASE Resolves(rows, Selectors, option)
  <2>1. /\ Settle(Selectors) /\ pc' = "stage"
        /\ UNCHANGED <<live, rows, call, inputs, option, named, staged, files,
                       given, archive, jobs, answer, before>>
    BY <1>2 DEF Resolve
  <2>2. Selectors \in SUBSET Names
    BY <1>2, InputsResolve DEF IndInv, Types
  <2>3. /\ config' = first' /\ first' \in Configurations /\ first' # NoJob
        /\ meant' \subseteq Names /\ meant' # {} /\ Blank \notin meant'
        /\ first' \in Agreed(rows, meant', AnyOption)
    BY <1>1, <1>2, <2>1, <2>2, SettleKeeps
  <2>4. Types'
    BY <1>1, <2>1, <2>3 DEF IndInv, Types
  <2>5. StepsOfCalls' /\ NotYet' /\ FilesSoFar' /\ JobsAreSound'
    BY <1>1, <2>1
       DEF IndInv, StepsOfCalls, NotYet, FilesSoFar, DataOf, JobsAreSound
  <2>6. AboutFirst'
    BY <1>1, <2>1, <2>3 DEF AboutFirst
  <2>7. QED
    BY <2>4, <2>5, <2>6 DEF IndInv
<1>3. CASE ~ Resolves(rows, Selectors, option)
  <2>1. Raise /\ archive' = archive
    BY <1>3 DEF Resolve
  <2>2. archive' \in [state : {"none", "torn", "whole"}, files : SUBSET File]
    BY <2>1 DEF IndInv, Types
  <2>3. QED
    BY <1>1, <2>1, <2>2, RaiseKeeps
<1>4. QED
  BY <1>2, <1>3

LEMMA FailsKeep ==
  ASSUME IndInv, QueryFails \/ SourceMissing \/ WriteFails
  PROVE  IndInv'
<1>1. Raise /\ Fault /\ pc # "idle"
  BY DEF QueryFails, SourceMissing, WriteFails
<1>2. archive' \in [state : {"none", "torn", "whole"}, files : SUBSET File]
  BY DEF QueryFails, SourceMissing, WriteFails, Whole, Torn, IndInv, Types
<1>3. QED
  BY <1>1, <1>2, RaiseKeeps

\* A query is staged under the name of the one control file that it means.
LEMMA StageFileKeeps ==
  ASSUME IndInv, StageFile
  PROVE  IndInv'
<1> DEFINE in == Head(inputs)
           controls == Controls(rows, in.selector, config)
<1>1. /\ pc = "stage" /\ inputs # <<>> /\ UNCHANGED <<calls, faults>>
      /\ inputs \in Seq(Input) /\ call = "duckdb2fbdi" /\ first # NoJob
  BY DEF StageFile, IndInv, Types, StepsOfCalls, AboutFirst
<1>2. /\ in \in Input /\ Tail(inputs) \in Seq(Input) /\ Len(Tail(inputs)) <= Len(inputs)
      /\ DataOf(inputs) = {in.data} \cup DataOf(Tail(inputs))
      /\ Len(inputs) \in Nat /\ Len(Tail(inputs)) \in Nat
  BY <1>1, HeadOfInputs, LenProperties
<1>3. CASE \E c \in Names : controls = {c}
  <2>1. PICK c \in Names : controls = {c}
    BY <1>3
  <2>2. /\ staged' = {e \in staged : e.control \notin controls}
                       \cup {[control |-> k, input |-> in] : k \in controls}
        /\ inputs' = Tail(inputs)
        /\ UNCHANGED <<live, rows, pc, call, option, config, named, files,
                       given, first, meant, archive, jobs, answer, before>>
    BY <1>3 DEF StageFile
  <2> HIDE DEF controls, in
  <2>3. staged' \subseteq staged \cup {[control |-> c, input |-> in]}
    BY <2>1, <2>2
  <2>4. Types'
    <3>1. [control |-> c, input |-> in] \in [control : Names, input : Input]
      BY <1>2
    <3>2. staged' \subseteq [control : Names, input : Input]
      BY <2>3, <3>1 DEF IndInv, Types
    <3>3. inputs' \in Seq(Input) /\ Len(inputs') <= MaxSources
      BY <1>2, <2>2, BoundsAssumption DEF IndInv, Types
    <3>4. QED
      BY <1>1, <2>2, <3>2, <3>3 DEF IndInv, Types
  <2>5. FilesSoFar'
    <3>1. /\ files = {} /\ DataOf(inputs) \subseteq given
          /\ {e.input.data : e \in staged} \subseteq given
      BY <1>1 DEF IndInv, FilesSoFar
    <3>2. {e.input.data : e \in staged'} \subseteq given
      BY <1>2, <2>3, <3>1
    <3>3. DataOf(inputs') \subseteq given
      BY <1>2, <2>2, <3>1
    <3>4. QED
      BY <1>1, <2>2, <3>1, <3>2, <3>3 DEF FilesSoFar
  <2>6. StepsOfCalls' /\ NotYet' /\ AboutFirst' /\ JobsAreSound'
    BY <2>2 DEF IndInv, StepsOfCalls, NotYet, AboutFirst, JobsAreSound
  <2>7. QED
    BY <2>4, <2>5, <2>6 DEF IndInv
<1>4. CASE ~ \E c \in Names : controls = {c}
  <2>1. Raise /\ archive' = archive
    BY <1>4 DEF StageFile
  <2>2. archive' \in [state : {"none", "torn", "whole"}, files : SUBSET File]
    BY <2>1 DEF IndInv, Types
  <2>3. QED
    BY <1>1, <2>1, <2>2, RaiseKeeps
<1>5. QED
  BY <1>3, <1>4

\* What was staged is packed, by the option of the job that was found.
LEMMA StageDoneKeeps ==
  ASSUME IndInv, StageDone
  PROVE  IndInv'
<1>1. /\ pc = "stage" /\ pc' = "find" /\ option' = config.option
      /\ inputs' \in Inputs
      /\ {inputs'[i] : i \in DOMAIN inputs'} = {e.input : e \in staged}
      /\ UNCHANGED <<live, rows, call, config, named, staged, files, given, first, meant,
                     archive, jobs, answer, before, calls, faults>>
  BY DEF StageDone
<1>2. /\ first # NoJob /\ config = first /\ first \in Configurations
      /\ call = "duckdb2fbdi"
  BY <1>1 DEF IndInv, AboutFirst, Types, StepsOfCalls
<1>3. inputs' \in Seq(Input) /\ Len(inputs') <= MaxSources
  BY <1>1, InputsAreSeqs
<1>4. Types'
  BY <1>1, <1>2, <1>3 DEF IndInv, Types, Configurations
<1>5. FilesSoFar'
  <2>1. DataOf(inputs') \subseteq given
    <3>1. {e.input.data : e \in staged} \subseteq given
      BY <1>1 DEF IndInv, FilesSoFar
    <3>2. \A i \in DOMAIN inputs' : \E e \in staged : inputs'[i] = e.input
      BY <1>1
    <3>3. QED
      BY <3>1, <3>2 DEF DataOf
  <2>2. QED
    BY <1>1, <1>2, <2>1 DEF IndInv, FilesSoFar
<1>6. AboutFirst'
  BY <1>1, <1>2 DEF IndInv, AboutFirst
<1>7. StepsOfCalls' /\ NotYet' /\ JobsAreSound'
  BY <1>1, <1>2 DEF IndInv, StepsOfCalls, NotYet, JobsAreSound, Packing
<1>8. QED
  BY <1>4, <1>5, <1>6, <1>7 DEF IndInv

\* The archive is opened and loses what it held.
LEMMA FindKeeps ==
  ASSUME IndInv, Find
  PROVE  IndInv'
<1>1. /\ pc = "find" /\ rows # Unread /\ call \in Packing /\ UNCHANGED <<calls, faults>>
      /\ first # NoJob => option = first.option
  BY DEF Find, IndInv, AboutFirst, StepsOfCalls
<1>2. CASE Resolves(rows, Selectors, option)
  <2>1. /\ Settle(Selectors) /\ pc' = "pack" /\ archive' = Torn
        /\ UNCHANGED <<live, rows, call, inputs, option, named, staged, files,
                       given, jobs, answer, before>>
    BY <1>2 DEF Find
  <2>2. Selectors \in SUBSET Names /\ inputs # <<>>
    BY <1>2, InputsResolve DEF IndInv, Types
  <2>3. /\ config' = first' /\ first' \in Configurations /\ first' # NoJob
        /\ meant' \subseteq Names /\ meant' # {} /\ Blank \notin meant'
        /\ first' \in Agreed(rows, meant', AnyOption)
    BY <1>1, <1>2, <2>1, <2>2, SettleKeeps
  <2>4. archive' \in [state : {"none", "torn", "whole"}, files : SUBSET File]
    BY <2>1 DEF Torn
  <2>5. Types'
    BY <1>1, <2>1, <2>3, <2>4 DEF IndInv, Types
  <2>6. FilesSoFar'
    <3>1. /\ files = {} /\ DataOf(inputs) \subseteq given
          /\ call = "csv2fbdi" => DataOf(inputs) = given
      BY <1>1 DEF IndInv, FilesSoFar
    <3>2. OneName(files)
      BY <3>1 DEF OneName
    <3>3. QED
      BY <2>1, <2>2, <3>1, <3>2 DEF FilesSoFar
  <2>7. StepsOfCalls' /\ NotYet' /\ JobsAreSound'
    BY <1>1, <2>1 DEF IndInv, StepsOfCalls, NotYet, JobsAreSound, Packing
  <2>8. AboutFirst'
    BY <1>1, <2>1, <2>3 DEF AboutFirst
  <2>9. QED
    BY <2>5, <2>6, <2>7, <2>8 DEF IndInv
<1>3. CASE ~ Resolves(rows, Selectors, option)
  <2>1. Raise /\ archive' = archive
    BY <1>3 DEF Find
  <2>2. archive' \in [state : {"none", "torn", "whole"}, files : SUBSET File]
    BY <2>1 DEF IndInv, Types
  <2>3. QED
    BY <1>1, <2>1, <2>2, RaiseKeeps
<1>4. QED
  BY <1>2, <1>3

\* A source is packed under a name that no other has.
LEMMA PackFileKeeps ==
  ASSUME IndInv, PackFile
  PROVE  IndInv'
<1> DEFINE in == Head(inputs)
           controls == Controls(rows, in.selector, config)
           fits == (\E c \in Names : controls = {c}) /\ \A f \in files : f.control \notin controls
<1>1. /\ pc = "pack" /\ inputs # <<>> /\ UNCHANGED <<calls, faults>>
      /\ inputs \in Seq(Input) /\ call \in Packing /\ first # NoJob
  BY DEF PackFile, IndInv, Types, StepsOfCalls, AboutFirst
<1>2. /\ in \in Input /\ Tail(inputs) \in Seq(Input) /\ Len(Tail(inputs)) <= Len(inputs)
      /\ DataOf(inputs) = {in.data} \cup DataOf(Tail(inputs))
      /\ Len(inputs) \in Nat /\ Len(Tail(inputs)) \in Nat
  BY <1>1, HeadOfInputs, LenProperties
<1>3. CASE fits
  <2>1. PICK c \in Names : controls = {c} /\ \A f \in files : f.control # c
    BY <1>3
  <2>2. /\ files' = files \cup {[control |-> k, data |-> in.data] : k \in controls}
        /\ inputs' = Tail(inputs)
        /\ UNCHANGED <<live, rows, pc, call, option, config, named, staged,
                       given, first, meant, archive, jobs, answer, before>>
    BY <1>3 DEF PackFile
  <2> DEFINE new == [control |-> c, data |-> in.data]
  <2>3. files' = files \cup {new} /\ new.control = c /\ new.data = in.data
    BY <2>1, <2>2
  <2>4. new \in File
    BY <1>2 DEF Input, File
  <2> HIDE DEF controls, in, new
  <2>5. Types'
    <3>1. files' \subseteq File
      BY <2>3, <2>4 DEF IndInv, Types
    <3>2. inputs' \in Seq(Input) /\ Len(inputs') <= MaxSources
      BY <1>2, <2>2, BoundsAssumption DEF IndInv, Types
    <3>3. QED
      BY <1>1, <2>2, <3>1, <3>2 DEF IndInv, Types
  <2>6. FilesSoFar'
    <3>1. /\ OneName(files)
          /\ {f.data : f \in files} \cup DataOf(inputs) \subseteq given
          /\ call = "csv2fbdi" => {f.data : f \in files} \cup DataOf(inputs) = given
      BY <1>1 DEF IndInv, FilesSoFar
    <3>2. OneName(files')
      BY <2>1, <2>3, <3>1 DEF OneName
    <3>3. {f.data : f \in files'} = {f.data : f \in files} \cup {in.data}
      BY <2>3
    <3>4. {f.data : f \in files'} \cup DataOf(inputs') =
            {f.data : f \in files} \cup DataOf(inputs)
      BY <1>2, <2>2, <3>3
    <3>5. QED
      BY <1>1, <2>2, <2>3, <3>1, <3>2, <3>4 DEF FilesSoFar
  <2>7. StepsOfCalls' /\ NotYet' /\ AboutFirst' /\ JobsAreSound'
    BY <2>2 DEF IndInv, StepsOfCalls, NotYet, AboutFirst, JobsAreSound
  <2>8. QED
    BY <2>5, <2>6, <2>7 DEF IndInv
<1>4. CASE ~ fits
  <2>1. Raise /\ archive' = Whole(files)
    BY <1>4 DEF PackFile
  <2>2. archive' \in [state : {"none", "torn", "whole"}, files : SUBSET File]
    BY <2>1 DEF IndInv, Types, Whole
  <2>3. QED
    BY <1>1, <2>1, <2>2, RaiseKeeps
<1>5. QED
  BY <1>3, <1>4

\* The archive is closed with all files, and imported by the option that was found.
LEMMA PackDoneKeeps ==
  ASSUME IndInv, PackDone
  PROVE  IndInv'
<1>1. /\ pc = "pack" /\ inputs = <<>> /\ archive' = Whole(files) /\ pc' = "import"
      /\ option' = config.option
      /\ UNCHANGED <<live, rows, call, inputs, config, named, staged, files, given,
                     first, meant, jobs, answer, before, calls, faults>>
  BY DEF PackDone
<1>2. /\ first # NoJob /\ config = first /\ first \in Configurations
      /\ call \in Packing
  BY <1>1 DEF IndInv, AboutFirst, Types, StepsOfCalls
<1>3. /\ archive' \in [state : {"none", "torn", "whole"}, files : SUBSET File]
      /\ archive'.state = "whole" /\ archive'.files = files
  BY <1>1 DEF IndInv, Types, Whole
<1>4. Types'
  BY <1>1, <1>2, <1>3 DEF IndInv, Types, Configurations
<1>5. FilesSoFar'
  <2>1. DataOf(inputs) = {}
    BY <1>1 DEF DataOf
  <2>2. Complete(call, files, given)
    BY <1>1, <2>1 DEF IndInv, FilesSoFar, Complete
  <2>3. QED
    BY <1>1, <1>3, <2>2 DEF FilesSoFar, Complete
<1>6. AboutFirst'
  BY <1>1, <1>2 DEF IndInv, AboutFirst
<1>7. StepsOfCalls' /\ NotYet' /\ JobsAreSound'
  BY <1>1, <1>2, <1>3 DEF IndInv, StepsOfCalls, NotYet, JobsAreSound, Packing
<1>8. QED
  BY <1>4, <1>5, <1>6, <1>7 DEF IndInv

\* The names in the archive, or the selectors of the caller, resolve to what the
\* call is about.
LEMMA ImportKeeps ==
  ASSUME IndInv, Import
  PROVE  IndInv'
<1>1. /\ pc = "import" /\ rows # Unread /\ call \in Packing \cup {"import_fbdi"}
      /\ UNCHANGED <<calls, faults>>
      /\ first # NoJob => option = first.option
  BY DEF Import, IndInv, AboutFirst, StepsOfCalls
<1>2. CASE Resolves(rows, ImportSelectors, option)
  <2>1. /\ Settle(ImportSelectors) /\ pc' = "post"
        /\ UNCHANGED <<live, rows, call, inputs, option, named, staged, files,
                       given, archive, jobs, answer, before>>
    BY <1>2 DEF Import
  <2>2. ImportSelectors \in SUBSET Names
    <3>1. {f.control : f \in archive.files} \subseteq Names
      BY DEF IndInv, Types, File
    <3>2. QED
      BY <3>1 DEF ImportSelectors, IndInv, Types
  <2>3. /\ config' = first' /\ first' \in Configurations /\ first' # NoJob
        /\ meant' \subseteq Names /\ meant' # {} /\ Blank \notin meant'
        /\ first' \in Agreed(rows, meant', AnyOption)
    BY <1>1, <1>2, <2>1, <2>2, SettleKeeps
  <2>4. Types'
    BY <1>1, <2>1, <2>3 DEF IndInv, Types
  <2>5. FilesSoFar'
    BY <1>1, <2>1 DEF IndInv, FilesSoFar
  <2>6. StepsOfCalls' /\ NotYet' /\ JobsAreSound'
    BY <1>1, <2>1 DEF IndInv, StepsOfCalls, NotYet, JobsAreSound, Packing
  <2>7. AboutFirst'
    BY <1>1, <2>1, <2>3 DEF AboutFirst, Packing
  <2>8. QED
    BY <2>4, <2>5, <2>6, <2>7 DEF IndInv
<1>3. CASE ~ Resolves(rows, ImportSelectors, option)
  <2>1. Raise /\ archive' = archive
    BY <1>3 DEF Import
  <2>2. archive' \in [state : {"none", "torn", "whole"}, files : SUBSET File]
    BY <2>1 DEF IndInv, Types
  <2>3. QED
    BY <1>1, <2>1, <2>2, RaiseKeeps
<1>4. QED
  BY <1>2, <1>3

LEMMA PurgeKeeps ==
  ASSUME IndInv, Purge
  PROVE  IndInv'
<1>1. /\ pc = "purge" /\ call = "purge_fbdi" /\ first = NoJob /\ meant = {}
      /\ UNCHANGED <<calls, faults>>
  BY DEF Purge, IndInv, AboutFirst, StepsOfCalls
<1>2. CASE /\ option # AnyOption
           /\ config' = [option |-> option, object |-> Blank]
           /\ pc' = "post"
           /\ UNCHANGED <<live, rows, call, inputs, option, named, staged, files, given,
                          first, meant, archive, jobs, answer, before>>
  <2>1. config' \in Configurations /\ config' # NoJob
    BY <1>2, NamesAssumption, SentinelsAssumption DEF IndInv, Types, Configurations
  <2>2. Types'
    BY <1>1, <1>2, <2>1 DEF IndInv, Types
  <2>3. StepsOfCalls' /\ NotYet' /\ AboutFirst' /\ FilesSoFar' /\ JobsAreSound'
    BY <1>1, <1>2, <2>1
       DEF IndInv, StepsOfCalls, NotYet, AboutFirst, FilesSoFar, JobsAreSound, Packing
  <2>4. QED
    BY <2>2, <2>3 DEF IndInv
<1>3. CASE /\ option = AnyOption /\ rows # Unread /\ Resolves(rows, named, option)
           /\ Settle(named)
           /\ pc' = "post"
           /\ UNCHANGED <<live, rows, call, inputs, option, named, staged, files, given,
                          archive, jobs, answer, before>>
  <2>1. named \in SUBSET Names
    BY DEF IndInv, Types
  <2>2. /\ config' = first' /\ first' \in Configurations /\ first' # NoJob
        /\ meant' \subseteq Names /\ meant' # {} /\ Blank \notin meant'
        /\ first' \in Agreed(rows, meant', AnyOption)
        /\ Agreed(rows, meant', AnyOption) = {first'}
    BY <1>1, <1>3, <2>1, SettleKeeps
  <2>3. Types'
    BY <1>1, <1>3, <2>2 DEF IndInv, Types
  <2>4. StepsOfCalls' /\ NotYet' /\ FilesSoFar' /\ JobsAreSound'
    BY <1>1, <1>3
       DEF IndInv, StepsOfCalls, NotYet, FilesSoFar, JobsAreSound, Packing
  <2>5. AboutFirst'
    BY <1>1, <1>3, <2>2 DEF AboutFirst
  <2>6. QED
    BY <2>3, <2>4, <2>5 DEF IndInv
<1>4. CASE Raise /\ archive' = archive
  <2>1. archive' \in [state : {"none", "torn", "whole"}, files : SUBSET File]
    BY <1>4 DEF IndInv, Types
  <2>2. QED
    BY <1>1, <1>4, <2>1, RaiseKeeps
<1>5. QED
  BY <1>2, <1>3, <1>4 DEF Purge

LEMMA CrashKeeps ==
  ASSUME IndInv, Crash
  PROVE  IndInv'
<1>1. /\ End("none") /\ Fault /\ rows' = Unread /\ UNCHANGED <<live, archive, jobs>>
      /\ pc # "idle"
  BY DEF Crash
<1>2. Len(jobs') = before /\ JobsAreSound'
  BY <1>1 DEF IndInv, NotYet, JobsAreSound
<1>3. /\ live' \in Registries /\ rows' \in Registries \cup {Packaged, Unread}
      /\ archive' \in [state : {"none", "torn", "whole"}, files : SUBSET File]
      /\ jobs' \in Seq(Job)
  BY <1>1 DEF IndInv, Types
<1>4. QED
  BY <1>1, <1>2, <1>3, EndKeeps

\* The job that the instance accepts is one of the call.
LEMMA AcceptedIsSound ==
  ASSUME IndInv, pc = "post", Accepted
  PROVE  jobs' \in Seq(Job) /\ Len(jobs') = before + 1 /\ JobsAreSound'
<1>1. PICK loads \in Loads :
        jobs' = Append(jobs,
          [config |-> config, files |-> IF call = "purge_fbdi" THEN {} ELSE archive.files,
           by |-> call, given |-> given, first |-> first, meant |-> meant,
           registry |-> rows, loads |-> loads])
  BY DEF Accepted
<1> DEFINE fs  == IF call = "purge_fbdi" THEN {} ELSE archive.files
           job == [config |-> config, files |-> fs,
                   by |-> call, given |-> given, first |-> first, meant |-> meant,
                   registry |-> rows, loads |-> loads]
<1>2. /\ config \in Configurations /\ config # NoJob
      /\ first # NoJob => config = first /\ first \in Agreed(rows, meant, AnyOption) /\ meant # {}
      /\ first = NoJob => meant = {}
      /\ call # "purge_fbdi" => first # NoJob
      /\ call = "purge_fbdi" /\ first # NoJob => Agreed(rows, meant, AnyOption) = {first}
      /\ call # "none"
  BY DEF IndInv, AboutFirst, Types, StepsOfCalls
<1>3. loads \subseteq Nat /\ (call # "purge_fbdi" => loads = {})
  <2>1. Len(jobs) \in Nat
    BY LenProperties DEF IndInv, Types
  <2>2. CASE call = "purge_fbdi"
    <3>1. PICK lo, hi \in 1 .. Len(jobs) : loads = lo .. hi
      BY <2>2 DEF Loads
    <3>2. QED
      BY <2>1, <2>2, <3>1
  <2>3. CASE call # "purge_fbdi"
    BY <2>3 DEF Loads
  <2>4. QED
    BY <2>2, <2>3
<1>4. job \in Job
  <2>1. fs \subseteq File /\ given \subseteq Sources /\ meant \subseteq Names
    BY DEF IndInv, Types
  <2>2. call \in {"csv2fbdi", "duckdb2fbdi", "import_fbdi", "purge_fbdi"}
    BY <1>2 DEF IndInv, Types
  <2>3. first \in Configurations \cup {NoJob} /\ rows \in {Packaged, Unread} \cup Registries
    BY DEF IndInv, Types
  <2> HIDE DEF fs
  <2>4. QED
    BY <1>2, <1>3, <2>1, <2>2, <2>3 DEF Job
<1>5. JobIsSound(job)
  <2>1. /\ job.config = config /\ job.files = fs /\ job.by = call /\ job.given = given
        /\ job.first = first /\ job.meant = meant /\ job.registry = rows /\ job.loads = loads
    OBVIOUS
  <2>2. call \in Packing => Complete(call, fs, given)
    BY DEF IndInv, FilesSoFar, Packing
  <2> HIDE DEF job, fs
  <2>3. QED
    BY <1>2, <1>3, <2>1, <2>2 DEF JobIsSound
<1>6. /\ jobs \in Seq(Job) /\ Len(jobs) = before /\ before \in Nat
      /\ jobs' = Append(jobs, job)
  BY <1>1, LenProperties DEF IndInv, Types, NotYet
<1> HIDE DEF job
<1>7. /\ jobs' \in Seq(Job) /\ Len(jobs') = before + 1
      /\ jobs'[before + 1] = job
      /\ \A i \in 1 .. before : jobs'[i] = jobs[i]
  BY <1>4, <1>6
<1>8. ASSUME NEW i \in 1 .. before + 1 PROVE JobIsSound(jobs'[i])
  <2>1. CASE i = before + 1
    BY <1>5, <1>7, <2>1
  <2>2. CASE i \in 1 .. before
    BY <1>6, <1>7, <2>2 DEF IndInv, JobsAreSound
  <2>3. QED
    BY <1>6, <2>1, <2>2
<1>9. QED
  BY <1>7, <1>8 DEF JobsAreSound

LEMMA PostKeeps ==
  ASSUME IndInv, Post
  PROVE  IndInv'
<1>1. /\ pc = "post"
      /\ \/ Accepted /\ End("submitted") /\ UNCHANGED <<calls, faults>>
         \/ Accepted /\ End("unknown") /\ Fault
         \/ UNCHANGED jobs /\ End("unknown") /\ Fault
      /\ UNCHANGED <<live, rows, archive>>
  BY DEF Post
<1>2. /\ live' \in Registries /\ rows' \in Registries \cup {Packaged, Unread}
      /\ archive' \in [state : {"none", "torn", "whole"}, files : SUBSET File]
  BY <1>1 DEF IndInv, Types
<1>3. ASSUME Accepted
      PROVE  jobs' \in Seq(Job) /\ Len(jobs') = before + 1 /\ JobsAreSound'
  BY <1>1, <1>3, AcceptedIsSound
<1>4. ASSUME UNCHANGED jobs
      PROVE  jobs' \in Seq(Job) /\ Len(jobs') = before /\ JobsAreSound'
  BY <1>1, <1>4 DEF IndInv, Types, NotYet, JobsAreSound
<1>5. CASE Accepted /\ End("submitted") /\ UNCHANGED <<calls, faults>>
  BY <1>2, <1>3, <1>5, EndKeeps
<1>6. CASE Accepted /\ End("unknown") /\ Fault
  BY <1>2, <1>3, <1>6, EndKeeps
<1>7. CASE UNCHANGED jobs /\ End("unknown") /\ Fault
  BY <1>2, <1>4, <1>7, EndKeeps
<1>8. QED
  BY <1>1, <1>5, <1>6, <1>7

LEMMA Initially == Init => IndInv
<1> SUFFICES ASSUME Init PROVE IndInv
  OBVIOUS
<1>1. /\ inputs \in Seq(Input) /\ Len(inputs) <= MaxSources
      /\ jobs \in Seq(Job) /\ Len(jobs) = 0
  BY EmptySeq, BoundsAssumption DEF Init
<1>2. archive \in [state : {"none", "torn", "whole"}, files : SUBSET File]
  BY DEF Init, NoArchive
<1>3. Types
  BY <1>1, <1>2, BoundsAssumption DEF Init, Types
<1>4. DataOf(inputs) = {}
  BY DEF Init, DataOf
<1>5. QED
  BY <1>1, <1>3, <1>4
     DEF Init, IndInv, StepsOfCalls, NotYet, AboutFirst, FilesSoFar, JobsAreSound, Packing

LEMMA EveryStepKeeps == IndInv /\ [Next]_vars => IndInv'
<1> SUFFICES ASSUME IndInv, [Next]_vars PROVE IndInv'
  OBVIOUS
<1>1. CASE RefreshJobs \/ GetJobs \/ ReadRegistry \/ RegistryChanges
  BY <1>1, RegistryKeeps
<1>2. CASE Call
  BY <1>2, CallKeeps
<1>3. CASE Resolve \/ Stage
  BY <1>3, ResolveKeeps, StageFileKeeps, FailsKeep, StageDoneKeeps DEF Stage
<1>4. CASE Pack \/ Import
  BY <1>4, FindKeeps, FailsKeep, PackFileKeeps, PackDoneKeeps, ImportKeeps DEF Pack
<1>5. CASE Purge \/ Post \/ Crash
  BY <1>5, PurgeKeeps, PostKeeps, CrashKeeps
<1>6. CASE UNCHANGED vars
  <2>1. UNCHANGED <<live, rows, pc, call, inputs, option, config, named, staged, files, given,
                    first, meant, archive, jobs, answer, before, calls, faults>>
    BY <1>6 DEF vars, callVars
  <2>2. Types' /\ StepsOfCalls' /\ NotYet' /\ AboutFirst'
    BY <2>1 DEF IndInv, Types, StepsOfCalls, NotYet, AboutFirst
  <2>3. FilesSoFar' /\ JobsAreSound'
    BY <2>1 DEF IndInv, FilesSoFar, JobsAreSound
  <2>4. QED
    BY <2>2, <2>3 DEF IndInv
<1>7. QED
  BY <1>1, <1>2, <1>3, <1>4, <1>5, <1>6 DEF Next
------------------------------------------------------------------------------
(***************************************************************************)
(* The theorems.                                                           *)
(***************************************************************************)
\* The inductive invariant of loads and purges.
THEOREM Invariant == Spec => []IndInv
BY Initially, EveryStepKeeps, PTL DEF Spec

\* A call submits at most once, and what it reports about that is true; all
\* variables have their types.
THEOREM ReportsAreTrue == Spec => []ReportIsTrue
<1>1. IndInv => ReportIsTrue
  <2> SUFFICES ASSUME IndInv PROVE ReportIsTrue
    OBVIOUS
  <2>1. \A i \in 1 .. Len(jobs) : jobs[i] \in Job
    BY ElementOfSeq DEF IndInv, Types
  <2>2. pc \in {"stage", "pack", "post"} => config # NoJob
    BY DEF IndInv, AboutFirst
  <2>3. TypeOK
    BY <2>1, <2>2 DEF IndInv, Types, StepsOfCalls, TypeOK
  <2>4. AnswerIsTrue
    BY DEF IndInv, NotYet, AnswerIsTrue
  <2>5. QED
    BY <2>3, <2>4 DEF ReportIsTrue
<1>2. QED
  BY <1>1, Invariant, PTL

\* csv2fbdi submits each of its sources and duckdb2fbdi no other file than its
\* own, each under a name of its own, for any number of sources.
THEOREM FilesAreOfTheCall == Spec => []FilesOfTheCall
<1>1. IndInv => FilesOfTheCall
  <2> SUFFICES ASSUME IndInv, NEW i \in 1 .. Len(jobs), jobs[i].by \in Packing
               PROVE  LET loaded == {f.data : f \in jobs[i].files}
                      IN  /\ loaded # {} /\ loaded \subseteq jobs[i].given
                          /\ jobs[i].by = "csv2fbdi" => loaded = jobs[i].given
                          /\ \A f, g \in jobs[i].files : f.control = g.control => f = g
    BY DEF FilesOfTheCall, Packing
  <2>1. Complete(jobs[i].by, jobs[i].files, jobs[i].given)
    BY DEF IndInv, JobsAreSound, JobIsSound
  <2>2. QED
    BY <2>1 DEF Complete, OneName
<1>2. QED
  BY <1>1, Invariant, PTL

\* The job that is submitted is the one that the selectors of the call resolved
\* to first, in every registry where an option has one object.
THEOREM JobIsTheSame == Spec => []SameJob
<1>1. IndInv => SameJob
  BY DEF IndInv, JobsAreSound, JobIsSound, SameJob
<1>2. QED
  BY <1>1, Invariant, PTL

\* A purge by the selectors of a load names the option that was loaded.
THEOREM PurgeNamesTheLoad == Spec => []PurgesTheLoad
<1>1. IndInv => PurgesTheLoad
  <2> SUFFICES ASSUME IndInv, NEW i \in 1 .. Len(jobs), NEW l \in 1 .. Len(jobs),
                      l \in jobs[i].loads, jobs[l].by # "purge_fbdi",
                      jobs[i].meant = jobs[l].meant, jobs[i].registry = jobs[l].registry
               PROVE  jobs[i].config.option = jobs[l].config.option
    BY DEF PurgesTheLoad
  <2>1. JobIsSound(jobs[i]) /\ JobIsSound(jobs[l])
    BY DEF IndInv, JobsAreSound
  <2>2. jobs[i].by = "purge_fbdi"
    BY <2>1 DEF JobIsSound
  <2>3. /\ jobs[l].meant # {}
        /\ jobs[l].config \in Agreed(jobs[l].registry, jobs[l].meant, AnyOption)
    BY <2>1 DEF JobIsSound
  <2>4. Agreed(jobs[i].registry, jobs[i].meant, AnyOption) = {jobs[i].config}
    BY <2>1, <2>2, <2>3 DEF JobIsSound
  <2>5. jobs[l].config = jobs[i].config
    BY <2>3, <2>4
  <2>6. QED
    BY <2>5
<1>2. QED
  BY <1>1, Invariant, PTL
==============================================================================
