---------------------------- MODULE FbdiRegistry ----------------------------
(***************************************************************************)
(* How src/querysaas/fbdi.py finds the job that a caller means: a selector *)
(* is compared with the rows of a registry, the rows that match best are   *)
(* kept, and all selectors of a call have to agree on one configuration.   *)
(*                                                                         *)
(* A row has an interface option, a business object, a control file and    *)
(* interface tables; UCM account and import job go with the option.  Names *)
(* are compared by their normal forms, which leave out case, punctuation   *)
(* and the suffix .csv or .ctl: the control file of a row and the CSV file *)
(* of an archive that is named after it are the same selector.             *)
(***************************************************************************)
EXTENDS Naturals, FiniteSets

CONSTANTS
  Names,      \* business objects, control files, tables, selectors
  Norm,       \* name |-> _normalize_fbdi_selector of it
  Singular,   \* normal form |-> the singular of it
  Blank,      \* the empty name, its own normal form
  Options,    \* interface option ids
  AnyOption   \* interface_options_id=None

Rows == [option : Options, object : Names, control : Names, tables : SUBSET Names]

ASSUME NamesAssumption ==
  /\ Blank \in Names
  /\ Norm \in [Names -> Names]
  /\ Singular \in [Names -> Names]
  /\ \A n \in Names : Norm[n] = Blank => Singular[Norm[n]] = Blank
  /\ AnyOption \notin Options

\* _configuration_key.
Configuration(row) == [option |-> row.option, object |-> row.object]

Configurations == [option : Options, object : Names]

\* The kinds of a match, by their scores; a row has the first that holds.
Exact(s, row) ==
  LET is(n) == Norm[s] = Norm[n]
  IN  CASE is(row.object)                -> 100
        [] ~ is(row.object)  /\ is(row.control) -> 90
        [] OTHER -> IF \E t \in row.tables : is(t) THEN 80 ELSE 0

Friendly(s, row) ==
  LET like(n) == Singular[Norm[s]] = Singular[Norm[n]]
  IN  CASE like(row.object)                  -> 50
        [] ~ like(row.object) /\ like(row.control) -> 40
        [] OTHER -> IF \E t \in row.tables : like(t) THEN 30 ELSE 0

Score(s, row) ==
  IF Norm[s] = Blank THEN 0
  ELSE IF Exact(s, row) > 0 THEN Exact(s, row) ELSE Friendly(s, row)

\* The rows with the best score.
Matching(rows, s) ==
  {r \in rows : Score(s, r) > 0 /\ \A q \in rows : Score(s, q) <= Score(s, r)}

\* _resolve: the option filters what matched best.
Candidates(rows, s, option) ==
  {r \in Matching(rows, s) : option = AnyOption \/ r.option = option}

\* The configurations that all selectors have among their candidates; an
\* empty selector says nothing.
Agreed(rows, selectors, option) ==
  {c \in {Configuration(r) : r \in rows} :
     \A s \in selectors \ {Blank} :
       c \in {Configuration(r) : r \in Candidates(rows, s, option)}}

Resolves(rows, selectors, option) ==
  /\ selectors \ {Blank} # {}
  /\ Cardinality(Agreed(rows, selectors, option)) = 1

Resolved(rows, selectors, option) ==
  CHOOSE c \in Agreed(rows, selectors, option) : TRUE

\* _selector_row: the control files that a selector means in a configuration.
Controls(rows, s, config) ==
  {r.control : r \in {q \in Matching(rows, s) :
                        q.option = config.option /\ q.control # Blank}}
==============================================================================
