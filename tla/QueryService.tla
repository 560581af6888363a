---------------------------- MODULE QueryService ----------------------------
(***************************************************************************)
(* Queries to Oracle Fusion: executequery and countquery of                *)
(* src/querysaas/oracle_fusion.py, and copy2dd as a caller of the former,  *)
(* with the retries that src/querysaas/network_retry.py puts around them.  *)
(*                                                                         *)
(* A call is a program of statements, one request after another.  Each of  *)
(* them is wrapped: it is repeated as long as the text of its error looks  *)
(* transient and retries are left.  copy2dd is wrapped once more, as a     *)
(* whole.  The loop in execute_query never repeats anything, since the     *)
(* wrapper passes it max_retries=0.                                        *)
(***************************************************************************)
EXTENDS AiSql

CONSTANTS
  Typed,     \* the lexemes of the texts
  MaxText,   \* bounds the lexemes of a text after its "select"
  Sizes,     \* how many rows the table may have
  Retries    \* max_retries, of each wrapper

ASSUME ServiceAssumption ==
  Typed \subseteq Lexemes /\ MaxText \in Nat /\ Sizes \subseteq Nat /\ Retries \in Nat

VARIABLES
  size,      \* the rows of the table
  report,    \* the report that runs the statements is in the catalog
  pc,
  text,
  function,  \* the method that was called
  program,   \* the statements of the call
  outer,     \* retries of the call
  inner,     \* retries of the statement that is asked
  results,   \* per statement, its value and the retry of the call it is from
  answer,
  sizes,     \* history: the sizes of the table since the call began
  posts      \* history: the requests of the call

callVars == <<text, function, program, outer, inner, results, answer, sizes, posts>>
serviceVars == <<size, report, pc, callVars>>

ServiceTypeOK ==
  /\ size \in Sizes
  /\ report \in BOOLEAN
  /\ pc \in {"typing", "connected", "asking", "ended"}
  /\ text \in Seq(Lexemes) /\ Len(text) <= MaxText + 1
  /\ function \in {"none", "executequery", "countquery", "copy2dd"}
  /\ \A i \in DOMAIN program : program[i].wrapper \in {"none", "count"}
  /\ outer \in 0 .. Retries /\ inner \in 0 .. Retries
  /\ Len(results) <= Len(program) /\ (pc = "asking" => Len(results) < Len(program))
  /\ answer \in {"none", "rejected", "failed", "done"}
  /\ sizes \subseteq Sizes
  /\ posts \in Nat

ServiceInit ==
  /\ size \in Sizes
  /\ report = FALSE
  /\ pc = "typing"
  /\ text = <<"select">>
  /\ function = "none"
  /\ program = <<>>
  /\ outer = 0 /\ inner = 0
  /\ results = <<>>
  /\ answer = "none"
  /\ sizes = {}
  /\ posts = 0
------------------------------------------------------------------------------
(***************************************************************************)
(* Errors are what is_retryable_network_error finds in their texts: a      *)
(* number that is a transient status, a word that bars a retry, a word     *)
(* that is transient.                                                      *)
(***************************************************************************)
IsRetryable(error) ==
  \/ "status" \in error
  \/ "barred" \notin error /\ "transient" \in error

TimedOut    == {"transient"}   \* or the connection was reset
Refused     == {}              \* no connection
Unavailable == {"status"}      \* HTTP 408, 429, 500, 502, 503, 504
Denied      == {}              \* HTTP 401, 403
Unreadable  == {}              \* no SOAP, no reportBytes, no Base64
Unconverted == {}              \* no XML
\* Some of these quote what came; with words of it they are as one of the others.

\* A SOAP fault quotes Oracle's message, which may have any of the words and
\* numbers in it.
SqlFaults == SUBSET {"status", "barred", "transient"}

TypeText ==
  /\ pc = "typing" /\ Len(text) <= MaxText
  /\ \E t \in Typed : text' = Append(text, t)
  /\ UNCHANGED <<size, report, pc, function, program, outer, inner, results, answer,
                 sizes, posts>>

\* provision_bip_report uploads the report, or finds it in the catalog; but
\* any page with a status of success is taken for that.
Connect ==
  /\ pc = "typing"
  /\ pc' = "connected"
  /\ report' \in BOOLEAN
  /\ UNCHANGED <<size, callVars>>

Begin(f, statements) ==
  /\ pc = "connected"
  /\ pc' = "asking"
  /\ function' = f
  /\ program' = statements
  /\ sizes' = {size}
  /\ UNCHANGED <<size, report, text, outer, inner, results, answer, posts>>

ExecuteQuery == Begin("executequery", <<Statement("none", text)>>)

CountRows == Accepts(text) /\ Begin("countquery", <<CountQuery(text)>>)

RejectCount ==
  /\ pc = "connected" /\ ~ Accepts(text)
  /\ pc' = "ended"
  /\ function' = "countquery"
  /\ answer' = "rejected"
  /\ UNCHANGED <<size, report, text, program, outer, inner, results, sizes, posts>>

\* A count, and a page that has room for all rows of the table.
CopyProgram ==
  <<CountQuery(<<"select">>), Statement("none", <<"select", "order">>)>>

Copy2dd == text = <<"select">> /\ Begin("copy2dd", CopyProgram)

OuterRetries == IF function = "copy2dd" THEN Retries ELSE 0

\* The most requests of a call: those of one run for each run there may be; posts
\* counts no further than one more.
MostRequests == (OuterRetries + 1) * Len(program) * (Retries + 1)
Posted == posts' = Least(posts + 1, MostRequests + 1)

Asked == program[Len(results) + 1]

\* After its last statement; copy2dd asks for no page when it has counted no rows.
IsLast(value) ==
  \/ Len(results) + 1 = Len(program)
  \/ function = "copy2dd" /\ results = <<>> /\ value = 0

\* The service runs the statement, and the result is read.
Answer ==
  /\ pc = "asking" /\ report /\ Runs(Asked)
  /\ results' = Append(results, [value |-> Value(Asked, size), from |-> outer])
  /\ inner' = 0
  /\ IF IsLast(Value(Asked, size))
     THEN pc' = "ended" /\ answer' = "done" ELSE UNCHANGED <<pc, answer>>
  /\ Posted
  /\ UNCHANGED <<size, report, text, function, program, outer, sizes>>

\* Mutant: one attempt too many.
Fail_OneMore(errors) ==
  /\ pc = "asking"
  /\ \E retryable \in {IsRetryable(error) : error \in errors} :
     IF retryable /\ inner <= Retries
     THEN inner' = inner + 1 /\ UNCHANGED <<pc, answer>>
     ELSE pc' = "ended" /\ answer' = "failed" /\ UNCHANGED inner
  /\ Posted
  /\ UNCHANGED <<size, report, text, function, program, outer, results, sizes>>

\* retry_network_call, around the statement and around the call.
Fail(errors) ==
  /\ pc = "asking"
  /\ \E retryable \in {IsRetryable(error) : error \in errors} :
     IF retryable /\ inner < Retries
     THEN inner' = inner + 1 /\ UNCHANGED <<pc, outer, results, answer>>
     ELSE IF retryable /\ outer < OuterRetries
     THEN outer' = outer + 1 /\ inner' = 0 /\ results' = <<>> /\ UNCHANGED <<pc, answer>>
     ELSE pc' = "ended" /\ answer' = "failed" /\ UNCHANGED <<outer, inner, results>>
  /\ Posted
  /\ UNCHANGED <<size, report, text, function, program, sizes>>

\* Oracle does not run the statement, or finds no report that would.
Refuse == pc = "asking" /\ ~ (report /\ Runs(Asked)) /\ Fail(SqlFaults)

BreakOff == Fail({TimedOut, Refused, Unavailable, Denied, Unreadable, Unconverted})

TableChanges ==
  /\ pc \in {"connected", "asking"}
  /\ size' \in Sizes \ {size}
  /\ sizes' = IF pc = "asking" THEN sizes \cup {size'} ELSE sizes
  /\ UNCHANGED <<report, pc, text, function, program, outer, inner, results, answer, posts>>

Call == ExecuteQuery \/ CountRows \/ RejectCount \/ Copy2dd

Request == Answer \/ Refuse \/ BreakOff

ServiceNext == Connect \/ TypeText \/ Call \/ Request \/ TableChanges

ServiceSpec == ServiceInit /\ [][ServiceNext]_serviceVars
------------------------------------------------------------------------------
(***************************************************************************)
(* Properties.                                                             *)
(***************************************************************************)
\* A query that Oracle would run, with no beginning of a comment within another one.
TypedQuery == pc = "typing" /\ IsQuery(Intended(text)) /\ ~ NestsComments(text)

\* Of the queries that Oracle would run the planner refuses those, and only those,
\* whose last word outside brackets and quotes begins a clause (line 102 of sql.py),
\* whatever comments and literals they have; and the count that it makes of any
\* other one runs, unless it is one that takes locks.
AcceptsQueries ==
  TypedQuery =>
    /\ Accepts(text) <=> ~ EndsInClause(Intended(text))
    /\ Accepts(text) /\ ~ TakesLocks(Intended(text)) => Runs(CountQuery(text))

\* limit_query makes a statement of the same queries.  It has all rows of a query
\* that limits its rows outside brackets, comments and literals, as Oracle reads it,
\* and of any other one the first max_rows; it runs, unless the query takes locks.
LimitIsKept ==
  TypedQuery =>
    LET query   == Intended(text)
        limited == \E i \in TopLevel(query, Visible(query, OracleModes(query))) :
                     query[i] \in {"rownum", "fetch"}
        made    == LimitQuery(text)
    IN  /\ made = Refusal <=> EndsInClause(query)
        /\ made # Refusal /\ ~ TakesLocks(query) => Runs(made)
        /\ Runs(made) => \A n \in Sizes :
             LET rows == RowsOf(query, n)
             IN  Value(made, n) = IF limited THEN rows ELSE Least(MaxRows, rows)

\* The check of SQL that a language model wrote passes the same queries, if they have
\* no mark of a code block and nothing of FOR UPDATE in them.  Of the tables that
\* Oracle would read it finds those that are plain names after FROM or JOIN: its scan
\* knows no q-literals, but that matters only if there is a quote in one.
ChecksQueries ==
  TypedQuery /\ (\A i \in DOMAIN text : text[i] \notin {"lock", "fence"}) =>
    /\ Enforced(text) <=> ~ EndsInClause(Intended(text))
    /\ ~ QuotesInLiteral(text) => ReferencedTables(text) = TablesOf(text) \ Unlooked

\* The number that countquery returns is the number of rows that the query
\* has at some time during the call, unless a row limit after ORDER BY is lost or
\* a comment has the beginning of another in it.
CountIsTrue ==
  /\ function = "countquery" /\ answer = "done"
  /\ IsQuery(Intended(text)) /\ ~ NestsComments(text) /\ ~ CutsLimit(Intended(text))
  => \E n \in sizes : results[1].value = RowsOf(Intended(text), n)

\* The count and the page of a copy are from one run of it: what an earlier one
\* had got is not mixed with them.
OneRun == \A i \in DOMAIN results : results[i].from = outer

\* The requests of a call: those of one run for each run there may be.
RequestBound == posts <= MostRequests

\* Retries neither mix runs nor go on for ever, in the types that the module
\* declares.
RetriesApart == ServiceTypeOK /\ OneRun /\ RequestBound
==============================================================================
