----------------------------- MODULE AiAssistant -----------------------------
(***************************************************************************)
(* Requests to a language model, with a profile of the store:              *)
(* generate_ai_text_resilient of src/querysaas/ai_runtime.py with its      *)
(* retries, its telemetry and a token by which another thread cancels it,  *)
(* generate_oracle_sql of ai_sql.py and repair_oracle_sql of ai_repair.py, *)
(* which send one request and check the SQL of the answer.                 *)
(***************************************************************************)
EXTENDS AiProfileStore, AiSql

CONSTANTS
  Answers,      \* the texts that the model may answer
  Originals,    \* the queries that are repaired
  Schemas,      \* the sets of tables that a repair may read
  MaxAttempts   \* max_attempts of the retry policy

ASSUME AssistantAssumption ==
  /\ \A text \in Answers \cup Originals : text \in Seq(Lexemes)
  /\ MaxAttempts \in Nat \ {0}

VARIABLE request   \* the request that is made, or was made last

vars == <<storeVars, request>>

None == [at |-> "none", function |-> "none", original |-> <<>>, schema |-> {},
         cancelled |-> FALSE, sent |-> 0, late |-> 0,
         requests |-> 0, failures |-> 0, retries |-> 0,
         answer |-> <<>>, sql |-> <<>>, outcome |-> "none"]

TypeOK ==
  /\ StoreTypeOK
  /\ DOMAIN request = DOMAIN None
  /\ request.at \in {"none", "starting", "checked", "sending", "ended"}
  /\ request.function \in {"none", "text", "generate", "repair"}
  /\ request.outcome \in {"none", "cancelled", "failed", "blocked", "done"}
  /\ request.outcome # "none" <=> request.at = "ended"
  /\ request.sent <= MaxAttempts /\ request.retries < MaxAttempts

Init == StoreInit /\ request = None
------------------------------------------------------------------------------
Running == request.at \notin {"none", "ended"}

\* AiProfileStore.get reads the file.
Get == Readable /\ \E n \in Names : file.profiles[n] # 0

Ask(function, at, original, schema) ==
  /\ ~ Running /\ Get
  /\ request' = [None EXCEPT !.function = function, !.at = at,
                             !.original = original, !.schema = schema]
  /\ UNCHANGED storeVars

Text == Ask("text", "starting", <<>>, {})

Generate == Ask("generate", "checked", <<>>, {})

\* validate_sql_schema_context
Approved(sql, schema) == ReferencedTables(sql) \subseteq schema

Repair ==
  \E original \in Originals, schema \in Schemas :
    /\ Enforced(original) /\ Approved(Extract(original), schema)
    /\ Ask("repair", "checked", Extract(original), schema)

Ended(r, outcome) == [r EXCEPT !.at = "ended", !.outcome = outcome]

\* Between raise_if_cancelled and the request another thread may cancel it.
Check ==
  /\ request.at = "starting"
  /\ request' = IF request.cancelled THEN Ended(request, "cancelled")
                                     ELSE [request EXCEPT !.at = "checked"]
  /\ UNCHANGED storeVars

Send ==
  /\ request.at = "checked"
  /\ request' = [request EXCEPT !.at = "sending", !.sent = @ + 1,
                                !.late = @ + IF request.cancelled THEN 1 ELSE 0]
  /\ UNCHANGED storeVars

Cancel ==
  /\ Running /\ request.function = "text" /\ ~ request.cancelled
  /\ request' = [request EXCEPT !.cancelled = TRUE]
  /\ UNCHANGED storeVars

\* Mutants: the token is not looked at before a retry; the last failure counts as
\* a retry; attempts are counted from one after a failure.
AfterFailure_Unchecked(r) ==
  LET again == [r EXCEPT !.failures = @ + 1, !.retries = @ + 1]
  IN  IF r.function # "text" \/ r.sent = MaxAttempts
      THEN Ended(r, "failed") ELSE [again EXCEPT !.at = "checked"]

AfterFailure_AllRetries(r) ==
  LET again == [r EXCEPT !.failures = @ + 1, !.retries = @ + 1]
  IN  IF r.function # "text" THEN Ended(r, "failed")
      ELSE IF r.sent = MaxAttempts THEN Ended(again, "failed")
      ELSE IF r.cancelled THEN Ended(again, "cancelled")
      ELSE [again EXCEPT !.at = "starting"]

AfterFailure_StartsOver(r) ==
  IF r.function # "text" THEN Ended(r, "failed")
  ELSE [None EXCEPT !.function = "text", !.at = "starting"]

\* The handler of generate_ai_text_resilient, for errors of every kind.
AfterFailure(r) ==
  LET failed == [r EXCEPT !.failures = @ + 1]
      again  == [failed EXCEPT !.retries = @ + 1]
  IN  IF r.function # "text" THEN Ended(r, "failed")
      ELSE IF r.sent = MaxAttempts THEN Ended(failed, "failed")
      ELSE IF r.cancelled THEN Ended(again, "cancelled")
      ELSE [again EXCEPT !.at = "starting"]

\* No answer, a redirection, an error, or an answer without a text.
Unanswered ==
  /\ request.at = "sending"
  /\ request' = AfterFailure(request)
  /\ UNCHANGED storeVars

Counted(r) == [r EXCEPT !.requests = @ + 1]

\* The answer is counted, then its numbers of tokens are read, which may fail:
\* the request that was answered is repeated.
OddUsage ==
  /\ request.at = "sending" /\ request.function = "text"
  /\ request' = AfterFailure(Counted(request))
  /\ UNCHANGED storeVars

AnswerText ==
  /\ request.at = "sending" /\ request.function = "text"
  /\ request' = Ended(Counted(request), "done")
  /\ UNCHANGED storeVars

\* Mutant: the tables of the original are checked again.
Passes_Original(r, text) ==
  /\ Enforced(text)
  /\ r.function = "repair" => Approved(r.original, r.schema) /\ Extract(text) # r.original

\* A repair has to read approved tables only and (require_change) to differ.
Passes(r, text) ==
  /\ Enforced(text)
  /\ r.function = "repair" =>
       Approved(Extract(text), r.schema) /\ Extract(text) # r.original

AnswerSql ==
  /\ request.at = "sending" /\ request.function \in {"generate", "repair"}
  /\ \E text \in Answers :
       LET r == [request EXCEPT !.answer = text]
       IN  request' = IF Passes(r, text)
                      THEN Ended([r EXCEPT !.sql = Extract(text)], "done")
                      ELSE Ended(r, "blocked")
  /\ UNCHANGED storeVars

RequestStep == Check \/ Send \/ Unanswered \/ OddUsage \/ AnswerText \/ AnswerSql

Next ==
  \/ StoreNext /\ UNCHANGED request
  \/ Text \/ Generate \/ Repair \/ Cancel \/ RequestStep

Spec == Init /\ [][Next]_vars /\ WF_vars(RequestStep)
------------------------------------------------------------------------------
(***************************************************************************)
(* Properties.                                                             *)
(***************************************************************************)
\* Once a request is cancelled, at most one more is sent: that which had passed
\* its check before.
OneLateRequest == request.late <= 1

\* The numbers that an AiUsageTelemetry shows are those of the requests that
\* were sent: each that is not the last one failed and was retried, however
\* the call ended and whatever the tokens of the answers were.
TelemetryAddsUp ==
  request.at = "ended" /\ request.function = "text" =>
    LET one(outcome) == IF request.outcome = outcome THEN 1 ELSE 0
    IN  /\ request.failures + one("done") = request.sent
        /\ request.retries + one("failed") = request.failures
        /\ request.requests \in one("done") .. request.sent

\* The counters agree, in the types that the modules declare.
CountersAgree == TypeOK /\ TelemetryAddsUp

\* SQL that is handed back is one statement: its first word begins a query, no
\* statement comes after it, and it takes no locks; whatever text, comments,
\* literals and code blocks it was found between.
OnlyReads ==
  request.sql # <<>> =>
    LET sql == request.sql
        at  == Visible(sql, OracleModes(sql))
    IN  /\ \E i \in at : sql[i] = "select" /\ \A j \in at : sql[j] \in Words => i <= j
        /\ \A i \in at : sql[i] # "lock" /\ (sql[i] = "semicolon" => \A j \in at : j <= i)

\* Of a repaired query all tables that are plain names after FROM or JOIN were
\* approved, unless there are quotes in a q-literal, which the scan for tables does
\* not know.  Tables after a comma and quoted names are never looked for: of these
\* nothing is said, though CHANGELOG.md, line 159, speaks of all tables.
RepairsAreApproved ==
  request.function = "repair" /\ request.sql # <<>> /\ ~ QuotesInLiteral(request.sql)
    => TablesOf(request.sql) \ Unlooked \subseteq request.schema

\* An answer is not blocked when it is a query, or has one in its only code block,
\* that takes no locks, begins on a line of its own and has a word, outside brackets
\* and quotes, after the last one that a clause begins with.
QueriesPass ==
  request.function = "generate" /\ request.outcome = "blocked" =>
    ~ \E b \in Candidates(request.answer) :
        LET query == Inside(request.answer, b)
            at    == Visible(query, OracleModes(query))
        IN  /\ Candidates(request.answer) = {b}
            /\ IsQuery(Intended(query)) /\ ~ NestsComments(query)
            /\ ~ EndsInClause(Intended(query))
            /\ Min(at) \in Starts(query) /\ \A i \in Starts(query) : Min(at) <= i
            /\ \A i \in at : query[i] # "lock"

\* What is handed back only reads, and what is blocked is no query that could be.
ChecksAnswers == OnlyReads /\ QueriesPass

\* However the provider answers, and whoever cancels.
EveryRequestEnds == Running ~> ~ Running
==============================================================================
