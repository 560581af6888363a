------------------------------- MODULE SqlText -------------------------------
(***************************************************************************)
(* Texts of SQL, and what Oracle makes of them.  A text is a sequence of   *)
(* lexemes with blanks between them: the clauses of one query, brackets,   *)
(* semicolons, and what begins and ends literals and comments.             *)
(*                                                                         *)
(* src/querysaas has three scanners of its own, in sql.py, ai_sql.py and   *)
(* ai_context.py.  Each of them, and Oracle's, is a step from one mode to  *)
(* the next; they are compared on the same texts.                          *)
(***************************************************************************)
EXTENDS Sequences, FiniteSetsExt

CONSTANTS
  RowNum,   \* the k of the lexeme "rownum", WHERE ROWNUM <= k
  First,    \* the n of the lexeme "fetch", FETCH FIRST n ROWS ONLY
  MaxRows   \* the max_rows of limit_query, in the lexeme "limit"

ASSUME LimitsAssumption == {RowNum, First, MaxRows} \subseteq Nat

\* "select" is SELECT * FROM t, "comma" is , v and "join" NATURAL JOIN u, "quoted" is
\* NATURAL JOIN "W", "filter" is WHERE 1 = 1, "limit" is WHERE ROWNUM <= max_rows,
\* "order" is ORDER BY c and "ordinal" ORDER BY 1, "lock" is FOR UPDATE, "update"
\* another statement; "q'[" and "]'" are the quotes of a q-literal, "nl" is the end
\* of a line, "fence" the mark of a code block.
Quotes  == {"'", "''", "q'[", "]'"}
Hidden  == Quotes \cup {"--", "/*", "nl"}
Sources == {"select", "comma", "join", "quoted"}
Orders  == {"order", "ordinal"}
Clauses == Sources \cup Orders \cup {"filter", "limit", "rownum", "fetch", "lock"}
Words   == Clauses \cup {"update", "prose"}
Lexemes == Hidden \cup Words \cup {"*/", "(", ")", "semicolon", "fence"}

\* After the last word of these there is a number, an operator or a quoted name, and
\* that word is WHERE, BY or JOIN.  They stand for every end of a text behind a word
\* of line 102 of sql.py, as FROM (SELECT ...) or ON (a = b).
Dangling == {"filter", "ordinal", "quoted"}

\* What a lexeme begins when it is read as code.
Opens(t) ==
  CASE t = "--"          -> "line"
    [] t = "/*"          -> "block"
    [] t \in {"'", "]'"} -> "literal"
    [] t = "q'["         -> "qliteral"
    [] OTHER             -> "code"

Closes(mode, t) ==
  \/ mode = "line" /\ t = "nl"
  \/ mode = "block" /\ t = "*/"
  \/ mode = "literal" /\ t \in {"'", "q'[", "]'"}
  \/ mode = "qliteral" /\ t = "]'"

\* Oracle: comments do not nest.
OracleStep(mode, t) ==
  IF mode = "code" THEN Opens(t) ELSE IF Closes(mode, t) THEN "code" ELSE mode

\* The modes before and after each lexeme of a text.
OracleModes(text) ==
  LET mode[i \in 0 .. Len(text)] ==
        IF i = 0 THEN "code" ELSE OracleStep(mode[i-1], text[i])
  IN  mode

\* The positions of the lexemes that are neither hidden nor begin what hides others.
Visible(text, mode) ==
  {i \in DOMAIN text : mode[i-1] = "code" /\ text[i] \notin Hidden}

\* Brackets that are open after each lexeme, of those at the given positions; more
\* are not closed than were opened.
Depth(text, at) ==
  LET depth[i \in 0 .. Len(text)] ==
        IF i = 0 THEN 0
        ELSE IF i \in at /\ text[i] = "(" THEN depth[i-1] + 1
        ELSE IF i \in at /\ text[i] = ")" /\ depth[i-1] > 0 THEN depth[i-1] - 1
        ELSE depth[i-1]
  IN  depth

\* The positions of the lexemes outside brackets.
TopLevel(text, at) ==
  LET depth == Depth(text, at)
  IN  {i \in at : depth[i] = 0 /\ text[i] \notin {"(", ")"}}

\* A text without a semicolon at the end of what is seen.
WithoutSemicolon(text, at) ==
  IF at # {} /\ text[Max(at)] = "semicolon"
  THEN [i \in 1 .. Len(text) - 1 |-> IF i < Max(at) THEN text[i] ELSE text[i+1]]
  ELSE text
------------------------------------------------------------------------------
(***************************************************************************)
(* One query as Oracle runs it: its clauses in their order, what it hides  *)
(* and what is in brackets ended, and nothing after it.                    *)
(***************************************************************************)
Rank == [t \in Clauses |->
          CASE t = "select" -> 1 [] t = "comma" -> 2 [] t \in {"join", "quoted"} -> 3
            [] t \in {"filter", "rownum", "limit"} -> 4 [] t \in Orders -> 5
            [] t \in {"fetch", "lock"} -> 6]

Balanced(text, at) ==
  LET upTo(i, b) == Cardinality({j \in at : j <= i /\ text[j] = b})
  IN  /\ \A i \in DOMAIN text : upTo(i, ")") <= upTo(i, "(")
      /\ upTo(Len(text), ")") = upTo(Len(text), "(")

IsQuery(text) ==
  LET mode == OracleModes(text)
      at   == Visible(text, mode)
      top  == TopLevel(text, at)
  IN  /\ mode[Len(text)] \in {"code", "line"}
      /\ \A i \in at : text[i] \in Clauses \cup {"(", ")"}
      /\ Balanced(text, at)
      /\ \E i \in top : text[i] = "select" /\ \A j \in at : i <= j
      /\ \A i, j \in top : i < j => Rank[text[i]] < Rank[text[j]]
      /\ \A i \in at : text[i] = "lock" => i \in top

Least(m, n) == IF m <= n THEN m ELSE n

\* The query of a text that may have a semicolon after it.
Intended(text) == WithoutSemicolon(text, Visible(text, OracleModes(text)))

\* A query ends behind the last word of one of Dangling, as Oracle reads it.
EndsInClause(query) ==
  LET at    == Visible(query, OracleModes(query))
      words == {i \in TopLevel(query, at) : query[i] \in Words}
  IN  words # {} /\ query[Max(words)] \in Dangling

TakesLocks(text) == \E i \in Visible(text, OracleModes(text)) : text[i] = "lock"

\* The rows of a query over a table with n of them.
RowsOf(text, n) ==
  LET top    == TopLevel(text, Visible(text, OracleModes(text)))
      has(t) == \E i \in top : text[i] = t
      atMost(t, k, rows) == IF has(t) /\ k < rows THEN k ELSE rows
  IN  atMost("fetch", First, atMost("limit", MaxRows, atMost("rownum", RowNum, n)))

(***************************************************************************)
(* A statement: a query, or one in the brackets of a wrapper that counts   *)
(* its rows or passes on the first of them.                                *)
(***************************************************************************)
Statement(wrapper, text) == [wrapper |-> wrapper, text |-> text]

\* No statement is made of a text.
Refusal == Statement("refused", <<>>)

Inner(text) == SubSeq(text, 2, Len(text) - 1)

\* Rows are locked by a query that is in no brackets.
Runs(statement) ==
  LET text == statement.text
  IN  CASE statement.wrapper = "none" -> IsQuery(text)
        [] statement.wrapper \in {"count", "limit"} ->
             /\ IsQuery(Inner(text)) /\ ~ TakesLocks(Inner(text))
             /\ OracleModes(text)[Len(text) - 1] = "code"
        [] OTHER -> FALSE

\* The rows that come back, or the number that a count gives.
Value(statement, n) ==
  CASE statement.wrapper = "none"  -> RowsOf(statement.text, n)
    [] statement.wrapper = "count" -> RowsOf(Inner(statement.text), n)
    [] statement.wrapper = "limit" ->
         LET rows == RowsOf(Inner(statement.text), n)
         IN  IF MaxRows < rows THEN MaxRows ELSE rows

\* The tables that a query reads.
TablesOf(text) ==
  {text[i] : i \in Visible(text, OracleModes(text))} \cap Sources

\* A comment has the beginning of a comment in it.
NestsComments(text) ==
  \E i \in 1 .. Len(text) : OracleModes(text)[i-1] = "block" /\ text[i] = "/*"
==============================================================================
