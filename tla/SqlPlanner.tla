----------------------------- MODULE SqlPlanner -----------------------------
(***************************************************************************)
(* src/querysaas/sql.py: what OracleSqlPlanner accepts as one query, and   *)
(* the statements it makes of it to count its rows or to limit them.       *)
(* page_query is modelled with the pages it is used for, in PartExtraction.*)
(***************************************************************************)
EXTENDS SqlText

\* _scan: comments nest.
ScanStep(m, t) ==
  LET mode == OracleStep(m.mode, t)
  IN  CASE m.mode = "block" /\ t = "/*" -> [m EXCEPT !.nested = @ + 1]
        [] m.mode = "block" /\ t = "*/" /\ m.nested > 0 -> [m EXCEPT !.nested = @ - 1]
        [] OTHER -> [m EXCEPT !.mode = mode]

Scanned(text) ==
  LET m[i \in 0 .. Len(text)] ==
        IF i = 0 THEN [mode |-> "code", nested |-> 0] ELSE ScanStep(m[i-1], text[i])
  IN  m

Modes(text) == LET m == Scanned(text) IN [i \in 0 .. Len(text) |-> m[i].mode]

Seen(text) == Visible(text, Modes(text))

\* Mutant: the semicolon stays.
Trimmed_Kept(text) == text

\* _trim_semicolon: one at the end of what is seen.
Trimmed(text) == WithoutSemicolon(text, Seen(text))

\* _top_tokens: words and semicolons.
TopTokens(text) == {i \in TopLevel(text, Seen(text)) : text[i] \in Words \cup {"semicolon"}}

\* validate_query: an unended comment, an empty text, several statements, what is no
\* query, and what has no word after a word that a clause begins with are refused.
Accepts(text) ==
  LET source == Trimmed(text)
      tokens == TopTokens(source)
  IN  /\ Modes(text)[Len(text)] # "block"
      /\ \A i \in tokens : source[i] # "semicolon"
      /\ tokens # {}
      /\ source[Min(tokens)] = "select"
      /\ source[Max(tokens)] \notin Dangling

\* _outer_order_pos: the last ORDER BY outside brackets.
OrderPositions(text) == {i \in TopTokens(text) : text[i] \in Orders}

\* Mutant: one lexeme too many is cut.
WithoutOrder_OffByOne(text) ==
  LET is == OrderPositions(text)
  IN  IF is = {} THEN text ELSE SubSeq(text, 1, Max(is) - 2)

WithoutOrder(text) ==
  LET is == OrderPositions(text)
  IN  IF is = {} THEN text ELSE SubSeq(text, 1, Max(is) - 1)

\* Mutant: a comment at the end of the query hides the bracket.
InBrackets_SameLine(text) == <<"(">> \o text \o <<")">>

InBrackets(text) == <<"(">> \o text \o <<"nl", ")">>

CountQuery(text) ==
  IF Accepts(text) THEN Statement("count", InBrackets(WithoutOrder(Trimmed(text))))
  ELSE Refusal

\* _outer_limited, and the queries that take a WHERE clause of their own.
Limited(text) == \E i \in TopTokens(text) : text[i] \in {"limit", "rownum", "fetch"}
Simple(text)  == \E i \in Seen(text) : Seen(text) = {i} /\ text[i] = "select"

LimitQuery(text) ==
  LET source == Trimmed(text)
  IN  CASE ~ Accepts(text) -> Refusal
        [] Accepts(text) /\ Limited(source) -> Statement("none", source)
        [] Accepts(text) /\ ~ Limited(source) /\ Simple(source) ->
             Statement("none", source \o <<"nl", "limit">>)
        [] OTHER -> Statement("limit", InBrackets(source))

\* A row limit after the outermost ORDER BY is removed with it.
CutsLimit(text) ==
  \E i \in OrderPositions(text), j \in TopTokens(text) : i < j /\ text[j] = "fetch"
==============================================================================
