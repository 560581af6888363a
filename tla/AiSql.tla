-------------------------------- MODULE AiSql --------------------------------
(***************************************************************************)
(* What src/querysaas/ai_sql.py and ai_context.py make of the SQL in an    *)
(* answer of a language model: where it begins, whether it is one          *)
(* statement that only reads, and which tables it reads.                   *)
(***************************************************************************)
EXTENDS SqlPlanner

\* The words that extract_sql takes for the beginning of a statement.
Keywords == {"select", "update"}

Marks(text) == {i \in DOMAIN text : text[i] = "fence"}

\* The code blocks of an answer, each by the marks around it, or else the whole of it.
Candidates(text) ==
  LET marks   == Marks(text)
      upTo(i) == Cardinality({j \in marks : j <= i})
  IN  IF Cardinality(marks) < 2 THEN {<<0, Len(text) + 1>>}
      ELSE {b \in marks \X marks : upTo(b[1]) % 2 = 1 /\ upTo(b[2]) = upTo(b[1]) + 1}

Inside(text, b) == SubSeq(text, b[1] + 1, b[2] - 1)

\* A keyword counts at the beginning of a line.
Starts(text) ==
  {i \in DOMAIN text : text[i] \in Keywords /\ \A j \in {i - 1} \cap DOMAIN text : text[j] = "nl"}

\* extract_sql: from the first keyword of the first block that has one; empty
\* when there is none.
Extract(text) ==
  LET usable == {b \in Candidates(text) : Starts(Inside(text, b)) # {}}
      block  == Inside(text, CHOOSE b \in usable : \A c \in usable : b[1] <= c[1])
      sql    == SubSeq(block, Min(Starts(block)), Len(block))
  IN  IF usable = {} THEN <<>>
      ELSE IF sql[Len(sql)] = "fence" THEN SubSeq(sql, 1, Len(sql) - 1) ELSE sql

\* _mask_literals_and_comments: as Oracle reads them.
Masked(text) == Visible(text, OracleModes(text))

\* Mutant: a semicolon at the end is taken for a second statement.
Several_AnySemicolon(text) == \E i \in Masked(text) : text[i] = "semicolon"

\* classify_sql: a statement after a semicolon; and statements that read.
Several(text) == \E i, j \in Masked(text) : text[i] = "semicolon" /\ i < j

WordsOf(text) == {i \in Masked(text) : text[i] \in Words}

\* Mutant: no pattern for FOR UPDATE.
ReadOnly_Locks(text) == WordsOf(text) # {} /\ text[Min(WordsOf(text))] = "select"

ReadOnly(text) ==
  /\ WordsOf(text) # {} /\ text[Min(WordsOf(text))] = "select"
  /\ \A i \in WordsOf(text) : text[i] # "lock"

\* enforce_read_only_sql: the classifier and the planner agree.
Enforced(text) ==
  LET sql == Extract(text)
  IN  /\ sql # <<>>
      /\ ReadOnly(sql) /\ ~ Several(sql)
      /\ Accepts(sql)

\* extract_referenced_tables: an expression finds comments and literals that
\* are ended, and knows no q-literals.
ContextStep(mode, text, i) ==
  LET later(ts) == \E j \in i + 1 .. Len(text) : text[j] \in ts
      t == text[i]
  IN  CASE mode # "code" -> IF Closes(mode, t) THEN "code" ELSE mode
        [] mode = "code" /\ t = "--" -> "line"
        [] mode = "code" /\ t = "/*" /\ later({"*/"}) -> "block"
        [] mode = "code" /\ t \in Quotes \ {"''"} /\ later(Quotes \ {"''"}) -> "literal"
        [] OTHER -> "code"

ContextModes(text) ==
  LET mode[i \in 0 .. Len(text)] ==
        IF i = 0 THEN "code" ELSE ContextStep(mode[i-1], text, i)
  IN  mode

\* _TABLE_REFERENCE: a plain name after FROM or JOIN.
ReferencedTables(text) ==
  {text[i] : i \in Visible(text, ContextModes(text))} \cap {"select", "join"}

\* The tables that it does not look for: those after a comma, and quoted names.
Unlooked == {"comma", "quoted"}

\* A q-literal with a quote in it.
QuotesInLiteral(text) ==
  \E i \in DOMAIN text :
    OracleModes(text)[i-1] = "qliteral" /\ text[i] \in Quotes \ {"]'"}
==============================================================================
