------------------------- MODULE OrderedExport_proofs -------------------------
(***************************************************************************)
(* Theorems about OrderedExport, for every value of its constants.         *)
(***************************************************************************)
EXTENDS OrderedExport, FiniteSetTheorems, TLAPS

\* A file that is one page longer has the pages it had, and the new one.
LEMMA Appended ==
  ASSUME NEW s \in Seq(Versions), NEW v \in Versions
  PROVE  /\ Append(s, v) \in Seq(Versions)
         /\ Len(s) \in Nat
         /\ Len(Append(s, v)) = Len(s) + 1
         /\ Append(s, v)[Len(s) + 1] = v
         /\ \A k \in 0 .. Len(s) - 1 : Append(s, v)[k + 1] = s[k + 1]
OBVIOUS

\* The same, for the rows of its pages.
LEMMA RowsAppended ==
  ASSUME NEW limit, NEW s \in Seq(Versions), NEW v \in Versions
  PROVE  /\ RowsOf(limit, Append(s, v), Len(s)) = PageRows(limit, v, Len(s))
         /\ \A k \in 0 .. Len(s) - 1 : RowsOf(limit, Append(s, v), k) = RowsOf(limit, s, k)
BY Appended DEF RowsOf

\* The file is written in the order of the pages, and HeadReady says that the
\* next one has been collected.
LEMMA HeadPage ==
  ASSUME TypeOK, HeadReady
  PROVE  /\ buffer[Len(out)] \in Versions
         /\ Len(out) \in Pages
         /\ Len(out) \in Nat
         /\ Len(out) < MaxPages
<1>1. Len(out) \in Pages /\ buffer[Len(out)] # Absent
  BY DEF HeadReady
<1>2. buffer[Len(out)] \in Versions
  BY <1>1 DEF TypeOK
<1>3. QED
  BY <1>1, <1>2, ExportAssumption DEF Pages

\* max_rows is an argument of the calls.
LEMMA LimitFixed == [Next]_vars => maxRows' = maxRows
BY DEF Next, Fetch, Loop, Start, AnswerPage, SubmitOne, SubmitDone, Wait, Collect,
   CollectFailed, WriteFull, WriteShort, RejectColumns, DrainDone, Raise, Replace, Stop,
   SourceChanges, vars

(***************************************************************************)
(* The state keeps its type.                                               *)
(***************************************************************************)
LEMMA NoPages ==
  /\ <<>> \in Seq(Versions)
  /\ Len(<<>>) = 0
  /\ 0 \in 0 .. MaxPages
  /\ 0 \in 0 .. MaxFaults
  /\ [k \in Pages |-> Idle] \in [Pages -> Versions \cup {Idle, InFlight, Failed}]
  /\ [k \in Pages |-> Absent] \in [Pages -> Versions \cup {Absent}]
<1>1. /\ <<>> \in Seq(Versions)
      /\ Len(<<>>) = 0
  OBVIOUS
<1>2. 0 \in 0 .. MaxPages /\ 0 \in 0 .. MaxFaults
  BY ExportAssumption
<1>3. QED
  BY <1>1, <1>2

LEMMA TypeInit == Init => TypeOK
<1> SUFFICES ASSUME Init PROVE TypeOK
  OBVIOUS
<1>1. out \in Seq(Versions) /\ Len(out) = 0 /\ next = 0
  BY NoPages DEF Init
<1>2. Len(out) <= next
  BY <1>1
<1>3. next \in 0 .. MaxPages /\ faults \in 0 .. MaxFaults
  BY NoPages DEF Init
<1>4. page \in [Pages -> Versions \cup {Idle, InFlight, Failed}]
  BY NoPages DEF Init
<1>5. buffer \in [Pages -> Versions \cup {Absent}]
  BY NoPages DEF Init
<1>6. QED
  BY <1>1, <1>2, <1>3, <1>4, <1>5 DEF Init, TypeOK, Phases

LEMMA ClearType ==
  ASSUME TypeOK, Clear, pc' = "idle", ver' = ver, maxRows' = maxRows,
         dest' = NoFile \/ dest' \in Seq(Versions), faults' \in 0 .. MaxFaults
  PROVE  TypeOK'
<1>1. out' \in Seq(Versions) /\ Len(out') = 0 /\ next' = 0
  BY NoPages DEF Clear
<1>2. Len(out') <= next'
  BY <1>1
<1>3. next' \in 0 .. MaxPages
  BY NoPages DEF Clear
<1>4. page' \in [Pages -> Versions \cup {Idle, InFlight, Failed}]
  BY NoPages DEF Clear
<1>5. buffer' \in [Pages -> Versions \cup {Absent}]
  BY NoPages DEF Clear
<1>6. QED
  BY <1>1, <1>2, <1>3, <1>4, <1>5 DEF Clear, TypeOK, Phases

LEMMA TypeStep == TypeOK /\ PagesAccounted /\ NothingAfterEnd /\ [Next]_vars => TypeOK'
<1> SUFFICES ASSUME TypeOK, PagesAccounted, NothingAfterEnd, [Next]_vars PROVE TypeOK'
  OBVIOUS
<1>0. maxRows' = maxRows
  BY LimitFixed
<1> USE <1>0
<1>1. CASE Start \/ SubmitDone \/ DrainDone
  BY <1>1 DEF Start, SubmitDone, DrainDone, runVars, TypeOK, Phases
<1>2. CASE SubmitOne
  <2>1. next \in Pages /\ next' = next + 1 /\ next' \in 0 .. MaxPages
    BY <1>2, ExportAssumption DEF SubmitOne, CanSubmit, TypeOK, Pages
  <2>2. Len(out) <= next + 1
    BY DEF TypeOK
  <2>3. QED
    BY <1>2, <2>1, <2>2 DEF SubmitOne, TypeOK
<1>3. ASSUME NEW k \in Pages, AnswerPage(k) PROVE TypeOK'
  <2>1. faults' \in 0 .. MaxFaults
    BY <1>3, ExportAssumption DEF AnswerPage, TypeOK
  <2>2. page' \in [Pages -> Versions \cup {Idle, InFlight, Failed}]
    BY <1>3 DEF AnswerPage, TypeOK
  <2>3. QED
    BY <1>3, <2>1, <2>2 DEF AnswerPage, TypeOK
<1>4. CASE Wait
  BY <1>4 DEF Wait, Finished, TypeOK, Phases
<1>5. ASSUME NEW k \in Pages, Collect(k) PROVE TypeOK'
  BY <1>5 DEF Collect, TypeOK, Phases
<1>6. ASSUME NEW k \in Pages, CollectFailed(k) PROVE TypeOK'
  BY <1>6, ClearType DEF CollectFailed, Raise, TypeOK
<1>7. CASE RejectColumns
  BY <1>7, ClearType DEF RejectColumns, Raise, TypeOK
<1>8. CASE WriteFull \/ WriteShort
  <2>1. buffer[Len(out)] \in Versions /\ Len(out) \in Pages /\ Len(out) \in Nat
    <3>1. HeadReady
      BY <1>8 DEF WriteFull, WriteShort
    <3>2. QED
      BY <3>1, HeadPage
  <2>2. out' \in Seq(Versions) /\ Len(out') = Len(out) + 1
    <3>1. out' = Append(out, buffer[Len(out)]) /\ out \in Seq(Versions)
      BY <1>8 DEF WriteFull, WriteShort, TypeOK
    <3>2. QED
      BY <2>1, <3>1, Appended
  <2>3. Len(out) < next
    <3>1. ~ terminal
      BY <1>8 DEF NothingAfterEnd, WriteFull, WriteShort
    <3>2. QED
      BY <1>8, <2>1, <3>1 DEF PagesAccounted, WriteFull, WriteShort, HeadReady
  <2>4. Len(out') <= next' /\ next' = next
    BY <1>8, <2>1, <2>2, <2>3 DEF WriteFull, WriteShort, TypeOK
  <2>5. buffer' \in [Pages -> Versions \cup {Absent}]
    BY <1>8 DEF WriteFull, WriteShort, TypeOK
  <2>6. page' \in [Pages -> Versions \cup {Idle, InFlight, Failed}]
    BY <1>8 DEF WriteFull, WriteShort, TypeOK
  <2>7. UNCHANGED <<ver, batch, dest, faults>> /\ pc' \in {pc, "submit"} /\ terminal' \in {terminal, TRUE}
    BY <1>8 DEF WriteFull, WriteShort
  <2>8. QED
    BY <2>2, <2>4, <2>5, <2>6, <2>7 DEF TypeOK, Phases
<1>9. CASE Replace
  BY <1>9, ClearType DEF Replace, TypeOK
<1>10. CASE Stop
  BY <1>10, ClearType, ExportAssumption DEF Stop, Raise, TypeOK
<1>11. CASE SourceChanges \/ UNCHANGED vars
  BY <1>11 DEF SourceChanges, vars, runVars, TypeOK
<1>12. QED
  BY <1>1, <1>2, <1>3, <1>4, <1>5, <1>6, <1>7, <1>8, <1>9, <1>10, <1>11
     DEF Next, Fetch, Loop

(***************************************************************************)
(* No page is lost between the pool and the file.                          *)
(***************************************************************************)
LEMMA ClearAccounted ==
  ASSUME Clear
  PROVE  PagesAccounted' /\ NothingAfterEnd' /\ (pc' = "idle" => Drained')
<1>1. Len(out') = 0 /\ next' = 0 /\ ~ terminal'
  BY NoPages DEF Clear
<1>2. \A k \in Pages : page'[k] = Idle /\ buffer'[k] = Absent
  BY DEF Clear
<1>3. \A k \in Pages : ~ (k < 0)
  BY ExportAssumption DEF Pages
<1>4. PagesAccounted'
  BY <1>1, <1>2, <1>3 DEF PagesAccounted
<1>5. QED
  BY <1>1, <1>2, <1>4 DEF NothingAfterEnd, Drained, HeadReady

LEMMA AccountedStep ==
  TypeOK /\ PagesAccounted /\ NothingAfterEnd /\ [Next]_vars => PagesAccounted'
<1> SUFFICES ASSUME TypeOK, PagesAccounted, NothingAfterEnd, [Next]_vars
             PROVE  PagesAccounted'
  OBVIOUS
<1>1. CASE UNCHANGED <<next, page, buffer, out, terminal>>
  BY <1>1 DEF PagesAccounted
<1>2. CASE SubmitOne
  <2>1. /\ next \in Pages /\ next' = next + 1
        /\ page' = [page EXCEPT ![next] = InFlight]
        /\ UNCHANGED <<buffer, out, terminal>>
        /\ ~ terminal
    BY <1>2, ExportAssumption DEF SubmitOne, CanSubmit, TypeOK, Pages
  <2>2. page'[next] # Idle /\ \A k \in Pages : k # next => page'[k] = page[k]
    BY <2>1 DEF TypeOK, InFlight, Idle
  <2>3. buffer[next] = Absent /\ ~ (next < Len(out))
    BY <2>1, ExportAssumption DEF PagesAccounted, Pages
  <2>4. \A k \in Pages : k < next' <=> k < next \/ k = next
    BY <2>1, ExportAssumption DEF Pages
  <2>5. QED
    BY <2>1, <2>2, <2>3, <2>4 DEF PagesAccounted
<1>3. ASSUME NEW j \in Pages, AnswerPage(j) PROVE PagesAccounted'
  <2>1. \A k \in Pages : page'[k] # Idle <=> page[k] # Idle
    BY <1>3, VersionAssumption DEF AnswerPage, TypeOK, InFlight, Idle, Failed
  <2>2. UNCHANGED <<next, buffer, out, terminal>>
    BY <1>3 DEF AnswerPage
  <2>3. QED
    BY <2>1, <2>2 DEF PagesAccounted
<1>4. ASSUME NEW j \in Pages, Collect(j) PROVE PagesAccounted'
  <2>1. /\ buffer'[j] # Absent /\ page'[j] = Idle /\ page[j] # Idle
        /\ \A k \in Pages : k # j => buffer'[k] = buffer[k] /\ page'[k] = page[k]
    BY <1>4, VersionAssumption DEF Collect, TypeOK, Absent, Idle
  <2>2. UNCHANGED <<next, out, terminal>>
    BY <1>4 DEF Collect
  <2>3. QED
    BY <2>1, <2>2 DEF PagesAccounted
<1>5. CASE WriteFull
  <2>1. Len(out) \in Pages /\ Len(out) \in Nat /\ Len(out') = Len(out) + 1
    BY <1>5, HeadPage, Appended DEF WriteFull, TypeOK
  <2>2. ~ terminal /\ buffer[Len(out)] # Absent /\ page[Len(out)] = Idle /\ Len(out) < next
    BY <1>5, <2>1 DEF NothingAfterEnd, PagesAccounted, WriteFull, HeadReady
  <2>3. /\ buffer'[Len(out)] = Absent
        /\ \A k \in Pages : k # Len(out) => buffer'[k] = buffer[k]
        /\ UNCHANGED <<next, page, terminal>>
    BY <1>5, <2>1 DEF WriteFull, TypeOK
  <2>4. \A k \in Pages : k < Len(out') <=> k < Len(out) \/ k = Len(out)
    BY <2>1, ExportAssumption DEF Pages
  <2>5. QED
    BY <2>1, <2>2, <2>3, <2>4 DEF PagesAccounted
<1>6. CASE WriteShort
  BY <1>6 DEF WriteShort, PagesAccounted
<1>7. CASE RejectColumns \/ Replace \/ Stop \/ \E k \in Pages : CollectFailed(k)
  BY <1>7, ClearAccounted DEF RejectColumns, Replace, Stop, CollectFailed, Raise
<1>8. CASE Start \/ SubmitDone \/ Wait \/ DrainDone \/ SourceChanges \/ UNCHANGED vars
  BY <1>1, <1>8 DEF Start, SubmitDone, Wait, DrainDone, SourceChanges, vars, runVars
<1>9. QED
  BY <1>2, <1>3, <1>4, <1>5, <1>6, <1>7, <1>8 DEF Next, Fetch, Loop

LEMMA EndStep ==
  TypeOK /\ PagesAccounted /\ NothingAfterEnd /\ [Next]_vars => NothingAfterEnd'
<1> SUFFICES ASSUME TypeOK, PagesAccounted, NothingAfterEnd, [Next]_vars
             PROVE  NothingAfterEnd'
  OBVIOUS
<1>1. CASE UNCHANGED <<page, buffer, terminal, pc>>
  BY <1>1 DEF NothingAfterEnd, Pending
<1>2. CASE ~ terminal'
  BY <1>2 DEF NothingAfterEnd
<1>3. CASE Start \/ SubmitDone
  BY <1>3 DEF Start, SubmitDone, runVars, NothingAfterEnd, Pending
<1>4. ASSUME NEW j \in Pages, AnswerPage(j) PROVE NothingAfterEnd'
  <2>1. page[j] # Idle /\ UNCHANGED terminal
    BY <1>4 DEF AnswerPage, Idle, InFlight
  <2>2. QED
    BY <1>2, <2>1 DEF NothingAfterEnd, Pending
<1>5. CASE WriteShort
  <2>1. Len(out) \in Pages /\ Len(out) \in Nat
    BY <1>5, HeadPage DEF WriteShort
  <2>2. ~ terminal
    BY <1>5 DEF WriteShort, NothingAfterEnd
  <2>3. \A k \in Pages : k <= Len(out) => page[k] = Idle /\ (k # Len(out) => buffer[k] = Absent)
    BY <1>5, <2>1, <2>2, ExportAssumption DEF WriteShort, HeadReady, PagesAccounted, Pages
  <2>4. \A k \in Pages : page'[k] = Idle
    BY <1>5, <2>1, <2>3, ExportAssumption DEF WriteShort, Pages
  <2>5. \A k \in Pages : buffer'[k] = Absent
    BY <1>5, <2>1, <2>3, ExportAssumption DEF WriteShort, Pages
  <2>6. pc' = "submit"
    BY <1>5 DEF WriteShort
  <2>7. QED
    BY <2>4, <2>5, <2>6 DEF NothingAfterEnd, Pending
<1>6. CASE RejectColumns \/ Replace \/ Stop \/ \E k \in Pages : CollectFailed(k)
  BY <1>6, ClearAccounted DEF RejectColumns, Replace, Stop, CollectFailed, Raise
<1>7. CASE SubmitOne \/ Wait \/ WriteFull \/ DrainDone \/ \E k \in Pages : Collect(k)
  <2>1. UNCHANGED terminal /\ ~ terminal
    BY <1>7 DEF SubmitOne, CanSubmit, Wait, WriteFull, DrainDone, runVars, Collect, NothingAfterEnd
  <2>2. QED
    BY <1>2, <2>1
<1>8. CASE SourceChanges \/ UNCHANGED vars
  BY <1>1, <1>8 DEF SourceChanges, vars, runVars
<1>9. QED
  BY <1>3, <1>4, <1>5, <1>6, <1>7, <1>8 DEF Next, Fetch, Loop

LEMMA DrainedStep ==
  TypeOK /\ PagesAccounted /\ NothingAfterEnd /\ Drained /\ [Next]_vars => Drained'
<1> SUFFICES ASSUME TypeOK, PagesAccounted, NothingAfterEnd, Drained, [Next]_vars
             PROVE  Drained'
  OBVIOUS
<1>1. CASE UNCHANGED <<pc, buffer, out>>
  BY <1>1 DEF Drained, HeadReady
<1>2. CASE Start \/ SubmitDone \/ DrainDone
  BY <1>2 DEF Start, SubmitDone, DrainDone, runVars, Drained, HeadReady
<1>3. CASE Wait \/ WriteFull \/ \E k \in Pages : Collect(k)
  BY <1>3 DEF Wait, WriteFull, Collect, Drained
<1>4. CASE WriteShort
  <2>1. NothingAfterEnd'
    BY EndStep
  <2>2. \A k \in Pages : buffer'[k] = Absent
    BY <1>4, <2>1 DEF WriteShort, NothingAfterEnd
  <2>3. QED
    BY <2>2 DEF Drained, HeadReady
<1>5. CASE RejectColumns \/ Replace \/ Stop \/ \E k \in Pages : CollectFailed(k)
  BY <1>5, ClearAccounted DEF RejectColumns, Replace, Stop, CollectFailed, Raise
<1>6. CASE SubmitOne \/ SourceChanges \/ UNCHANGED vars \/ \E k \in Pages : AnswerPage(k)
  BY <1>1, <1>6 DEF SubmitOne, SourceChanges, AnswerPage, vars, runVars
<1>7. QED
  BY <1>2, <1>3, <1>4, <1>5, <1>6 DEF Next, Fetch, Loop

(***************************************************************************)
(* The temporary file is an export as far as it goes.                      *)
(***************************************************************************)
\* Writing the page v at the end of the file: the header stays that of every
\* page with rows.
LEMMA HeaderKept ==
  ASSUME TypeOK, WrittenSoFar, HeadReady, ~ SchemaChanged,
         out' = Append(out, buffer[Len(out)]), expected' = HeadColumns
  PROVE  \A k \in 0 .. Len(out') - 1 :
           RowsOf(maxRows, out', k) > 0 => SchemaAt[out'[k + 1]] = expected'
<1> DEFINE L == Len(out)
           v == buffer[L]
<1>1. v \in Versions /\ out \in Seq(Versions) /\ L \in Nat
  BY HeadPage DEF TypeOK
<1>2. /\ Len(out') = L + 1
      /\ out'[L + 1] = v
      /\ RowsOf(maxRows, out', L) = PageRows(maxRows, v, L)
      /\ \A k \in 0 .. L - 1 :
           /\ out'[k + 1] = out[k + 1]
           /\ RowsOf(maxRows, out', k) = RowsOf(maxRows, out, k)
  BY <1>1, Appended, RowsAppended
<1>3. HeadRows = PageRows(maxRows, v, L)
  BY DEF HeadRows
<1>4. ASSUME NEW k \in 0 .. L - 1, RowsOf(maxRows, out, k) > 0
      PROVE  SchemaAt[out[k + 1]] = expected'
  <2>1. SchemaAt[out[k + 1]] = expected
    BY <1>4 DEF WrittenSoFar
  <2>2. out[k + 1] \in Versions
    BY <1>1
  <2>3. expected # Unset
    BY <2>1, <2>2, VersionAssumption
  <2>4. expected' = expected
    BY <1>3, <2>3 DEF SchemaChanged, HeadColumns
  <2>5. QED
    BY <2>1, <2>4
<1>5. RowsOf(maxRows, out', L) > 0 => SchemaAt[v] = expected'
  BY <1>2, <1>3 DEF HeadColumns
<1>6. \A k \in 0 .. Len(out') - 1 : k \in 0 .. L - 1 \/ k = L
  BY <1>1, <1>2
<1>7. QED
  BY <1>2, <1>4, <1>5, <1>6

LEMMA WrittenStep ==
  TypeOK /\ NothingAfterEnd /\ WrittenSoFar /\ [Next]_vars => WrittenSoFar'
<1> SUFFICES ASSUME TypeOK, NothingAfterEnd, WrittenSoFar, [Next]_vars
             PROVE  WrittenSoFar'
  OBVIOUS
<1>0. maxRows' = maxRows
  BY LimitFixed
<1>1. CASE UNCHANGED <<out, terminal, expected>>
  BY <1>0, <1>1 DEF WrittenSoFar
<1>2. CASE Clear
  <2>1. Len(out') = 0 /\ ~ terminal'
    BY <1>2, NoPages DEF Clear
  <2>2. QED
    BY <2>1 DEF WrittenSoFar, Gapless
<1>3. CASE WriteFull \/ WriteShort
  <2> DEFINE L == Len(out)
             v == buffer[L]
  <2>1. /\ HeadReady /\ ~ SchemaChanged /\ pc = "drain"
        /\ out' = Append(out, v) /\ expected' = HeadColumns
    BY <1>3 DEF WriteFull, WriteShort
  <2>2. v \in Versions /\ out \in Seq(Versions) /\ L \in Nat
    BY <2>1, HeadPage DEF TypeOK
  <2>3. /\ Len(out') = L + 1
        /\ RowsOf(maxRows, out', L) = HeadRows
        /\ \A k \in 0 .. L - 1 : RowsOf(maxRows, out', k) = RowsOf(maxRows, out, k)
    BY <2>1, <2>2, Appended, RowsAppended DEF HeadRows
  <2>4. ~ terminal
    BY <2>1 DEF NothingAfterEnd
  <2>5. \A k \in 0 .. L - 1 : RowsOf(maxRows, out', k) = Limit(maxRows, k)
    BY <2>3, <2>4 DEF WrittenSoFar
  <2>6. Gapless(maxRows, out')
    <3>1. Len(out') - 2 = L - 1
      BY <2>2, <2>3
    <3>2. QED
      BY <2>5, <3>1 DEF Gapless
  <2>7. CASE WriteFull
    <3>1. ~ terminal' /\ HeadRows = Limit(maxRows, L)
      BY <2>4, <2>7 DEF WriteFull
    <3>2. \A k \in 0 .. Len(out') - 1 : k \in 0 .. L - 1 \/ k = L
      BY <2>2, <2>3
    <3>3. \A k \in 0 .. Len(out') - 1 : RowsOf(maxRows, out', k) = Limit(maxRows, k)
      BY <2>3, <2>5, <3>1, <3>2
    <3>4. QED
      BY <1>0, <2>1, <2>6, <3>1, <3>3, HeaderKept DEF WrittenSoFar
  <2>8. CASE WriteShort
    <3>1. terminal' /\ HeadRows < Limit(maxRows, L)
      BY <2>8 DEF WriteShort
    <3>2. Len(out') > 0 /\ Len(out') - 1 = L
      BY <2>2, <2>3
    <3>3. RowsOf(maxRows, out', Len(out') - 1) < Limit(maxRows, Len(out') - 1)
      BY <2>3, <3>1, <3>2
    <3>4. QED
      BY <1>0, <2>1, <2>6, <3>1, <3>2, <3>3, HeaderKept DEF WrittenSoFar
  <2>9. QED
    BY <1>3, <2>7, <2>8
<1>4. CASE RejectColumns \/ Replace \/ Stop \/ \E k \in Pages : CollectFailed(k)
  BY <1>2, <1>4 DEF RejectColumns, Replace, Stop, CollectFailed, Raise
<1>5. CASE \/ Start \/ SubmitOne \/ SubmitDone \/ Wait \/ DrainDone \/ SourceChanges
           \/ UNCHANGED vars
           \/ \E k \in Pages : AnswerPage(k) \/ Collect(k)
  BY <1>1, <1>5 DEF Start, SubmitOne, SubmitDone, Wait, DrainDone, SourceChanges, vars,
     runVars, AnswerPage, Collect
<1>6. QED
  BY <1>3, <1>4, <1>5 DEF Next, Fetch, Loop

(***************************************************************************)
(* The loop ends where the data or max_rows does.                          *)
(***************************************************************************)
LEMMA AllWritten ==
  ASSUME TypeOK, PagesAccounted, Drained, pc = "submit", Pending = {}, ~ terminal
  PROVE  Len(out) = next
<1>1. Len(out) \in Nat /\ next \in 0 .. MaxPages /\ Len(out) <= next
  BY DEF TypeOK
<1>2. CASE Len(out) \in Pages
  <2>1. buffer[Len(out)] = Absent /\ page[Len(out)] = Idle
    BY <1>2 DEF Drained, HeadReady, Pending
  <2>2. ~ (Len(out) < next)
    BY <1>1, <1>2, <2>1 DEF PagesAccounted
  <2>3. QED
    BY <1>1, <2>2
<1>3. CASE Len(out) \notin Pages
  BY <1>1, <1>3, ExportAssumption DEF Pages
<1>4. QED
  BY <1>2, <1>3

\* A page that has all its rows does not reach beyond the data.
LEMMA FullPage ==
  ASSUME NEW limit \in Limits, NEW v \in Versions, NEW k \in Nat,
         PageRows(limit, v, k) = Limit(limit, k),
         limit = NoLimit \/ (k + 1) * ChunkSize < limit
  PROVE  RowsAt[v] >= StartOffset + (k + 1) * ChunkSize
<1>1. RowsAt[v] \in Nat /\ StartOffset \in Nat /\ ChunkSize \in Nat /\ ChunkSize > 0
  BY ExportAssumption
<1> DEFINE o == k * ChunkSize
<1>2. o \in Nat
  BY <1>1
<1>3. (k + 1) * ChunkSize = o + ChunkSize
  BY <1>1
<1>4. Limit(limit, k) = IF limit = NoLimit THEN ChunkSize
                 ELSE Smaller(ChunkSize, limit - o)
  BY DEF Limit
<1> HIDE DEF o
<1>5. Limit(limit, k) = ChunkSize
  <2>1. CASE limit = NoLimit
    BY <1>4, <2>1
  <2>2. CASE limit # NoLimit
    <3>1. limit \in Nat /\ o + ChunkSize < limit
      BY <1>3, <2>2, ExportAssumption
    <3>2. QED
      BY <1>1, <1>2, <1>4, <2>2, <3>1 DEF Smaller
  <2>3. QED
    BY <2>1, <2>2
<1>6. PageRows(limit, v, k) = IF RowsAt[v] <= StartOffset + o THEN 0
                        ELSE Smaller(ChunkSize, RowsAt[v] - (StartOffset + o))
  BY <1>5 DEF PageRows, Offset, o
<1>7. ~ (RowsAt[v] <= StartOffset + o)
  <2>1. SUFFICES ASSUME RowsAt[v] <= StartOffset + o PROVE FALSE
    OBVIOUS
  <2>2. PageRows(limit, v, k) = 0
    BY <1>6, <2>1
  <2>3. QED
    BY <1>1, <1>5, <2>2
<1>8. Smaller(ChunkSize, RowsAt[v] - (StartOffset + o)) = ChunkSize
  BY <1>5, <1>7, <1>6
<1>9. RowsAt[v] - (StartOffset + o) \in Int
  BY <1>1, <1>2
<1>10. ChunkSize <= RowsAt[v] - (StartOffset + o)
  BY <1>1, <1>8, <1>9 DEF Smaller
<1>11. RowsAt[v] >= StartOffset + (o + ChunkSize)
  BY <1>1, <1>2, <1>10
<1>12. QED
  BY <1>3, <1>11

LEMMA ReachedStep ==
  ASSUME TypeOK, PagesAccounted, WrittenSoFar, Drained, SubmitDone, Pending = {}
  PROVE  ReachesEnd(maxRows, out)
<1>0. maxRows \in Limits
  BY DEF TypeOK
<1>1. CASE terminal
  BY <1>1 DEF WrittenSoFar, ReachesEnd
<1>2. CASE ~ terminal
  <2>1. Len(out) = next /\ Len(out) \in Nat /\ next \in 0 .. MaxPages
    BY <1>2, AllWritten DEF SubmitDone, TypeOK
  <2>2. ~ CanSubmit
    <3>1. Cardinality(Pending) = 0
      BY FS_EmptySet
    <3>2. QED
      BY <3>1, ExportAssumption DEF SubmitDone
  <2>3. CASE maxRows # NoLimit
    <3>1. next = MaxPages => next * ChunkSize >= maxRows
      BY <1>0, <2>1, <2>3, EnoughPages, ExportAssumption
    <3>2. ~ (next < MaxPages) => next = MaxPages
      BY <2>1, ExportAssumption
    <3>3. next * ChunkSize \in Nat /\ maxRows \in Nat
      BY <1>0, <2>1, <2>3, ExportAssumption
    <3>4. next * ChunkSize >= maxRows
      BY <1>2, <2>2, <2>3, <3>1, <3>2, <3>3 DEF CanSubmit
    <3>5. QED
      BY <2>1, <2>3, <3>4 DEF ReachesEnd
  <2>4. CASE maxRows = NoLimit
    <3>1. next = MaxPages
      BY <1>2, <2>1, <2>2, <2>4, ExportAssumption DEF CanSubmit
    <3> DEFINE k == MaxPages - 1
               v == out[k + 1]
    <3>2. k \in Nat /\ k + 1 = MaxPages /\ k \in 0 .. Len(out) - 1
      BY <2>1, <3>1, ExportAssumption
    <3>3. v \in Versions
      BY <2>1, <3>2 DEF TypeOK
    <3>4. PageRows(maxRows, v, k) = Limit(maxRows, k)
      BY <1>2, <3>2 DEF WrittenSoFar, RowsOf
    <3>5. RowsAt[v] >= StartOffset + MaxPages * ChunkSize
      BY <1>0, <2>4, <3>2, <3>3, <3>4, FullPage
    <3>6. RowsAt[v] < StartOffset + MaxPages * ChunkSize
      BY <1>0, <2>4, <3>3, EnoughPages
    <3>7. RowsAt[v] \in Nat /\ StartOffset + MaxPages * ChunkSize \in Nat
      BY <3>3, ExportAssumption
    <3>8. QED
      BY <3>5, <3>6, <3>7
  <2>5. QED
    BY <2>3, <2>4
<1>3. QED
  BY <1>1, <1>2

LEMMA EndReachedStep ==
  TypeOK /\ PagesAccounted /\ WrittenSoFar /\ Drained /\ EndReached /\ [Next]_vars
    => EndReached'
<1> SUFFICES ASSUME TypeOK, PagesAccounted, WrittenSoFar, Drained, EndReached, [Next]_vars
             PROVE  EndReached'
  OBVIOUS
<1>0. maxRows' = maxRows
  BY LimitFixed
<1>1. CASE UNCHANGED <<pc, out>>
  BY <1>0, <1>1 DEF EndReached
<1>2. CASE pc' # "replace"
  BY <1>2 DEF EndReached
<1>3. CASE SubmitDone
  <2>1. Pending = {} => ReachesEnd(maxRows, out)
    BY <1>3, ReachedStep
  <2>2. QED
    BY <1>0, <1>3, <2>1 DEF SubmitDone, runVars, EndReached
<1>4. CASE RejectColumns \/ Replace \/ Stop \/ \E k \in Pages : CollectFailed(k)
  BY <1>2, <1>4 DEF RejectColumns, Replace, Stop, CollectFailed, Raise
<1>5. CASE \/ Start \/ Wait \/ WriteFull \/ WriteShort \/ DrainDone
           \/ \E k \in Pages : Collect(k)
  BY <1>2, <1>5 DEF Start, Wait, WriteFull, WriteShort, DrainDone, Collect
<1>6. CASE SubmitOne \/ SourceChanges \/ UNCHANGED vars \/ \E k \in Pages : AnswerPage(k)
  BY <1>1, <1>6 DEF SubmitOne, SourceChanges, AnswerPage, vars, runVars
<1>7. QED
  BY <1>3, <1>4, <1>5, <1>6 DEF Next, Fetch, Loop

(***************************************************************************)
(* What replaces the destination is a complete export.                     *)
(***************************************************************************)
LEMMA Finished_IsExport ==
  ASSUME WrittenSoFar, EndReached, pc = "replace"
  PROVE  IsExport(maxRows, out)
BY DEF WrittenSoFar, EndReached, IsExport, OneHeader

LEMMA DestinationStep ==
  ASSUME WrittenSoFar, EndReached, [Next]_vars, dest' # dest
  PROVE  dest' = out /\ IsExport(maxRows, out)
<1>1. Replace
  BY DEF Next, Fetch, Loop, Start, AnswerPage, SubmitOne, SubmitDone, Wait, Collect,
     CollectFailed, WriteFull, WriteShort, RejectColumns, DrainDone, Raise, Stop,
     SourceChanges, vars
<1>2. QED
  BY <1>1, Finished_IsExport DEF Replace

LEMMA IndInit == Init => IndInv
<1> SUFFICES ASSUME Init PROVE IndInv
  OBVIOUS
<1>1. Len(out) = 0 /\ next = 0 /\ ~ terminal
  BY NoPages DEF Init
<1>2. \A k \in Pages : page[k] = Idle /\ buffer[k] = Absent /\ ~ (k < 0)
  BY ExportAssumption DEF Init, Pages
<1>3. PagesAccounted
  BY <1>1, <1>2 DEF PagesAccounted
<1>4. WrittenSoFar
  BY <1>1 DEF WrittenSoFar, Gapless
<1>5. Drained
  BY <1>2 DEF Drained, HeadReady
<1>6. QED
  BY <1>1, <1>3, <1>4, <1>5, TypeInit
     DEF IndInv, NothingAfterEnd, EndReached, ExportComplete, Init

LEMMA IndStep == IndInv /\ [Next]_vars => IndInv'
<1> SUFFICES ASSUME IndInv, [Next]_vars PROVE IndInv'
  OBVIOUS
<1>1. ExportComplete'
  <2>1. CASE dest' = dest
    BY <2>1, LimitFixed DEF IndInv, ExportComplete
  <2>2. CASE dest' # dest
    BY <2>2, LimitFixed, DestinationStep DEF IndInv, ExportComplete
  <2>3. QED
    BY <2>1, <2>2
<1>2. QED
  BY <1>1, TypeStep, AccountedStep, EndStep, WrittenStep, DrainedStep, EndReachedStep
     DEF IndInv

\* The conjunction of OrderedExport.IndInv holds in every reachable state of the
\* parallel export (pipeline.py lines 42-108), for every source, chunk size,
\* start offset, row limit and number of pending pages.
THEOREM Invariance == Spec => []IndInv
<1>1. QED
  BY IndInit, IndStep, PTL DEF Spec

\* Every variable of the export keeps its type.
THEOREM TypeCorrect == Spec => []TypeOK
<1>1. IndInv => TypeOK
  BY DEF IndInv
<1>2. QED
  BY <1>1, Invariance, PTL

\* Between the pool and the file no page is lost, and none is there twice,
\* in whatever order the workers answer.
THEOREM NoPageLost == Spec => []PagesAccounted
<1>1. IndInv => PagesAccounted
  BY DEF IndInv
<1>2. QED
  BY <1>1, Invariance, PTL

\* What stands at the destination has all pages in the order of their offsets
\* up to the end of the data or to max_rows.
THEOREM FileComplete == Spec => []ExportComplete
<1>1. IndInv => ExportComplete
  BY DEF IndInv
<1>2. QED
  BY <1>1, Invariance, PTL

\* The destination file goes from one complete export to the next in one step.
THEOREM Refinement == Spec => ImplementsAtomicExport
<1>1. Init => File!Init
  BY DEF Init, Exports, File!Init
<1>2. IndInv /\ [Next]_vars => [File!Replace]_<<dest, maxRows>>
  <2>0. ASSUME [Next]_vars PROVE maxRows' = maxRows
    BY <2>0, LimitFixed
  <2> SUFFICES ASSUME IndInv, [Next]_vars, dest' # dest PROVE File!Replace
    BY <2>0
  <2>1. dest' = out /\ IsExport(maxRows, out)
    BY DestinationStep DEF IndInv
  <2>2. out \in Seq(Versions) /\ maxRows \in Limits
    BY DEF IndInv, TypeOK
  <2>3. QED
    BY <2>0, <2>1, <2>2 DEF File!Replace, Exports
<1>3. QED
  BY <1>1, <1>2, Invariance, PTL DEF Spec, ImplementsAtomicExport, File!Spec

(***************************************************************************)
(* A file read from one version has all its rows.                          *)
(***************************************************************************)
\* No page is asked for, or written, that starts at max_rows or beyond.
WithinLimit ==
  maxRows # NoLimit =>
    /\ next > 0 => (next - 1) * ChunkSize < maxRows
    /\ dest # NoFile /\ Len(dest) > 0 => (Len(dest) - 1) * ChunkSize < maxRows

LEMMA LimitStep == TypeOK /\ WithinLimit /\ [Next]_vars => WithinLimit'
<1> SUFFICES ASSUME TypeOK, WithinLimit, [Next]_vars, maxRows # NoLimit
             PROVE  /\ next' > 0 => (next' - 1) * ChunkSize < maxRows
                    /\ dest' # NoFile /\ Len(dest') > 0 =>
                         (Len(dest') - 1) * ChunkSize < maxRows
  BY LimitFixed DEF WithinLimit
<1>1. /\ next \in Nat /\ ChunkSize \in Nat /\ maxRows \in Nat
      /\ out \in Seq(Versions) /\ Len(out) <= next
  BY ExportAssumption DEF TypeOK
<1>2. /\ next > 0 => (next - 1) * ChunkSize < maxRows
      /\ dest # NoFile /\ Len(dest) > 0 => (Len(dest) - 1) * ChunkSize < maxRows
  BY DEF WithinLimit
<1>3. CASE next' \in {next, 0} /\ dest' = dest
  BY <1>2, <1>3
<1>4. CASE SubmitOne
  <2>1. next * ChunkSize < maxRows /\ next' = next + 1 /\ dest' = dest
    BY <1>4 DEF SubmitOne, CanSubmit
  <2>2. next' - 1 = next
    BY <1>1, <2>1
  <2>3. QED BY <1>2, <2>1, <2>2
<1>5. CASE Replace
  <2>1. dest' = out /\ next' = 0
    BY <1>5 DEF Replace, Clear
  <2>2. ASSUME Len(out) > 0 PROVE (Len(out) - 1) * ChunkSize < maxRows
    <3> DEFINE a == Len(out) - 1
               b == next - 1
    <3>1. a \in Nat /\ b \in Nat /\ a <= b /\ b * ChunkSize < maxRows
      BY <1>1, <1>2, <2>2
    <3>2. b * ChunkSize = a * ChunkSize + (b - a) * ChunkSize
      BY <1>1, <3>1
    <3>3. (b - a) * ChunkSize \in Nat /\ a * ChunkSize \in Nat
      BY <1>1, <3>1
    <3> HIDE DEF a, b
    <3>4. a * ChunkSize < maxRows
      BY <1>1, <3>1, <3>2, <3>3
    <3>5. QED BY <3>4 DEF a
  <2>3. QED BY <2>1, <2>2
<1>6. CASE Start \/ Fetch \/ SourceChanges \/ UNCHANGED vars \/ SubmitDone \/ Wait
           \/ (\E k \in Pages : Collect(k)) \/ WriteFull \/ WriteShort \/ DrainDone
  BY <1>3, <1>6 DEF Start, Fetch, AnswerPage, SourceChanges, vars, runVars, SubmitDone,
                    Wait, Collect, WriteFull, WriteShort, DrainDone
<1>7. CASE (\E k \in Pages : CollectFailed(k)) \/ RejectColumns \/ Stop
  BY <1>3, <1>7 DEF CollectFailed, RejectColumns, Stop, Raise, Clear
<1>8. QED
  BY <1>4, <1>5, <1>6, <1>7 DEF Next, Loop

\* The rows of the pages before the last, and those of the last, are those that
\* there are.
LEMMA OneVersion ==
  ASSUME NEW limit \in Limits, NEW f \in Seq(Versions), IsExport(limit, f),
         limit # NoLimit /\ Len(f) > 0 => (Len(f) - 1) * ChunkSize < limit,
         NEW v \in Versions, \A i \in 1 .. Len(f) : f[i] = v
  PROVE  RowCount(limit, f) = Available(limit, v)
<1> DEFINE n == Len(f)
           r == RowsAt[v]
           m == (n - 1) * ChunkSize
           last == PageRows(limit, v, n - 1)
           lim == Limit(limit, n - 1)
<1>1. /\ n \in Nat /\ r \in Nat /\ StartOffset \in Nat /\ ChunkSize \in Nat \ {0}
      /\ limit # NoLimit => limit \in Nat \ {0}
  BY ExportAssumption
<1>2. n > 0
  <2>1. SUFFICES ASSUME n = 0 PROVE FALSE
    BY <1>1
  <2>2. limit # NoLimit /\ n * ChunkSize >= limit
    BY <2>1 DEF IsExport, ReachesEnd
  <2>3. QED BY <1>1, <2>1, <2>2
<1>3. m \in Nat /\ n * ChunkSize = m + ChunkSize /\ (n = 1 => m = 0)
  BY <1>1, <1>2
<1>4. RowsOf(limit, f, n - 1) = last
  <2>1. (n - 1) + 1 \in 1 .. Len(f)
    BY <1>1, <1>2
  <2>2. QED BY <2>1 DEF RowsOf
<1>5. RowCount(limit, f) = m + last
  BY <1>1, <1>2, <1>4 DEF RowCount
<1>6. last < lim \/ (limit # NoLimit /\ m + ChunkSize >= limit)
  BY <1>3, <1>4 DEF IsExport, ReachesEnd
<1>7. limit # NoLimit => m < limit
  BY <1>2
<1>8. m = 0 \/ r >= StartOffset + m
  <2>1. CASE n = 1
    BY <1>3, <2>1
  <2>2. CASE n # 1
    <3> DEFINE k == n - 2
    <3>0. n = Len(f) /\ n \in Nat /\ n > 0 /\ n # 1
      BY <1>1, <1>2, <2>2
    <3>1. k \in 0 .. Len(f) - 2 /\ k \in Nat /\ k + 1 = n - 1 /\ k + 1 \in 1 .. Len(f)
      <4> HIDE DEF n
      <4>1. QED BY <3>0
    <3>2. PageRows(limit, v, k) = Limit(limit, k)
      BY <3>1 DEF IsExport, Gapless, RowsOf
    <3>3. limit = NoLimit \/ (k + 1) * ChunkSize < limit
      BY <1>7, <3>1
    <3> HIDE DEF k
    <3>4. r >= StartOffset + (k + 1) * ChunkSize
      BY <3>1, <3>2, <3>3, FullPage
    <3>5. QED BY <3>1, <3>4
  <2>3. QED BY <2>1, <2>2
<1>9. last = IF r <= StartOffset + m THEN 0 ELSE Smaller(lim, r - (StartOffset + m))
  BY DEF PageRows, Offset
<1>10. lim = IF limit = NoLimit THEN ChunkSize ELSE Smaller(ChunkSize, limit - m)
  BY DEF Limit
<1>11. Available(limit, v) =
         LET left == IF r <= StartOffset THEN 0 ELSE r - StartOffset
         IN  IF limit = NoLimit THEN left ELSE Smaller(left, limit)
  BY DEF Available
<1> HIDE DEF n, r, m, last, lim
<1>12. m + last = Available(limit, v)
  <2>1. CASE limit = NoLimit
    <3>1. lim = ChunkSize /\ last < ChunkSize
      BY <1>6, <1>10, <2>1
    <3>2. QED BY <1>1, <1>3, <1>8, <1>9, <1>11, <2>1, <3>1 DEF Smaller
  <2>2. CASE limit # NoLimit
    <3>1. /\ limit \in Nat /\ m < limit
          /\ lim = IF ChunkSize <= limit - m THEN ChunkSize ELSE limit - m
      BY <1>1, <1>7, <1>10, <2>2 DEF Smaller
    <3>2. lim \in Nat
      BY <1>1, <1>3, <3>1
    <3>3. Available(limit, v) = IF r <= StartOffset THEN 0
                         ELSE IF r - StartOffset <= limit THEN r - StartOffset ELSE limit
      BY <1>1, <1>11, <2>2, <3>1 DEF Smaller
    <3>4. last = IF r <= StartOffset + m THEN 0
                 ELSE IF lim <= r - (StartOffset + m) THEN lim ELSE r - (StartOffset + m)
      BY <1>9 DEF Smaller
    <3>5. QED BY <1>1, <1>3, <1>6, <1>8, <3>1, <3>2, <3>3, <3>4
  <2>3. QED BY <2>1, <2>2
<1>13. QED BY <1>5, <1>12

\* A file whose pages were all read from one version of the source has as many
\* rows as that version has from start_offset on, up to max_rows.
THEOREM FileHasAllRows == Spec => []AllRows
<1>1. Init => WithinLimit
  BY DEF Init, WithinLimit
<1>2. IndInv /\ WithinLimit => AllRows
  <2> SUFFICES ASSUME IndInv, WithinLimit, dest # NoFile, NEW v \in Versions,
                      \A i \in 1 .. Len(dest) : dest[i] = v
               PROVE  RowCount(maxRows, dest) = Available(maxRows, v)
    BY DEF AllRows
  <2>1. dest \in Seq(Versions) /\ IsExport(maxRows, dest) /\ maxRows \in Limits
    BY DEF IndInv, TypeOK, ExportComplete
  <2>2. QED BY <2>1, OneVersion DEF WithinLimit
<1>3. IndInv => TypeOK
  BY DEF IndInv
<1>4. QED BY <1>1, <1>2, <1>3, LimitStep, Invariance, PTL DEF Spec
------------------------------------------------------------------------------
(***************************************************************************)
(* Why a run ends.  A page is submitted, answered, collected and written;  *)
(* the loop goes round only when one of these has happened.                *)
(***************************************************************************)
ToSubmit == {k \in Pages : k >= next}

ToAnswer == {k \in Pages : k >= next \/ page[k] = InFlight}

ToCollect == {k \in Pages : k >= next \/ page[k] # Idle}

ToWrite == {k \in Pages : k >= next \/ page[k] # Idle \/ buffer[k] # Absent}

PageWork ==
  Cardinality(ToSubmit) + Cardinality(ToAnswer) + Cardinality(ToCollect) + Cardinality(ToWrite)

\* The steps that a run has left, at most.
LoopSteps ==
  IF pc = "drain" THEN 3
  ELSE IF pc = "submit" THEN 2
  ELSE IF pc = "wait" \/ pc = "replace" THEN 1
  ELSE 0

StepsLeft == 4 * PageWork + LoopSteps

\* Every step of a run, of a worker or of what fails ends the run or brings it
\* nearer to its end: the loop never goes round without a page that has come
\* further, whichever of them were answered, and none comes back to where it was.
NearerToTheEnd ==
  [][pc # "idle" => \/ pc' = "idle"
                    \/ StepsLeft' \in 0 .. StepsLeft - 1
                    \/ SourceChanges /\ StepsLeft' = StepsLeft]_vars

LEMMA PartOfASet ==
  ASSUME NEW S, IsFiniteSet(S), NEW T \in SUBSET S
  PROVE  /\ Cardinality(S) \in Nat /\ Cardinality(T) \in Nat
         /\ Cardinality(T) <= Cardinality(S)
         /\ S # T => Cardinality(T) < Cardinality(S)
<1>1. /\ IsFiniteSet(T) /\ Cardinality(T) <= Cardinality(S)
      /\ Cardinality(S) = Cardinality(T) => S = T
  BY FS_Subset
<1>2. Cardinality(S) \in Nat /\ Cardinality(T) \in Nat
  BY <1>1, FS_CardinalityType
<1>3. QED
  BY <1>1, <1>2

LEMMA PagesFinite ==
  ASSUME NEW S \in SUBSET Pages
  PROVE  IsFiniteSet(S) /\ Cardinality(S) \in Nat
<1>1. IsFiniteSet(Pages)
  BY ExportAssumption, FS_Interval DEF Pages
<1>2. QED
  BY <1>1, FS_Subset, FS_CardinalityType

LEMMA WorkIsANumber == PageWork \in Nat
<1>1. /\ ToSubmit \in SUBSET Pages /\ ToAnswer \in SUBSET Pages
      /\ ToCollect \in SUBSET Pages /\ ToWrite \in SUBSET Pages
  BY DEF ToSubmit, ToAnswer, ToCollect, ToWrite
<1>2. QED
  BY <1>1, PagesFinite DEF PageWork

\* No page comes back to where it was.
LEMMA WorkDescends ==
  ASSUME ToSubmit' \subseteq ToSubmit, ToAnswer' \subseteq ToAnswer,
         ToCollect' \subseteq ToCollect, ToWrite' \subseteq ToWrite
  PROVE  /\ PageWork \in Nat /\ PageWork' \in Nat /\ PageWork' <= PageWork
         /\ \/ ToSubmit' # ToSubmit \/ ToAnswer' # ToAnswer
            \/ ToCollect' # ToCollect \/ ToWrite' # ToWrite
            => PageWork' < PageWork
<1> DEFINE S == ToSubmit  A == ToAnswer  C == ToCollect  W == ToWrite
           S1 == ToSubmit'  A1 == ToAnswer'  C1 == ToCollect'  W1 == ToWrite'
<1>1. /\ S1 \in SUBSET S /\ A1 \in SUBSET A /\ C1 \in SUBSET C /\ W1 \in SUBSET W
      /\ IsFiniteSet(S) /\ IsFiniteSet(A) /\ IsFiniteSet(C) /\ IsFiniteSet(W)
  <2>1. S \in SUBSET Pages /\ A \in SUBSET Pages /\ C \in SUBSET Pages /\ W \in SUBSET Pages
    BY DEF ToSubmit, ToAnswer, ToCollect, ToWrite
  <2> HIDE DEF S, A, C, W
  <2>2. IsFiniteSet(S) /\ IsFiniteSet(A) /\ IsFiniteSet(C) /\ IsFiniteSet(W)
    BY <2>1, PagesFinite
  <2>3. QED
    BY <2>2 DEF S, A, C, W
<1>2. /\ PageWork = Cardinality(S) + Cardinality(A) + Cardinality(C) + Cardinality(W)
      /\ PageWork' = Cardinality(S1) + Cardinality(A1) + Cardinality(C1) + Cardinality(W1)
  BY DEF PageWork
<1>3. (\/ ToSubmit' # ToSubmit \/ ToAnswer' # ToAnswer
       \/ ToCollect' # ToCollect \/ ToWrite' # ToWrite)
      <=> S # S1 \/ A # A1 \/ C # C1 \/ W # W1
  OBVIOUS
<1> HIDE DEF S, A, C, W, S1, A1, C1, W1
<1>4. /\ Cardinality(S) \in Nat /\ Cardinality(S1) \in Nat
      /\ Cardinality(S1) <= Cardinality(S) /\ (S # S1 => Cardinality(S1) < Cardinality(S))
  BY <1>1, PartOfASet
<1>5. /\ Cardinality(A) \in Nat /\ Cardinality(A1) \in Nat
      /\ Cardinality(A1) <= Cardinality(A) /\ (A # A1 => Cardinality(A1) < Cardinality(A))
  BY <1>1, PartOfASet
<1>6. /\ Cardinality(C) \in Nat /\ Cardinality(C1) \in Nat
      /\ Cardinality(C1) <= Cardinality(C) /\ (C # C1 => Cardinality(C1) < Cardinality(C))
  BY <1>1, PartOfASet
<1>7. /\ Cardinality(W) \in Nat /\ Cardinality(W1) \in Nat
      /\ Cardinality(W1) <= Cardinality(W) /\ (W # W1 => Cardinality(W1) < Cardinality(W))
  BY <1>1, PartOfASet
<1>8. QED
  BY <1>2, <1>3, <1>4, <1>5, <1>6, <1>7

LEMMA LoopDescends ==
  /\ LoopSteps \in 0 .. 3 /\ LoopSteps' \in 0 .. 3
  /\ PageWork \in Nat /\ PageWork' \in Nat /\ PageWork' < PageWork =>
       StepsLeft' \in 0 .. StepsLeft - 1
<1>1. LoopSteps \in 0 .. 3 /\ LoopSteps' \in 0 .. 3
  BY DEF LoopSteps
<1>2. StepsLeft = 4 * PageWork + LoopSteps /\ StepsLeft' = 4 * PageWork' + LoopSteps'
  BY DEF StepsLeft
<1>3. QED
  BY <1>1, <1>2

\* What a page in the pool can be.
LEMMA Marks ==
  /\ Idle # InFlight /\ Failed # InFlight /\ Idle \notin Versions
  /\ InFlight \notin Versions /\ Absent \notin Versions
BY VersionAssumption, Zenon DEF Idle, InFlight, Failed, Absent

\* A run has at most sixteen steps for each of MaxPages pages, and two more, for any
\* chunk size, number of pending pages and order of the answers; with the fairness
\* of Fetch and Loop, which is not reasoned about here, EveryRunEnds follows.
THEOREM RunsDescend == Spec => NearerToTheEnd
<1> DEFINE Nearer == StepsLeft' \in 0 .. StepsLeft - 1
<1>1. ASSUME IndInv, [Next]_vars, pc # "idle", vars' # vars
      PROVE  pc' = "idle" \/ Nearer \/ (SourceChanges /\ StepsLeft' = StepsLeft)
  <2> USE DEF ToSubmit, ToAnswer, ToCollect, ToWrite
  <2>0. TypeOK /\ PagesAccounted /\ NothingAfterEnd
    BY <1>1 DEF IndInv
  <2>1. CASE SubmitOne
    <3>1. /\ next \in Pages /\ next' = next + 1 /\ next \in Nat
          /\ page' = [page EXCEPT ![next] = InFlight]
          /\ UNCHANGED <<pc, buffer>>
      BY <2>0, <2>1, ExportAssumption DEF SubmitOne, CanSubmit, TypeOK, Pages
    <3>2. \A k \in Pages : k # next => page'[k] = page[k]
      BY <2>0, <3>1 DEF TypeOK
    <3>3. \A k \in Pages : k >= next' <=> k >= next /\ k # next
      BY <3>1 DEF Pages
    <3>4. /\ ToSubmit' \subseteq ToSubmit /\ ToAnswer' \subseteq ToAnswer
          /\ ToCollect' \subseteq ToCollect /\ ToWrite' \subseteq ToWrite
          /\ next \in ToSubmit /\ next \notin ToSubmit'
      <4>1. next >= next /\ \A k \in Pages : k >= next' => k >= next /\ k # next
        BY <3>1, <3>3
      <4>2. next \in ToSubmit /\ next \notin ToSubmit' /\ ToSubmit' \subseteq ToSubmit
        BY <3>1, <4>1
      <4>3. ToAnswer' \subseteq ToAnswer
        BY <3>1, <3>2, <4>1
      <4>4. ToCollect' \subseteq ToCollect
        BY <3>1, <3>2, <4>1
      <4>5. ToWrite' \subseteq ToWrite
        BY <3>1, <3>2, <4>1
      <4>6. QED
        BY <4>2, <4>3, <4>4, <4>5
    <3>5. PageWork \in Nat /\ PageWork' \in Nat /\ PageWork' < PageWork
      <4> HIDE DEF ToSubmit, ToAnswer, ToCollect, ToWrite
      <4>1. QED
        BY <3>4, WorkDescends
    <3>6. QED
      BY <3>5, LoopDescends
  <2>2. ASSUME NEW k \in Pages, AnswerPage(k) PROVE Nearer
    <3>1. page[k] = InFlight /\ UNCHANGED <<pc, next, buffer>>
      BY <2>2 DEF AnswerPage
    <3>2. page'[k] # InFlight /\ \A j \in Pages : j # k => page'[j] = page[j]
      BY <2>0, <2>2, Marks DEF AnswerPage, TypeOK
    <3>3. page[k] # Idle /\ ~ (k >= next)
      <4>1. page[k] # Idle
        BY <3>1, Marks
      <4>2. ~ terminal
        BY <2>0, <4>1 DEF NothingAfterEnd, Pending
      <4>3. k < next
        BY <2>0, <4>1, <4>2 DEF PagesAccounted
      <4>4. QED
        BY <2>0, <4>1, <4>3 DEF Pages, TypeOK
    <3>4. /\ ToSubmit' \subseteq ToSubmit /\ ToAnswer' \subseteq ToAnswer
          /\ ToCollect' \subseteq ToCollect /\ ToWrite' \subseteq ToWrite
          /\ k \in ToAnswer /\ k \notin ToAnswer'
      BY <3>1, <3>2, <3>3
    <3>5. PageWork \in Nat /\ PageWork' \in Nat /\ PageWork' < PageWork
      <4> HIDE DEF ToSubmit, ToAnswer, ToCollect, ToWrite
      <4>1. QED
        BY <3>4, WorkDescends
    <3>6. QED
      BY <3>5, LoopDescends
  <2>3. ASSUME NEW k \in Pages, Collect(k) PROVE Nearer
    <3>1. /\ page[k] \in Versions /\ page' = [page EXCEPT ![k] = Idle]
          /\ buffer' = [buffer EXCEPT ![k] = page[k]]
          /\ pc = "collect" /\ pc' \in {"collect", "drain"} /\ next' = next
      BY <2>3 DEF Collect
    <3>2. /\ page'[k] = Idle /\ page[k] # Idle
          /\ \A j \in Pages : j # k => page'[j] = page[j] /\ buffer'[j] = buffer[j]
      BY <2>0, <3>1, Marks DEF TypeOK
    <3>3. ~ (k >= next)
      <4>1. ~ terminal
        BY <2>0, <3>2 DEF NothingAfterEnd, Pending
      <4>2. k < next
        BY <2>0, <3>2, <4>1 DEF PagesAccounted
      <4>3. QED
        BY <2>0, <4>2 DEF Pages, TypeOK
    <3>4. /\ ToSubmit' \subseteq ToSubmit /\ ToAnswer' \subseteq ToAnswer
          /\ ToCollect' \subseteq ToCollect /\ ToWrite' \subseteq ToWrite
          /\ k \in ToCollect /\ k \notin ToCollect'
      BY <3>1, <3>2, <3>3, Marks
    <3>5. PageWork \in Nat /\ PageWork' \in Nat /\ PageWork' < PageWork
      <4> HIDE DEF ToSubmit, ToAnswer, ToCollect, ToWrite
      <4>1. QED
        BY <3>4, WorkDescends
    <3>6. QED
      BY <3>5, LoopDescends
  <2>4. CASE WriteFull
    <3>1. Len(out) \in Pages
      BY <2>0, <2>4, HeadPage DEF WriteFull
    <3>2. /\ buffer' = [buffer EXCEPT ![Len(out)] = Absent]
          /\ UNCHANGED <<pc, next, page>> /\ HeadReady
      BY <2>4 DEF WriteFull
    <3>3. buffer[Len(out)] # Absent /\ page[Len(out)] = Idle /\ ~ (Len(out) >= next)
      <4>1. buffer[Len(out)] # Absent
        BY <3>2 DEF HeadReady
      <4>2. ~ terminal
        BY <2>0, <3>1, <4>1 DEF NothingAfterEnd
      <4>3. page[Len(out)] = Idle /\ Len(out) < next
        BY <2>0, <3>1, <4>1, <4>2 DEF PagesAccounted
      <4>4. QED
        BY <2>0, <3>1, <4>1, <4>3 DEF Pages, TypeOK
    <3>4. buffer'[Len(out)] = Absent /\ \A j \in Pages : j # Len(out) => buffer'[j] = buffer[j]
      BY <2>0, <3>1, <3>2 DEF TypeOK
    <3>5. /\ ToSubmit' \subseteq ToSubmit /\ ToAnswer' \subseteq ToAnswer
          /\ ToCollect' \subseteq ToCollect /\ ToWrite' \subseteq ToWrite
          /\ Len(out) \in ToWrite /\ Len(out) \notin ToWrite'
      BY <3>1, <3>2, <3>3, <3>4
    <3>6. PageWork \in Nat /\ PageWork' \in Nat /\ PageWork' < PageWork
      <4> HIDE DEF ToSubmit, ToAnswer, ToCollect, ToWrite
      <4>1. QED
        BY <3>5, WorkDescends
    <3>7. QED
      BY <3>6, LoopDescends
  <2>5. CASE WriteShort
    <3>1. /\ \A k \in Pages : page'[k] \in {Idle, page[k]} /\ buffer'[k] \in {Absent, buffer[k]}
          /\ pc = "drain" /\ pc' = "submit" /\ next' = next
      BY <2>5 DEF WriteShort
    <3>2. /\ ToSubmit' \subseteq ToSubmit /\ ToAnswer' \subseteq ToAnswer
          /\ ToCollect' \subseteq ToCollect /\ ToWrite' \subseteq ToWrite
      BY <3>1, Marks
    <3>3. PageWork \in Nat /\ PageWork' \in Nat /\ PageWork' <= PageWork
      <4> HIDE DEF ToSubmit, ToAnswer, ToCollect, ToWrite
      <4>1. QED
        BY <3>2, WorkDescends
    <3>4. LoopSteps = 3 /\ LoopSteps' = 2
      BY <3>1 DEF LoopSteps
    <3>5. StepsLeft = 4 * PageWork + 3 /\ StepsLeft' = 4 * PageWork' + 2
      BY <3>4 DEF StepsLeft
    <3>6. Nearer
      <4>1. \A a, b \in Nat : b <= a => 4 * b + 2 \in 0 .. (4 * a + 3) - 1
        OBVIOUS
      <4>2. 4 * PageWork' + 2 \in 0 .. (4 * PageWork + 3) - 1
        BY <3>3, <4>1
      <4>3. QED
        BY <3>5, <4>2
    <3>7. QED
      BY <3>6
  <2>6. CASE SubmitDone \/ Wait \/ DrainDone
    <3>1. /\ UNCHANGED <<next, page, buffer>>
          /\ \/ pc = "submit" /\ pc' \in {"wait", "replace"}
             \/ pc = "wait" /\ pc' = "collect"
             \/ pc = "drain" /\ pc' = "submit"
      BY <2>6 DEF SubmitDone, Wait, DrainDone, runVars
    <3>2. PageWork' = PageWork /\ PageWork \in Nat
      BY <3>1, WorkIsANumber DEF PageWork
    <3>3. QED
      BY <3>1, <3>2 DEF StepsLeft, LoopSteps
  <2>7. CASE RejectColumns \/ Replace \/ Stop \/ \E k \in Pages : CollectFailed(k)
    BY <2>7 DEF RejectColumns, Replace, Stop, CollectFailed, Raise
  <2>8. CASE SourceChanges
    <3>1. UNCHANGED <<pc, next, page, buffer>>
      BY <2>8 DEF SourceChanges, runVars
    <3>2. StepsLeft' = StepsLeft
      BY <3>1 DEF StepsLeft, PageWork, LoopSteps
    <3>3. QED
      BY <2>8, <3>2
  <2>9. CASE Start
    BY <1>1, <2>9 DEF Start
  <2>10. QED
    <3> HIDE DEF Nearer
    <3>1. QED
      BY <1>1, <2>1, <2>2, <2>3, <2>4, <2>5, <2>6, <2>7, <2>8, <2>9 DEF Next, Fetch, Loop
<1>2. IndInv /\ [Next]_vars =>
        [pc # "idle" => pc' = "idle" \/ Nearer \/ (SourceChanges /\ StepsLeft' = StepsLeft)]_vars
  BY <1>1
<1>3. QED
  BY <1>2, Invariance, PTL DEF Spec, NearerToTheEnd
==============================================================================
