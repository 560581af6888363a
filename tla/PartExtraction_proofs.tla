------------------------ MODULE PartExtraction_proofs ------------------------
(***************************************************************************)
(* Theorems about PartExtraction, for every value of its constants.        *)
(***************************************************************************)
EXTENDS PartExtraction, FiniteSetTheorems, TLAPS

(***************************************************************************)
(* Facts about parts, pages and queues.                                    *)
(***************************************************************************)
\* There are finitely many parts, so any set of chunks can be counted.
LEMMA PartsFinite == IsFiniteSet(Parts)
<1>1. IsFiniteSet(0 .. MaxRows) /\ IsFiniteSet(1 .. MaxRows)
  BY FS_Interval, PartAssumption
<1>2. IsFiniteSet((0 .. MaxRows) \X (1 .. MaxRows))
  BY <1>1, FS_Product
<1>3. QED
  BY <1>2, FS_Subset DEF Parts

\* A queue of chunks in offset order is a sequence of just those chunks.
LEMMA QueueOfChunks ==
  ASSUME NEW U \in SUBSET Parts, NEW q \in OffsetOrder(U)
  PROVE  /\ q \in Seq(Parts)
         /\ \A p \in U : \E i \in DOMAIN q : q[i] = p
<1>1. Cardinality(U) \in Nat
  BY PartsFinite, FS_Subset, FS_CardinalityType
<1>2. QED
  BY <1>1 DEF OffsetOrder

LEMMA PlannedType == ASSUME ver \in Versions PROVE Planned \in 0 .. MaxRows
BY PartAssumption DEF Planned, Smaller

\* The halves of a splittable page are parts, and together they are the page.
LEMMA Halves ==
  ASSUME NEW p \in Parts, p[2] > MinChunk
  PROVE  /\ LeftHalf(p) \in Parts
         /\ RightHalf(p) \in Parts
         /\ Span(p) = Span(LeftHalf(p)) \cup Span(RightHalf(p))
<1> DEFINE left == IF MinChunk > p[2] \div 2 THEN MinChunk ELSE p[2] \div 2
<1>1. /\ p[1] \in Nat /\ p[2] \in Nat \ {0}
      /\ p[1] + p[2] <= MaxRows /\ MaxRows \in Nat /\ MinChunk \in Nat \ {0}
  BY PartAssumption DEF Parts
<1>2. /\ left \in Nat /\ 0 < left /\ left < p[2]
  BY <1>1
<1>3. /\ LeftHalf(p) = <<p[1], left>>
      /\ RightHalf(p) = <<p[1] + left, p[2] - left>>
  BY DEF LeftHalf, RightHalf
<1> HIDE DEF left
<1>4. LeftHalf(p) \in Parts /\ RightHalf(p) \in Parts
  BY <1>1, <1>2, <1>3 DEF Parts
<1>5. Span(p) = Span(LeftHalf(p)) \cup Span(RightHalf(p))
  BY <1>1, <1>2, <1>3 DEF Span
<1>6. QED
  BY <1>4, <1>5

\* Every offset of the plan is in a chunk.
LEMMA OffsetInChunk ==
  ASSUME NEW n \in 0 .. MaxRows, NEW c \in Nat \ {0}, NEW r \in 0 .. n - 1
  PROVE  \E p \in Chunks(n, c) : r \in Span(p)
<1> DEFINE off == (r \div c) * c
           p   == <<off, Smaller(c, n - off)>>
<1>1. MaxRows \in Nat /\ n \in Nat /\ r \in Nat /\ r < n /\ n <= MaxRows
  BY PartAssumption
<1>2. off \in Nat /\ off <= r /\ r < off + c
  BY <1>1
<1>3. off % c = 0
  <2>1. r \div c \in Nat
    BY <1>1
  <2>2. QED
    BY <2>1
<1> HIDE DEF off
<1>4. p \in Chunks(n, c)
  BY <1>1, <1>2, <1>3 DEF Chunks, Parts, Smaller
<1>5. r \in Span(p)
  BY <1>1, <1>2 DEF Span, Smaller
<1>6. QED
  BY <1>4, <1>5

\* Taking the first task, and putting two before the others, keeps the rest.
LEMMA TakeFirst ==
  ASSUME NEW S, NEW s \in Seq(S), s # <<>>
  PROVE  /\ Head(s) \in S
         /\ Tail(s) \in Seq(S)
         /\ \A i \in DOMAIN s : s[i] = Head(s) \/ \E j \in DOMAIN Tail(s) : Tail(s)[j] = s[i]
<1>1. Head(s) \in S /\ Tail(s) \in Seq(S)
  OBVIOUS
<1>2. ASSUME NEW i \in DOMAIN s, i # 1
      PROVE  i - 1 \in DOMAIN Tail(s) /\ Tail(s)[i - 1] = s[i]
  BY <1>2
<1>3. s[1] = Head(s)
  OBVIOUS
<1>4. QED
  BY <1>1, <1>2, <1>3

LEMMA PutTwoBefore ==
  ASSUME NEW S, NEW s \in Seq(S), NEW a \in S, NEW b \in S
  PROVE  /\ <<a, b>> \o s \in Seq(S)
         /\ 1 \in DOMAIN (<<a, b>> \o s) /\ (<<a, b>> \o s)[1] = a
         /\ 2 \in DOMAIN (<<a, b>> \o s) /\ (<<a, b>> \o s)[2] = b
         /\ \A i \in DOMAIN s : \E j \in DOMAIN (<<a, b>> \o s) : (<<a, b>> \o s)[j] = s[i]
<1>1. <<a, b>> \o s \in Seq(S)
  OBVIOUS
<1>2. /\ 1 \in DOMAIN (<<a, b>> \o s) /\ (<<a, b>> \o s)[1] = a
      /\ 2 \in DOMAIN (<<a, b>> \o s) /\ (<<a, b>> \o s)[2] = b
  OBVIOUS
<1>3. ASSUME NEW i \in DOMAIN s
      PROVE  i + 2 \in DOMAIN (<<a, b>> \o s) /\ (<<a, b>> \o s)[i + 2] = s[i]
  OBVIOUS
<1>4. QED
  BY <1>1, <1>2, <1>3

(***************************************************************************)
(* The state keeps its type.                                               *)
(***************************************************************************)
\* What BeginLoop sets has its type when the items and the plan it is given do.
LEMMA BeginLoopType ==
  ASSUME NEW n \in 0 .. MaxRows, NEW c \in ChunkSizes, NEW items \in Items,
         BeginLoop(n, c, items)
  PROVE  /\ planned' \in 0 .. MaxRows
         /\ completed' \in Items
         /\ tasks' \in Seq(Parts)
         /\ ckpt' \in Checkpoints
         /\ pc' \in Phases
<1>1. tasks' \in Seq(Parts)
  <2>1. {p \in Chunks(n, c) : ~ Covered(items, p)} \in SUBSET Parts
    BY DEF Chunks
  <2>2. QED
    BY <2>1, QueueOfChunks DEF BeginLoop
<1>2. QED
  BY <1>1 DEF BeginLoop, SaveCheckpoint, Checkpoints, Phases

LEMMA IntactType ==
  ASSUME TypeOK, ckpt # NoCheckpoint
  PROVE  /\ Intact \in Items
         /\ \A p \in Listed(Intact) : /\ p \in Listed(ckpt.completed)
                                     /\ Intact[p] = ckpt.completed[p]
                                     /\ Intact[p] = files[p]
BY DEF TypeOK, Checkpoints, Items, Intact, Listed

LEMMA RaiseType ==
  ASSUME TypeOK, Raise, faults' \in 0 .. MaxFaults
  PROVE  TypeOK'
BY PartAssumption DEF TypeOK, Raise, SaveCheckpoint, Checkpoints, Items, NoItems, Phases,
                      dirVars

LEMMA TypeInit == Init => TypeOK
BY PartAssumption DEF Init, TypeOK, Items, NoItems, Phases, Directories

LEMMA TypeStep == TypeOK /\ CurrentPart /\ [Next]_vars => TypeOK'
<1> SUFFICES ASSUME TypeOK, CurrentPart, [Next]_vars PROVE TypeOK'
  OBVIOUS
<1> USE DEF TypeOK, runVars, workVars, dirVars
<1>1. CASE StartResume
  <2> PICK c \in ChunkSizes :
        BeginLoop(Planned, c, IF ckpt = NoCheckpoint THEN NoItems ELSE Intact)
    BY <1>1 DEF StartResume
  <2>1. (IF ckpt = NoCheckpoint THEN NoItems ELSE Intact) \in Items
    BY IntactType DEF NoItems, Items
  <2>2. QED
    BY <1>1, <2>1, BeginLoopType, PlannedType DEF StartResume
<1>2. CASE StartFresh
  <2>1. CASE ckpt = NoCheckpoint
    <3> PICK c \in ChunkSizes : BeginLoop(Planned, c, NoItems)
      BY <1>2, <2>1 DEF StartFresh
    <3>1. NoItems \in Items
      BY DEF NoItems, Items
    <3>2. QED
      BY <1>2, <2>1, <3>1, BeginLoopType, PlannedType DEF StartFresh
  <2>2. CASE ckpt # NoCheckpoint
    BY <1>2, <2>2, PlannedType DEF StartFresh, Phases
  <2>3. QED
    BY <2>1, <2>2
<1>3. ASSUME NEW p \in Parts, RemovePartFile(p) PROVE TypeOK'
  BY <1>3 DEF RemovePartFile
<1>4. CASE RemoveCheckpoint
  BY <1>4 DEF RemoveCheckpoint
<1>5. CASE Discarded
  <2> PICK c \in ChunkSizes : BeginLoop(planned, c, NoItems)
    BY <1>5 DEF Discarded
  <2>1. NoItems \in Items
    BY DEF NoItems, Items
  <2>2. QED
    BY <1>5, <2>1, BeginLoopType DEF Discarded
<1>6. CASE Submit
  BY <1>6, TakeFirst DEF Submit
<1>7. ASSUME NEW p \in Parts, AnswerPage(p) PROVE TypeOK'
  BY <1>7, PartAssumption DEF AnswerPage
<1>8. CASE Wait
  BY <1>8 DEF Wait, Finished
<1>9. ASSUME NEW p \in Parts, SplitPage(p) PROVE TypeOK'
  <2>1. LeftHalf(p) \in Parts /\ RightHalf(p) \in Parts
    BY <1>9, Halves DEF SplitPage, Splittable
  <2>2. tasks' \in Seq(Parts)
    BY <1>9, <2>1, PutTwoBefore DEF SplitPage
  <2>3. QED
    BY <1>9, <2>2 DEF SplitPage, SaveCheckpoint, Checkpoints
<1>10. ASSUME NEW p \in Parts, RejectPage(p) PROVE TypeOK'
  BY <1>10, RaiseType DEF RejectPage
<1>11. ASSUME NEW p \in Parts, WritePart(p) PROVE TypeOK'
  BY <1>11 DEF WritePart, Phases
<1>12. CASE RecordPart
  <2>1. cur \in Parts /\ page[cur] \in Versions
    BY <1>12 DEF RecordPart, CurrentPart
  <2>2. QED
    BY <1>12, <2>1 DEF RecordPart, SaveCheckpoint, Checkpoints, Items, Phases
<1>13. CASE CountMismatch
  BY <1>13, RaiseType DEF CountMismatch
<1>14. CASE CountVerified
  BY <1>14 DEF CountVerified, SaveCheckpoint, Checkpoints, Phases
<1>15. CASE BeginPublish
  BY <1>15 DEF BeginPublish, Directories, Phases
<1>16. CASE CopyParts
  BY <1>16 DEF CopyParts, Directories, Datasets, Phases
<1>17. CASE TearOld \/ RemoveStaleOld \/ RemoveOld
  BY <1>17 DEF TearOld, RemoveStaleOld, RemoveOld, Directories, Phases
<1>18. CASE MoveAside
  BY <1>18 DEF MoveAside, Directories, Phases
<1>19. CASE InstallOver \/ InstallNew
  BY <1>19 DEF InstallOver, InstallNew, Directories, Phases
<1>20. CASE Return
  BY <1>20, PartAssumption DEF Return, NoItems, Items, Phases
<1>21. CASE IOFailure
  BY <1>21, RaiseType, PartAssumption DEF IOFailure
<1>22. CASE Crash
  BY <1>22, PartAssumption DEF Crash, NoItems, Items, Phases
<1>23. CASE SourceChanges
  BY <1>23 DEF SourceChanges
<1>24. CASE UNCHANGED vars
  BY <1>24 DEF vars
<1>25. QED
  BY <1>1, <1>2, <1>3, <1>4, <1>5, <1>6, <1>7, <1>8, <1>9, <1>10, <1>11, <1>12,
     <1>13, <1>14, <1>15, <1>16, <1>17, <1>18, <1>19, <1>20, <1>21, <1>22, <1>23,
     <1>24 DEF Next, Fetch, Schedule, Publish, Remove

(***************************************************************************)
(* While a part file is being written, its page is in the batch at hand.   *)
(***************************************************************************)
LEMMA CurrentStep == TypeOK /\ CurrentPart /\ [Next]_vars => CurrentPart'
<1> SUFFICES ASSUME TypeOK, CurrentPart, [Next]_vars PROVE CurrentPart'
  OBVIOUS
<1> USE DEF CurrentPart, runVars
<1>1. CASE StartResume \/ StartFresh \/ Discarded
  BY <1>1 DEF StartResume, StartFresh, Discarded, BeginLoop
<1>2. ASSUME NEW p \in Parts, AnswerPage(p) PROVE CurrentPart'
  <2>1. CASE pc = "write"
    <3>1. cur \in Parts /\ cur # p
      BY <1>2, <2>1, VersionAssumption DEF TypeOK, AnswerPage
    <3>2. page'[cur] = page[cur]
      BY <1>2, <3>1 DEF AnswerPage, TypeOK
    <3>3. QED
      BY <1>2, <2>1, <3>2 DEF AnswerPage
  <2>2. CASE pc # "write"
    BY <1>2, <2>2 DEF AnswerPage
  <2>3. QED
    BY <2>1, <2>2
<1>3. CASE Submit \/ Wait \/ CountVerified
  <2>1. pc = "loop" /\ pc' # "write" /\ cur' = cur
    BY <1>3 DEF Submit, Wait, CountVerified, LoopEnded
  <2>2. QED
    BY <2>1
<1>4. ASSUME NEW p \in Parts, SplitPage(p) \/ RejectPage(p) \/ WritePart(p)
      PROVE  CurrentPart'
  BY <1>4 DEF SplitPage, RejectPage, Raise, WritePart
<1>5. CASE RecordPart \/ CountMismatch \/ IOFailure \/ Crash
  BY <1>5 DEF RecordPart, CountMismatch, IOFailure, Crash, Raise
<1>6. CASE Publish
  BY <1>6 DEF Publish, BeginPublish, CopyParts, TearOld, RemoveStaleOld, MoveAside,
              InstallOver, RemoveOld, InstallNew
<1>7. ASSUME NEW p \in Parts, RemovePartFile(p) PROVE CurrentPart'
  BY <1>7 DEF RemovePartFile
<1>8. CASE RemoveCheckpoint \/ Return
  BY <1>8 DEF RemoveCheckpoint, Return
<1>9. CASE SourceChanges
  BY <1>9 DEF SourceChanges
<1>10. CASE UNCHANGED vars
  BY <1>10 DEF vars
<1>11. QED
  BY <1>1, <1>2, <1>3, <1>4, <1>5, <1>6, <1>7, <1>8, <1>9, <1>10
     DEF Next, Fetch, Schedule, Remove

(***************************************************************************)
(* No offset of the plan is dropped by the scheduler.                      *)
(***************************************************************************)
\* The chunks a run starts with and the items it starts from cover the plan.
LEMMA BeginLoopCovers ==
  ASSUME NEW n \in 0 .. MaxRows, NEW c \in ChunkSizes, NEW items \in Items,
         BeginLoop(n, c, items), NEW r \in 0 .. n - 1
  PROVE  \/ \E p \in Listed(items) : r \in Span(p)
         \/ \E i \in DOMAIN tasks' : r \in Span(tasks'[i])
<1> PICK p \in Chunks(n, c) : r \in Span(p)
  BY OffsetInChunk, PartAssumption
<1> DEFINE U == {q \in Chunks(n, c) : ~ Covered(items, q)}
<1>1. CASE Covered(items, p)
  BY <1>1 DEF Covered
<1>2. CASE ~ Covered(items, p)
  <2>1. U \in SUBSET Parts /\ tasks' \in OffsetOrder(U)
    BY DEF Chunks, BeginLoop
  <2>2. \A q \in U : \E i \in DOMAIN tasks' : tasks'[i] = q
    <3> HIDE DEF U
    <3>1. QED
      BY <2>1, QueueOfChunks
  <2>3. p \in U
    BY <1>2
  <2>4. QED
    BY <2>2, <2>3
<1>3. QED
  BY <1>1, <1>2

\* The same, as the invariant states it.
LEMMA BeginLoopHolds ==
  ASSUME NEW n \in 0 .. MaxRows, NEW c \in ChunkSizes, NEW items \in Items,
         BeginLoop(n, c, items)
  PROVE  NoOffsetDropped'
<1>1. completed' = items /\ planned' = n
  BY DEF BeginLoop
<1>2. ASSUME NEW r \in 0 .. n - 1 PROVE Holding(r)'
  BY <1>1, BeginLoopCovers DEF Holding, Listed
<1>3. QED
  BY <1>1, <1>2 DEF NoOffsetDropped

LEMMA CoverStep ==
  TypeOK /\ CurrentPart /\ NoOffsetDropped /\ [Next]_vars => NoOffsetDropped'
<1> SUFFICES ASSUME TypeOK, CurrentPart, NoOffsetDropped, [Next]_vars
             PROVE  NoOffsetDropped'
  OBVIOUS
<1>1. CASE StartResume
  <2>1. (IF ckpt = NoCheckpoint THEN NoItems ELSE Intact) \in Items
    BY IntactType DEF NoItems, Items
  <2>2. QED
    BY <1>1, <2>1, BeginLoopHolds, PlannedType DEF StartResume, TypeOK
<1>2. CASE StartFresh
  <2>1. NoItems \in Items
    BY DEF NoItems, Items
  <2>2. CASE ckpt = NoCheckpoint
    BY <1>2, <2>1, <2>2, BeginLoopHolds, PlannedType DEF StartFresh, TypeOK
  <2>3. CASE ckpt # NoCheckpoint
    BY <1>2, <2>3 DEF StartFresh, NoOffsetDropped
  <2>4. QED
    BY <2>2, <2>3
<1>3. CASE Discarded
  <2>1. NoItems \in Items
    BY DEF NoItems, Items
  <2>2. QED
    BY <1>3, <2>1, BeginLoopHolds DEF Discarded, TypeOK
<1>4. CASE Submit
  <2> SUFFICES ASSUME NEW r \in 0 .. planned - 1, Holding(r) PROVE Holding(r)'
    BY <1>4 DEF Submit, NoOffsetDropped
  <2>1. /\ Head(tasks) \in Parts
        /\ \A i \in DOMAIN tasks : tasks[i] = Head(tasks)
                                \/ \E j \in DOMAIN tasks' : tasks'[j] = tasks[i]
    BY <1>4, TakeFirst DEF Submit, TypeOK
  <2>2. Head(tasks) \in Pending' /\ Pending \subseteq Pending'
    BY <1>4, <2>1 DEF Submit, Pending, TypeOK, Idle, InFlight
  <2>3. completed' = completed
    BY <1>4 DEF Submit
  <2>4. QED
    BY <2>1, <2>2, <2>3 DEF Holding, Listed
<1>5. ASSUME NEW p \in Parts, AnswerPage(p) PROVE NoOffsetDropped'
  <2>1. Pending' = Pending
    BY <1>5, VersionAssumption
       DEF AnswerPage, Pending, TypeOK, Idle, InFlight, Payload, Failed
  <2>2. QED
    BY <1>5, <2>1 DEF AnswerPage, NoOffsetDropped, Holding, Listed
<1>6. CASE Wait
  BY <1>6 DEF Wait, NoOffsetDropped, Holding, Listed, Pending
<1>7. ASSUME NEW p \in Parts, SplitPage(p) PROVE NoOffsetDropped'
  <2> SUFFICES ASSUME NEW r \in 0 .. planned - 1, Holding(r) PROVE Holding(r)'
    BY <1>7 DEF SplitPage, NoOffsetDropped
  <2>1. /\ LeftHalf(p) \in Parts /\ RightHalf(p) \in Parts
        /\ Span(p) = Span(LeftHalf(p)) \cup Span(RightHalf(p))
    BY <1>7, Halves DEF SplitPage, Splittable
  <2>2. /\ \E j \in DOMAIN tasks' : tasks'[j] = LeftHalf(p)
        /\ \E j \in DOMAIN tasks' : tasks'[j] = RightHalf(p)
        /\ \A i \in DOMAIN tasks : \E j \in DOMAIN tasks' : tasks'[j] = tasks[i]
    <3>1. tasks' = <<LeftHalf(p), RightHalf(p)>> \o tasks /\ tasks \in Seq(Parts)
      BY <1>7 DEF SplitPage, TypeOK
    <3>2. /\ 1 \in DOMAIN tasks' /\ tasks'[1] = LeftHalf(p)
          /\ 2 \in DOMAIN tasks' /\ tasks'[2] = RightHalf(p)
      BY <2>1, <3>1, PutTwoBefore
    <3>3. \A i \in DOMAIN tasks : \E j \in DOMAIN tasks' : tasks'[j] = tasks[i]
      <4>1. \A i \in DOMAIN tasks :
              \E j \in DOMAIN (<<LeftHalf(p), RightHalf(p)>> \o tasks) :
                (<<LeftHalf(p), RightHalf(p)>> \o tasks)[j] = tasks[i]
        BY <2>1, <3>1, PutTwoBefore
      <4>2. QED
        BY <3>1, <4>1, Zenon
    <3>4. QED
      BY <3>2, <3>3
  <2>3. Pending' = Pending \ {p}
    BY <1>7 DEF SplitPage, Pending, TypeOK
  <2>4. completed' = completed
    BY <1>7 DEF SplitPage
  <2>5. QED
    BY <2>1, <2>2, <2>3, <2>4 DEF Holding, Listed
<1>8. ASSUME NEW p \in Parts, RejectPage(p) PROVE NoOffsetDropped'
  BY <1>8 DEF RejectPage, Raise, NoOffsetDropped
<1>9. ASSUME NEW p \in Parts, WritePart(p) PROVE NoOffsetDropped'
  BY <1>9 DEF WritePart, NoOffsetDropped, Holding, Listed, Pending
<1>10. CASE RecordPart
  <2> SUFFICES ASSUME NEW r \in 0 .. planned - 1, Holding(r) PROVE Holding(r)'
    BY <1>10 DEF RecordPart, NoOffsetDropped
  <2>1. cur \in Parts /\ page[cur] \in Versions
    BY <1>10 DEF RecordPart, CurrentPart, TypeOK
  <2>2. Listed(completed') = Listed(completed) \cup {cur}
    BY <1>10, <2>1, VersionAssumption DEF RecordPart, Listed, TypeOK, Items
  <2>3. Pending' = Pending \ {cur}
    BY <1>10, <2>1 DEF RecordPart, Pending, TypeOK
  <2>4. tasks' = tasks
    BY <1>10 DEF RecordPart
  <2>5. QED
    BY <2>2, <2>3, <2>4 DEF Holding
<1>11. CASE CountMismatch \/ IOFailure \/ Crash \/ Return
  BY <1>11 DEF CountMismatch, IOFailure, Crash, Raise, Return, NoOffsetDropped
<1>12. CASE CountVerified \/ Publish
  BY <1>12 DEF CountVerified, Publish, BeginPublish, CopyParts, TearOld, RemoveStaleOld,
               MoveAside, InstallOver, RemoveOld, InstallNew, NoOffsetDropped
<1>13. ASSUME NEW p \in Parts, RemovePartFile(p) PROVE NoOffsetDropped'
  BY <1>13 DEF RemovePartFile, NoOffsetDropped
<1>14. CASE RemoveCheckpoint
  BY <1>14 DEF RemoveCheckpoint, NoOffsetDropped
<1>15. CASE SourceChanges \/ UNCHANGED vars
  BY <1>15 DEF SourceChanges, vars, runVars, NoOffsetDropped, Holding, Listed, Pending
<1>16. QED
  BY <1>1, <1>2, <1>3, <1>4, <1>5, <1>6, <1>7, <1>8, <1>9, <1>10, <1>11, <1>12,
     <1>13, <1>14, <1>15 DEF Next, Fetch, Schedule, Remove

(***************************************************************************)
(* What a run has completed is in the checkpoint and on disk.              *)
(***************************************************************************)
LEMMA SavedCheckpoint ==
  ASSUME NEW n \in 0 .. MaxRows, NEW items \in Items, SaveCheckpoint(n, items)
  PROVE  /\ ckpt' # NoCheckpoint
         /\ ckpt'.planned = n
         /\ ckpt'.completed = items
BY AbsenceAssumption DEF SaveCheckpoint, Checkpoints

\* A run begins with items whose files are as the items say.
LEMMA BeginLoopResumable ==
  ASSUME TypeOK, CurrentPart, pc # "write",
         NEW n \in 0 .. MaxRows, NEW c \in ChunkSizes, NEW items \in Items,
         \A p \in Listed(items) : files[p] = items[p],
         BeginLoop(n, c, items), UNCHANGED <<files, cur>>
  PROVE  Resumable'
<1>1. completed' = items /\ planned' = n
  BY DEF BeginLoop
<1>2. /\ ckpt' # NoCheckpoint
      /\ ckpt'.planned = n
      /\ ckpt'.completed = items
  BY SavedCheckpoint DEF BeginLoop
<1>3. QED
  BY <1>1, <1>2 DEF Resumable, Listed

LEMMA ResumableStep ==
  TypeOK /\ CurrentPart /\ Resumable /\ [Next]_vars => Resumable'
<1> SUFFICES ASSUME TypeOK, CurrentPart, Resumable, [Next]_vars PROVE Resumable'
  OBVIOUS
<1>0. /\ NoItems \in Items
      /\ Listed(NoItems) = {}
  BY DEF NoItems, Items, Listed
<1>1. CASE StartResume
  <2>1. /\ (IF ckpt = NoCheckpoint THEN NoItems ELSE Intact) \in Items
        /\ \A p \in Listed(IF ckpt = NoCheckpoint THEN NoItems ELSE Intact) :
             files[p] = (IF ckpt = NoCheckpoint THEN NoItems ELSE Intact)[p]
    BY <1>0, IntactType
  <2>2. pc # "write" /\ UNCHANGED <<files, cur>>
    BY <1>1 DEF StartResume
  <2> DEFINE items == IF ckpt = NoCheckpoint THEN NoItems ELSE Intact
  <2>3. PICK c \in ChunkSizes : BeginLoop(Planned, c, items)
    BY <1>1 DEF StartResume
  <2>4. Planned \in 0 .. MaxRows
    BY PlannedType DEF TypeOK
  <2> HIDE DEF items
  <2>5. QED
    BY <2>1, <2>2, <2>3, <2>4, BeginLoopResumable DEF items
<1>2. CASE StartFresh
  <2>1. CASE ckpt = NoCheckpoint
    BY <1>0, <1>2, <2>1, BeginLoopResumable, PlannedType DEF StartFresh, TypeOK
  <2>2. CASE ckpt # NoCheckpoint
    BY <1>2, <2>2 DEF StartFresh, Resumable
  <2>3. QED
    BY <2>1, <2>2
<1>3. CASE Discarded
  BY <1>0, <1>3, BeginLoopResumable DEF Discarded, TypeOK
<1>4. CASE Submit \/ Wait \/ SourceChanges \/ UNCHANGED vars
  BY <1>4 DEF Submit, Wait, SourceChanges, vars, runVars, workVars, Resumable, Listed
<1>5. ASSUME NEW p \in Parts, AnswerPage(p) PROVE Resumable'
  BY <1>5 DEF AnswerPage, workVars, Resumable, Listed
<1>6. ASSUME NEW p \in Parts, SplitPage(p) PROVE Resumable'
  <2>1. /\ ckpt' # NoCheckpoint
        /\ ckpt'.planned = planned
        /\ ckpt'.completed = completed
    BY <1>6, SavedCheckpoint DEF SplitPage, TypeOK
  <2>2. QED
    BY <1>6, <2>1 DEF SplitPage, Resumable, Listed
<1>7. ASSUME NEW p \in Parts, WritePart(p) PROVE Resumable'
  <2>1. /\ UNCHANGED <<planned, completed, ckpt>>
        /\ cur = NoPart /\ cur' = p /\ pc = "loop"
        /\ \A q \in Parts : q # p => files'[q] = files[q]
    BY <1>7 DEF WritePart, CurrentPart, TypeOK
  <2>2. QED
    BY <2>1, AbsenceAssumption DEF Resumable, Listed
<1>8. CASE RecordPart
  <2>1. /\ cur \in Parts /\ page[cur] \in Versions /\ pc = "write"
        /\ completed' \in Items
    BY <1>8 DEF RecordPart, CurrentPart, TypeOK, Items
  <2>2. /\ ckpt' # NoCheckpoint
        /\ ckpt'.planned = planned
        /\ ckpt'.completed = completed'
    BY <1>8, <2>1, SavedCheckpoint DEF RecordPart, TypeOK
  <2>3. \A p \in Listed(completed') : files'[p] = completed'[p]
    BY <1>8, <2>1 DEF RecordPart, Resumable, Listed, TypeOK, Items
  <2>4. QED
    BY <1>8, <2>2, <2>3 DEF RecordPart, Resumable
<1>9. CASE CountVerified
  <2>1. /\ ckpt' # NoCheckpoint
        /\ ckpt'.planned = planned
        /\ ckpt'.completed = completed
    BY <1>9, SavedCheckpoint DEF CountVerified, TypeOK
  <2>2. QED
    BY <1>9, <2>1 DEF CountVerified, LoopEnded, runVars, Resumable, Listed
<1>10. CASE Publish
  BY <1>10 DEF Publish, BeginPublish, CopyParts, TearOld, RemoveStaleOld, MoveAside,
               InstallOver, RemoveOld, InstallNew, runVars, workVars, Resumable, Listed
<1>11. ASSUME NEW p \in Parts, RejectPage(p) PROVE Resumable'
  BY <1>11 DEF RejectPage, Raise, Resumable
<1>12. CASE CountMismatch \/ IOFailure \/ Crash \/ Return
  BY <1>12 DEF CountMismatch, IOFailure, Crash, Raise, Return, Resumable
<1>13. ASSUME NEW p \in Parts, RemovePartFile(p) PROVE Resumable'
  BY <1>13 DEF RemovePartFile, Resumable
<1>14. CASE RemoveCheckpoint
  BY <1>14 DEF RemoveCheckpoint, Resumable
<1>15. QED
  BY <1>1, <1>2, <1>3, <1>4, <1>5, <1>6, <1>7, <1>8, <1>9, <1>10, <1>11, <1>12,
     <1>13, <1>14 DEF Next, Fetch, Schedule, Remove

(***************************************************************************)
(* All items have the same columns.                                        *)
(***************************************************************************)
\* The columns of a result are never the scheduler's "not known yet".
LEMMA ColumnsKnown ==
  ASSUME NEW v \in Versions, NEW p \in Parts
  PROVE  PageColumns(v, p) # Unset
BY VersionAssumption DEF PageColumns, NoColumns, Unset

LEMMA BeginLoopColumns ==
  ASSUME NEW n \in 0 .. MaxRows, NEW c \in ChunkSizes, NEW items \in Items,
         \A p, q \in Listed(items) : PageColumns(items[p], p) = PageColumns(items[q], q),
         BeginLoop(n, c, items)
  PROVE  ColumnsAgree'
<1>1. completed' = items
  BY DEF BeginLoop
<1>2. ckpt'.completed = items
  BY SavedCheckpoint DEF BeginLoop
<1>3. \A p \in Listed(items) : PageColumns(items[p], p) = expected'
  BY DEF BeginLoop
<1>4. QED
  BY <1>1, <1>2, <1>3 DEF ColumnsAgree, Listed

\* An exception leaves a checkpoint with the items the run had.
LEMMA RaiseColumns ==
  ASSUME TypeOK, ColumnsAgree, pc \notin {"idle", "discard"}, Raise
  PROVE  ColumnsAgree'
<1>1. ckpt'.completed = completed /\ pc' = "idle"
  BY SavedCheckpoint DEF Raise, TypeOK
<1>2. QED
  BY <1>1 DEF ColumnsAgree

LEMMA ColumnsStep ==
  TypeOK /\ CurrentPart /\ ColumnsAgree /\ [Next]_vars => ColumnsAgree'
<1> SUFFICES ASSUME TypeOK, CurrentPart, ColumnsAgree, [Next]_vars PROVE ColumnsAgree'
  OBVIOUS
<1>0. /\ NoItems \in Items
      /\ Listed(NoItems) = {}
  BY DEF NoItems, Items, Listed
<1>1. CASE StartResume
  <2> DEFINE items == IF ckpt = NoCheckpoint THEN NoItems ELSE Intact
  <2>1. items \in Items
    BY <1>0, IntactType
  <2>2. \A p, q \in Listed(items) : PageColumns(items[p], p) = PageColumns(items[q], q)
    BY <1>0, IntactType DEF ColumnsAgree
  <2>3. PICK c \in ChunkSizes : BeginLoop(Planned, c, items)
    BY <1>1 DEF StartResume
  <2>4. Planned \in 0 .. MaxRows
    BY PlannedType DEF TypeOK
  <2> HIDE DEF items
  <2>5. QED
    BY <2>1, <2>2, <2>3, <2>4, BeginLoopColumns
<1>2. CASE StartFresh
  <2>1. CASE ckpt = NoCheckpoint
    BY <1>0, <1>2, <2>1, BeginLoopColumns, PlannedType DEF StartFresh, TypeOK
  <2>2. CASE ckpt # NoCheckpoint
    BY <1>2, <2>2 DEF StartFresh, workVars, ColumnsAgree
  <2>3. QED
    BY <2>1, <2>2
<1>3. CASE Discarded
  BY <1>0, <1>3, BeginLoopColumns DEF Discarded, TypeOK
<1>4. CASE Submit \/ Wait \/ SourceChanges \/ UNCHANGED vars
  BY <1>4 DEF Submit, Wait, SourceChanges, vars, runVars, workVars, ColumnsAgree, Listed
<1>5. ASSUME NEW p \in Parts, AnswerPage(p) PROVE ColumnsAgree'
  BY <1>5 DEF AnswerPage, workVars, ColumnsAgree, Listed
<1>6. ASSUME NEW p \in Parts, SplitPage(p) PROVE ColumnsAgree'
  <2>1. ckpt'.completed = completed /\ UNCHANGED <<completed, expected>>
    BY <1>6, SavedCheckpoint DEF SplitPage, TypeOK
  <2>2. QED
    BY <1>6, <2>1 DEF SplitPage, ColumnsAgree
<1>7. ASSUME NEW p \in Parts, WritePart(p) PROVE ColumnsAgree'
  <2>1. /\ pc = "loop" /\ page[p] \in Versions
        /\ expected' = PageColumns(page[p], p)
        /\ expected = Unset \/ expected' = expected
        /\ UNCHANGED <<completed, ckpt>>
    BY <1>7 DEF WritePart, SchemaChanged
  <2>2. expected = Unset => Listed(completed) = {}
    BY <2>1, ColumnsKnown DEF ColumnsAgree, Listed, TypeOK, Items
  <2>3. QED
    BY <2>1, <2>2 DEF ColumnsAgree
<1>8. CASE RecordPart
  <2>1. /\ cur \in Parts /\ page[cur] \in Versions /\ pc = "write"
        /\ PageColumns(page[cur], cur) = expected
    BY <1>8 DEF RecordPart, CurrentPart, TypeOK
  <2>2. completed' \in Items /\ completed' = [completed EXCEPT ![cur] = page[cur]]
    BY <1>8, <2>1 DEF RecordPart, TypeOK, Items
  <2>3. ckpt'.completed = completed' /\ expected' = expected
    BY <1>8, <2>2, SavedCheckpoint DEF RecordPart, TypeOK
  <2>4. \A p \in Listed(completed') : PageColumns(completed'[p], p) = expected
    BY <2>1, <2>2 DEF ColumnsAgree, Listed, TypeOK, Items
  <2>5. QED
    BY <2>3, <2>4 DEF ColumnsAgree
<1>9. CASE CountVerified
  <2>1. /\ ckpt'.completed = completed /\ pc = "loop"
        /\ UNCHANGED <<completed, expected>>
    BY <1>9, SavedCheckpoint DEF CountVerified, LoopEnded, runVars, TypeOK
  <2>2. QED
    BY <2>1 DEF ColumnsAgree
<1>10. CASE Publish
  BY <1>10 DEF Publish, BeginPublish, CopyParts, TearOld, RemoveStaleOld, MoveAside,
               InstallOver, RemoveOld, InstallNew, runVars, workVars, ColumnsAgree, Listed
<1>11. ASSUME NEW p \in Parts, RejectPage(p) PROVE ColumnsAgree'
  BY <1>11, RaiseColumns DEF RejectPage
<1>12. CASE CountMismatch \/ IOFailure
  BY <1>12, RaiseColumns DEF CountMismatch, LoopEnded, IOFailure
<1>13. CASE Crash \/ Return
  BY <1>13 DEF Crash, Return, workVars, ColumnsAgree
<1>14. ASSUME NEW p \in Parts, RemovePartFile(p) PROVE ColumnsAgree'
  BY <1>14 DEF RemovePartFile, runVars, ColumnsAgree, Listed
<1>15. CASE RemoveCheckpoint
  BY <1>15 DEF RemoveCheckpoint, runVars, ColumnsAgree, Listed
<1>16. QED
  BY <1>1, <1>2, <1>3, <1>4, <1>5, <1>6, <1>7, <1>8, <1>9, <1>10, <1>11, <1>12,
     <1>13, <1>14, <1>15 DEF Next, Fetch, Schedule, Remove

(***************************************************************************)
(* What the loop hands over to publication, and what is published.         *)
(***************************************************************************)
LEMMA AcceptedStep ==
  TypeOK /\ NoOffsetDropped /\ Accepted /\ [Next]_vars => Accepted'
<1> SUFFICES ASSUME TypeOK, NoOffsetDropped, Accepted, [Next]_vars PROVE Accepted'
  OBVIOUS
<1>1. CASE CountVerified
  <2>1. /\ \A r \in 0 .. planned - 1 : \E p \in Listed(completed) : r \in Span(p)
        /\ RowTotal(completed) = planned
    BY <1>1 DEF CountVerified, LoopEnded, NoOffsetDropped, Holding
  <2>2. UNCHANGED <<planned, completed>>
    BY <1>1 DEF CountVerified, runVars
  <2>3. Listed(completed)' = Listed(completed) /\ RowTotal(completed)' = RowTotal(completed)
    BY <2>2 DEF Listed
  <2>4. QED
    BY <2>1, <2>2, <2>3 DEF Accepted
<1>2. CASE pc' \in {"publish", "copy"} /\ pc \in {"publish", "copy"}
           /\ UNCHANGED <<planned, completed>>
  <2>1. Listed(completed)' = Listed(completed) /\ RowTotal(completed)' = RowTotal(completed)
    BY <1>2 DEF Listed
  <2>2. QED
    BY <1>2, <2>1 DEF Accepted
<1>3. CASE pc' \notin {"publish", "copy"}
  BY <1>3 DEF Accepted
<1>4. CASE StartResume \/ StartFresh \/ Discarded
  BY <1>3, <1>4 DEF StartResume, StartFresh, Discarded, BeginLoop
<1>5. CASE Submit \/ Wait \/ RecordPart \/ CountMismatch
  BY <1>3, <1>5 DEF Submit, Wait, RecordPart, CountMismatch, Raise
<1>6. ASSUME NEW p \in Parts, SplitPage(p) \/ RejectPage(p) \/ WritePart(p) PROVE Accepted'
  BY <1>3, <1>6 DEF SplitPage, RejectPage, WritePart, Raise
<1>7. CASE CopyParts \/ TearOld \/ RemoveStaleOld \/ MoveAside \/ InstallOver
           \/ RemoveOld \/ InstallNew
  BY <1>3, <1>7 DEF CopyParts, TearOld, RemoveStaleOld, MoveAside, InstallOver,
                    RemoveOld, InstallNew
<1>8. CASE BeginPublish
  BY <1>2, <1>8 DEF BeginPublish, runVars
<1>9. CASE IOFailure \/ Crash \/ Return \/ RemoveCheckpoint
  BY <1>3, <1>9 DEF IOFailure, Crash, Return, RemoveCheckpoint, Raise
<1>10. ASSUME NEW p \in Parts, RemovePartFile(p) PROVE Accepted'
  BY <1>3, <1>10 DEF RemovePartFile
<1>11. ASSUME NEW p \in Parts, AnswerPage(p) PROVE Accepted'
  BY <1>2, <1>3, <1>11 DEF AnswerPage
<1>12. CASE SourceChanges \/ UNCHANGED vars
  BY <1>2, <1>3, <1>12 DEF SourceChanges, vars, runVars
<1>13. QED
  BY <1>1, <1>4, <1>5, <1>6, <1>7, <1>8, <1>9, <1>10, <1>11, <1>12
     DEF Next, Fetch, Schedule, Publish, Remove

\* The publish directory holds exactly the completed items.
LEMMA CopiedComplete ==
  ASSUME TypeOK, CurrentPart, Resumable, ColumnsAgree, Accepted, CopyParts
  PROVE  publish' \in Complete
<1>1. pc = "copy" /\ cur = NoPart /\ planned \in 0 .. MaxRows /\ completed \in Items
  BY DEF CopyParts, CurrentPart, TypeOK
<1>2. \A p \in Listed(completed) : files[p] = completed[p]
  BY <1>1, AbsenceAssumption DEF Resumable, Listed
<1>3. publish' = [planned |-> planned, parts |-> completed]
  <2>1. [p \in Parts |-> IF p \in Listed(completed) THEN files[p] ELSE Absent]
          = [p \in Parts |-> completed[p]]
    BY <1>2 DEF Listed
  <2>2. [p \in Parts |-> completed[p]] = completed
    BY <1>1 DEF Items
  <2>3. QED
    BY <2>1, <2>2 DEF CopyParts
<1>4. publish' \in Datasets
  BY <1>1, <1>3 DEF Datasets, Items
<1>5. WholeFiles(publish')
  BY <1>1, <1>3, VersionAssumption DEF WholeFiles, Items, Torn, Absent
<1>6. EveryOffset(publish')
  BY <1>1, <1>3 DEF EveryOffset, Written, Accepted, Listed
<1>7. OneHeader(publish')
  BY <1>1, <1>3 DEF OneHeader, Written, ColumnsAgree, Listed
<1>8. RowsAddUp(publish')
  BY <1>1, <1>3 DEF RowsAddUp, Accepted
<1>9. QED
  BY <1>4, <1>5, <1>6, <1>7, <1>8 DEF Complete, IsComplete

LEMMA CompletePresent ==
  /\ Missing \notin Complete
  /\ Partial \notin Complete
BY AbsenceAssumption DEF Complete

LEMMA DirectoriesStep ==
  TypeOK /\ CurrentPart /\ Resumable /\ ColumnsAgree /\ Accepted /\ DirectoriesSound
    /\ [Next]_vars => DirectoriesSound'
<1> SUFFICES ASSUME TypeOK, CurrentPart, Resumable, ColumnsAgree, Accepted,
                    DirectoriesSound, [Next]_vars
             PROVE  DirectoriesSound'
  OBVIOUS
<1> USE DEF dirVars
<1>0. ASSUME UNCHANGED dirVars,
             pc' = pc \/ pc' \notin {"swap", "aside", "install", "cleanup"}
      PROVE  DirectoriesSound'
  BY <1>0 DEF DirectoriesSound, Complete, Datasets, IsComplete, WholeFiles,
              EveryOffset, OneHeader, RowsAddUp
<1>1. CASE StartResume \/ StartFresh \/ Discarded
  BY <1>0, <1>1 DEF StartResume, StartFresh, Discarded, BeginLoop
<1>2. CASE Submit \/ Wait \/ RecordPart \/ CountMismatch \/ CountVerified
  BY <1>0, <1>2 DEF Submit, Wait, RecordPart, CountMismatch, CountVerified, Raise
<1>3. ASSUME NEW p \in Parts, SplitPage(p) \/ RejectPage(p) \/ WritePart(p)
      PROVE  DirectoriesSound'
  BY <1>0, <1>3 DEF SplitPage, RejectPage, WritePart, Raise
<1>4. ASSUME NEW p \in Parts, AnswerPage(p) PROVE DirectoriesSound'
  BY <1>0, <1>4 DEF AnswerPage
<1>5. CASE BeginPublish
  BY <1>5 DEF BeginPublish, DirectoriesSound
<1>6. CASE CopyParts
  BY <1>6, CopiedComplete DEF CopyParts, DirectoriesSound
<1>7. CASE TearOld \/ RemoveStaleOld \/ RemoveOld
  BY <1>7, CompletePresent DEF TearOld, RemoveStaleOld, RemoveOld, DirectoriesSound
<1>8. CASE MoveAside
  BY <1>8 DEF MoveAside, DirectoriesSound
<1>9. CASE InstallOver \/ InstallNew
  BY <1>9, CompletePresent DEF InstallOver, InstallNew, DirectoriesSound
<1>10. ASSUME NEW p \in Parts, RemovePartFile(p) PROVE DirectoriesSound'
  BY <1>0, <1>10 DEF RemovePartFile
<1>11. CASE RemoveCheckpoint \/ Return
  BY <1>0, <1>11 DEF RemoveCheckpoint, Return
<1>12. CASE IOFailure \/ Crash
  BY <1>0, <1>12 DEF IOFailure, Crash, Raise
<1>13. CASE SourceChanges \/ UNCHANGED vars
  BY <1>0, <1>13 DEF SourceChanges, vars
<1>14. QED
  BY <1>1, <1>2, <1>3, <1>4, <1>5, <1>6, <1>7, <1>8, <1>9, <1>10, <1>11, <1>12, <1>13
     DEF Next, Fetch, Schedule, Publish, Remove

(***************************************************************************)
(* The invariant, and what follows from it.                                *)
(***************************************************************************)
LEMMA IndInit == Init => IndInv
<1> SUFFICES ASSUME Init PROVE IndInv
  OBVIOUS
<1>1. Listed(NoItems) = {}
  BY DEF Listed, NoItems
<1>2. QED
  BY <1>1, TypeInit
     DEF Init, IndInv, CurrentPart, NoOffsetDropped, Resumable, ColumnsAgree,
         Accepted, DirectoriesSound

LEMMA IndStep == IndInv /\ [Next]_vars => IndInv'
BY TypeStep, CurrentStep, CoverStep, ResumableStep, ColumnsStep, AcceptedStep,
   DirectoriesStep DEF IndInv

\* The inductive invariant of the extraction holds in every reachable state.
THEOREM Invariance == Spec => []IndInv
BY IndInit, IndStep, PTL DEF Spec

\* The state of the extraction always has its type.
THEOREM TypeCorrect == Spec => []TypeOK
<1>1. IndInv => TypeOK
  BY DEF IndInv
<1>2. QED
  BY <1>1, Invariance, PTL

\* No offset of the plan is ever dropped by the scheduler loop.
THEOREM OffsetsKept == Spec => []NoOffsetDropped
<1>1. IndInv => NoOffsetDropped
  BY DEF IndInv
<1>2. QED
  BY <1>1, Invariance, PTL

\* Whatever stops a run, what it has completed can be resumed.
THEOREM CompletedWorkKept == Spec => []Resumable
<1>1. IndInv => Resumable
  BY DEF IndInv
<1>2. QED
  BY <1>1, Invariance, PTL

\* What stands at the destination is complete, for any number of rows, chunk
\* sizes, faults and changes of the source.
THEOREM OutputComplete == Spec => []PublishedComplete
<1>1. IndInv => PublishedComplete
  BY DEF IndInv, DirectoriesSound, PublishedComplete, Complete
<1>2. QED
  BY <1>1, Invariance, PTL

\* A published dataset is never lost from the disk.
THEOREM Survival == Spec => DatasetSurvives
<1>1. IndInv /\ [Next]_vars => [OnDisk => OnDisk']_vars
  <2> SUFFICES ASSUME IndInv, [Next]_vars, OnDisk PROVE OnDisk'
    OBVIOUS
  <2> USE DEF IndInv, OnDisk, dirVars
  <2>1. CASE UNCHANGED dirVars
    BY <2>1
  <2>2. CASE BeginPublish \/ CopyParts
    BY <2>2 DEF BeginPublish, CopyParts
  <2>3. CASE TearOld \/ RemoveStaleOld \/ RemoveOld
    BY <2>3 DEF TearOld, RemoveStaleOld, RemoveOld, DirectoriesSound
  <2>4. CASE MoveAside
    BY <2>4, CompletePresent DEF MoveAside, DirectoriesSound
  <2>5. CASE InstallOver \/ InstallNew
    BY <2>5, CompletePresent DEF InstallOver, InstallNew, DirectoriesSound
  <2>6. CASE StartResume \/ StartFresh \/ Fetch \/ Schedule \/ Remove \/ IOFailure
             \/ Crash \/ SourceChanges \/ UNCHANGED vars
    BY <2>1, <2>6 DEF StartResume, StartFresh, Fetch, AnswerPage, Schedule, Submit, Wait,
       SplitPage, RejectPage, WritePart, RecordPart, CountMismatch, CountVerified, Raise,
       Remove, RemovePartFile, RemoveCheckpoint, Discarded, Return, IOFailure, Crash,
       SourceChanges, vars
  <2>7. QED
    BY <2>2, <2>3, <2>4, <2>5, <2>6 DEF Next, Publish
<1>2. QED
  BY <1>1, Invariance, PTL DEF Spec, DatasetSurvives

\* The destination, the dataset made for it and the one set aside behave as
\* PartDataset specifies.
THEOREM Refinement == Spec => ImplementsPartDataset
<1>1. Init => Dataset!Init
  BY DEF Init, Dataset!Init
<1>2. IndInv /\ [Next]_vars => [Dataset!Next]_(Dataset!vars)
  <2> SUFFICES ASSUME IndInv, [Next]_vars PROVE [Dataset!Next]_(Dataset!vars)
    OBVIOUS
  <2> USE DEF IndInv, DirectoriesSound, dirVars
  <2>1. CASE UNCHANGED dirVars
    BY <2>1 DEF Dataset!vars
  <2>2. CASE BeginPublish \/ CopyParts
    <3>1. pc' = "swap" => publish' \in Complete
      BY IndStep
    <3>2. publish' = Partial \/ publish' \in Complete
      BY <2>2, <3>1 DEF BeginPublish, CopyParts
    <3>3. QED
      BY <2>2, <3>2 DEF BeginPublish, CopyParts, Dataset!Next, Dataset!Prepare
  <2>3. CASE TearOld \/ RemoveStaleOld \/ RemoveOld
    BY <2>3 DEF TearOld, RemoveStaleOld, RemoveOld, Dataset!Next, Dataset!GiveUp
  <2>4. CASE MoveAside
    BY <2>4 DEF MoveAside, Dataset!Next, Dataset!SetAside
  <2>5. CASE InstallOver \/ InstallNew
    BY <2>5 DEF InstallOver, InstallNew, Dataset!Next, Dataset!Install
  <2>6. CASE StartResume \/ StartFresh \/ Fetch \/ Schedule \/ Remove \/ IOFailure
             \/ Crash \/ SourceChanges \/ UNCHANGED vars
    BY <2>1, <2>6 DEF StartResume, StartFresh, Fetch, AnswerPage, Schedule, Submit, Wait,
       SplitPage, RejectPage, WritePart, RecordPart, CountMismatch, CountVerified, Raise,
       Remove, RemovePartFile, RemoveCheckpoint, Discarded, Return, IOFailure, Crash,
       SourceChanges, vars
  <2>7. QED
    BY <2>2, <2>3, <2>4, <2>5, <2>6 DEF Next, Publish
<1>3. QED
  BY <1>1, <1>2, Invariance, PTL DEF Spec, ImplementsPartDataset, Dataset!Spec

(***************************************************************************)
(* Every row exactly once.  The row total of a set of parts is a recursive *)
(* function; induction takes the form of a smallest counterexample.        *)
(***************************************************************************)
LEMMA LeastElement ==
  ASSUME NEW S \in SUBSET Nat, S # {}
  PROVE  \E m \in S : \A n \in S : m <= n
<1> DEFINE R == {ss \in Nat \X Nat : ss[1] < ss[2]}
<1>1. IsWellFoundedOn(R, Nat)
  BY NatLessThanWellFounded DEF OpToRel
<1>2. PICK m \in S : \A n \in S : ~ (<<n, m>> \in R)
  <2> HIDE DEF R
  <2>1. QED BY <1>1, WFMin
<1>3. ASSUME NEW n \in S PROVE m <= n
  <2>1. <<n, m>> \in Nat \X Nat /\ ~ (<<n, m>> \in R)
    BY <1>2
  <2>2. ~ (n < m)
    BY <2>1
  <2>3. QED BY <2>2
<1>4. QED BY <1>3

First(s) == CHOOSE x \in s : TRUE

\* What the fold of RowTotal makes of a set of parts from its subsets' sums.
AddFirst(items, sum, s) ==
  IF s = {} THEN 0 ELSE PageRows(items[First(s)], First(s)) + sum[s \ {First(s)}]

\* A function that sums up all subsets of a finite set exists: were it missing
\* for the subsets of some size, it would be for those of the least such size.
LEMMA SumExists ==
  ASSUME NEW items, NEW L, IsFiniteSet(L)
  PROVE  \E sum : sum = [s \in SUBSET L |-> AddFirst(items, sum, s)]
<1> DEFINE SumsUpTo(g, n) ==
             \A s \in SUBSET L : Cardinality(s) <= n => g[s] = AddFirst(items, g, s)
           Unsummed == {n \in Nat : ~ \E g : SumsUpTo([s \in SUBSET L |-> g[s]], n)}
<1>1. \A s \in SUBSET L : IsFiniteSet(s) /\ Cardinality(s) \in Nat
                          /\ Cardinality(s) <= Cardinality(L)
  BY FS_Subset, FS_CardinalityType
<1>2. ASSUME Unsummed # {} PROVE FALSE
  <2>1. PICK n \in Unsummed : \A m \in Unsummed : n <= m
    <3>1. Unsummed \in SUBSET Nat
      OBVIOUS
    <3> HIDE DEF Unsummed
    <3>2. QED BY <1>2, <3>1, LeastElement
  <2>2. n \in Nat /\ \A g : ~ SumsUpTo([s \in SUBSET L |-> g[s]], n)
    OBVIOUS
  <2>3. ASSUME NEW g,
               \A s \in SUBSET L : Cardinality(s) < n => g[s] = AddFirst(items, g, s)
        PROVE  FALSE
    <3> DEFINE h == [s \in SUBSET L |-> AddFirst(items, g, s)]
    <3>1. ASSUME NEW s \in SUBSET L, Cardinality(s) <= n
          PROVE  h[s] = AddFirst(items, h, s)
      <4>1. h[s] = AddFirst(items, g, s)
        OBVIOUS
      <4>2. CASE s = {}
        BY <4>1, <4>2 DEF AddFirst
      <4>3. CASE s # {}
        <5> DEFINE t == s \ {First(s)}
        <5>1. First(s) \in s /\ t \in SUBSET L
          BY <4>3 DEF First
        <5>2. Cardinality(t) = Cardinality(s) - 1
          BY <1>1, <5>1, FS_RemoveElement
        <5>3. Cardinality(t) < n
          BY <1>1, <2>2, <3>1, <5>1, <5>2
        <5> HIDE DEF t
        <5>4. g[t] = AddFirst(items, g, t)
          BY <2>3, <5>1, <5>3
        <5>5. h[t] = AddFirst(items, g, t)
          BY <5>1
        <5>6. AddFirst(items, g, s) = AddFirst(items, h, s)
          BY <4>3, <5>4, <5>5 DEF AddFirst, t
        <5>7. QED BY <4>1, <5>6
      <4>4. QED BY <4>2, <4>3
    <3>2. h = [s \in SUBSET L |-> h[s]]
      OBVIOUS
    <3>3. SumsUpTo(h, n)
      BY <3>1
    <3> HIDE DEF h, SumsUpTo
    <3>4. QED BY <2>2, <3>2, <3>3
  <2>4. CASE n = 0
    <3>1. \A s \in SUBSET L : ~ (Cardinality(s) < n)
      BY <1>1, <2>4
    <3>2. QED BY <2>3, <3>1
  <2>5. CASE n # 0
    <3>1. n - 1 \in Nat /\ ~ (n <= n - 1)
      BY <2>2, <2>5
    <3>2. n - 1 \notin Unsummed
      <4> HIDE DEF Unsummed
      <4>1. QED BY <2>1, <3>1
    <3>3. PICK g0 : SumsUpTo([s \in SUBSET L |-> g0[s]], n - 1)
      BY <3>1, <3>2
    <3> DEFINE g == [s \in SUBSET L |-> g0[s]]
    <3>4. \A s \in SUBSET L : Cardinality(s) <= n - 1 => g[s] = AddFirst(items, g, s)
      BY <3>3
    <3> HIDE DEF g
    <3>5. ASSUME NEW s \in SUBSET L, Cardinality(s) < n
          PROVE  g[s] = AddFirst(items, g, s)
      <4>1. Cardinality(s) \in Nat /\ n \in Nat
        BY <1>1, <2>2
      <4>2. Cardinality(s) <= n - 1
        BY <3>5, <4>1
      <4>3. QED BY <3>4, <4>2
    <3>6. QED BY <2>3, <3>5
  <2>6. QED BY <2>4, <2>5
<1>3. PICK g0 : SumsUpTo([s \in SUBSET L |-> g0[s]], Cardinality(L))
  <2>1. Cardinality(L) \in Nat
    BY FS_CardinalityType
  <2>2. QED BY <1>2, <2>1
<1> DEFINE g == [s \in SUBSET L |-> g0[s]]
<1>4. \A s \in SUBSET L : g[s] = AddFirst(items, g, s)
  BY <1>1, <1>3
<1>5. g = [s \in SUBSET L |-> AddFirst(items, g, s)]
  <2>1. g = [s \in SUBSET L |-> g[s]]
    OBVIOUS
  <2> HIDE DEF g
  <2>2. QED BY <1>4, <2>1
<1>6. QED BY <1>5

\* RowTotal is such a sum.
LEMMA RowTotalIsSum ==
  ASSUME NEW items
  PROVE  \E sum : /\ sum = [s \in SUBSET Listed(items) |-> AddFirst(items, sum, s)]
                  /\ RowTotal(items) = sum[Listed(items)]
<1> DEFINE L == Listed(items)
           iter == CHOOSE h : h = [s \in SUBSET L |->
                     IF s = {} THEN 0
                     ELSE PageRows(items[CHOOSE x \in s : TRUE], CHOOSE x \in s : TRUE)
                            + h[s \ {CHOOSE x \in s : TRUE}]]
<1>1. RowTotal(items) = iter[L]
  BY DEF RowTotal, MapThenSumSet, MapThenFoldSet
<1>2. IsFiniteSet(L)
  BY PartsFinite, FS_Subset DEF Listed
<1> HIDE DEF L
<1>3. PICK sum : sum = [s \in SUBSET L |-> AddFirst(items, sum, s)]
  BY <1>2, SumExists
<1>4. sum = [s \in SUBSET L |->
               IF s = {} THEN 0
               ELSE PageRows(items[CHOOSE x \in s : TRUE], CHOOSE x \in s : TRUE)
                      + sum[s \ {CHOOSE x \in s : TRUE}]]
  BY <1>3 DEF AddFirst, First
<1>5. iter = [s \in SUBSET L |->
                IF s = {} THEN 0
                ELSE PageRows(items[CHOOSE x \in s : TRUE], CHOOSE x \in s : TRUE)
                       + iter[s \ {CHOOSE x \in s : TRUE}]]
  BY <1>4
<1>6. iter = [s \in SUBSET L |-> AddFirst(items, iter, s)]
  BY <1>5 DEF AddFirst, First
<1>7. QED BY <1>1, <1>6 DEF L

\* Parts that have all the rows they stand for have at least as many as they
\* cover, and more if two of them overlap.
RowsOf(s) == UNION {Span(p) : p \in s}

Apart(s) == \A p, q \in s : p # q => Span(p) \cap Span(q) = {}

LEMMA SpanSize ==
  ASSUME NEW p \in Parts
  PROVE  /\ Span(p) \subseteq 0 .. MaxRows
         /\ IsFiniteSet(Span(p))
         /\ Cardinality(Span(p)) = p[2]
         /\ p[1] \in Nat /\ p[2] \in Nat
<1>1. /\ p[1] \in Nat /\ p[2] \in Nat \ {0} /\ p[1] + p[2] <= MaxRows
      /\ MaxRows \in Nat
  BY PartAssumption DEF Parts
<1>2. IsFiniteSet(p[1] .. (p[1] + p[2] - 1))
      /\ Cardinality(p[1] .. (p[1] + p[2] - 1)) = p[2]
  <2>1. ASSUME NEW a \in Int, NEW b \in Int, a <= b
        PROVE  IsFiniteSet(a .. b) /\ Cardinality(a .. b) = b - a + 1
    <3>1. ~ (a > b)
      BY <2>1
    <3>2. QED BY <3>1, FS_Interval
  <2> DEFINE first == p[1]
             last  == p[1] + p[2] - 1
  <2>2. first \in Int /\ last \in Int /\ first <= last /\ last - first + 1 = p[2]
    BY <1>1
  <2>3. IsFiniteSet(first .. last) /\ Cardinality(first .. last) = last - first + 1
    <3> HIDE DEF first, last
    <3>1. QED BY <2>1, <2>2
  <2>4. QED BY <2>2, <2>3
<1>3. QED BY <1>1, <1>2 DEF Span

LEMMA RowsOfFinite ==
  ASSUME NEW s \in SUBSET Parts
  PROVE  IsFiniteSet(RowsOf(s)) /\ Cardinality(RowsOf(s)) \in Nat
<1>1. RowsOf(s) \subseteq 0 .. MaxRows
  BY SpanSize DEF RowsOf
<1>2. IsFiniteSet(0 .. MaxRows)
  BY FS_Interval, PartAssumption
<1>3. QED BY <1>1, <1>2, FS_Subset, FS_CardinalityType

LEMMA OverlapsCount ==
  ASSUME NEW items, NEW sum,
         sum = [s \in SUBSET Listed(items) |-> AddFirst(items, sum, s)],
         \A p \in Listed(items) : PageRows(items[p], p) = p[2]
  PROVE  /\ sum[Listed(items)] \in Nat
         /\ Cardinality(RowsOf(Listed(items))) <= sum[Listed(items)]
         /\ Cardinality(RowsOf(Listed(items))) = sum[Listed(items)] =>
              Apart(Listed(items))
<1> DEFINE L == Listed(items)
           Counts(s) == /\ sum[s] \in Nat
                        /\ Cardinality(RowsOf(s)) <= sum[s]
                        /\ Cardinality(RowsOf(s)) = sum[s] => Apart(s)
           Wrong == {n \in Nat : \E s \in SUBSET L : Cardinality(s) = n /\ ~ Counts(s)}
<1>1. L \subseteq Parts /\ IsFiniteSet(L)
  BY PartsFinite, FS_Subset DEF Listed
<1> HIDE DEF L
<1>2. \A s \in SUBSET L : IsFiniteSet(s) /\ Cardinality(s) \in Nat
  BY <1>1, FS_Subset, FS_CardinalityType
<1>3. Counts({})
  <2>1. sum[{}] = 0
    BY DEF AddFirst
  <2>2. RowsOf({}) = {}
    BY DEF RowsOf
  <2>3. QED BY <2>1, <2>2, FS_EmptySet DEF Apart
<1>4. ASSUME NEW s \in SUBSET L, NEW x \in s, x = First(s), Counts(s \ {x})
      PROVE  Counts(s)
  <2> DEFINE t == s \ {x}
  <2>1. t \in SUBSET L /\ s # {} /\ x \in Parts
    BY <1>1
  <2>2. sum[s] = x[2] + sum[t]
    BY <1>4, <2>1 DEF AddFirst, L
  <2>3. RowsOf(s) = RowsOf(t) \cup Span(x)
    BY DEF RowsOf
  <2>4. IsFiniteSet(RowsOf(t)) /\ Cardinality(RowsOf(t)) \in Nat
    BY <1>1, RowsOfFinite
  <2>5. IsFiniteSet(Span(x)) /\ Cardinality(Span(x)) = x[2] /\ x[2] \in Nat
    BY <2>1, SpanSize
  <2> DEFINE both == RowsOf(t) \cap Span(x)
  <2>6. IsFiniteSet(both) /\ Cardinality(both) \in Nat
    BY <2>4, FS_Intersection, FS_CardinalityType
  <2>7. Cardinality(RowsOf(s)) = Cardinality(RowsOf(t)) + x[2] - Cardinality(both)
    BY <2>3, <2>4, <2>5, FS_Union
  <2>8. /\ sum[t] \in Nat /\ Cardinality(RowsOf(t)) <= sum[t]
        /\ Cardinality(RowsOf(t)) = sum[t] => Apart(t)
    BY <1>4
  <2>9. sum[s] \in Nat /\ Cardinality(RowsOf(s)) <= sum[s]
    <3> HIDE DEF t, both
    <3>1. QED BY <2>2, <2>4, <2>5, <2>6, <2>7, <2>8
  <2>10. ASSUME Cardinality(RowsOf(s)) = sum[s] PROVE Apart(s)
    <3>1. Cardinality(both) = 0 /\ Cardinality(RowsOf(t)) = sum[t]
      <4>1. Cardinality(RowsOf(t)) + x[2] - Cardinality(both) = x[2] + sum[t]
        BY <2>2, <2>7, <2>10
      <4>2. Cardinality(RowsOf(t)) <= sum[t] /\ sum[t] \in Nat
        BY <2>8
      <4> HIDE DEF t, both
      <4>3. QED BY <2>4, <2>5, <2>6, <4>1, <4>2
    <3>2. both = {} /\ Apart(t)
      BY <2>6, <2>8, <3>1, FS_EmptySet
    <3>3. \A q \in t : Span(q) \cap Span(x) = {}
      BY <3>2 DEF RowsOf
    <3>4. QED BY <3>2, <3>3 DEF Apart
  <2>11. QED BY <2>9, <2>10
<1>5. Wrong = {}
  <2>1. SUFFICES ASSUME Wrong # {} PROVE FALSE
    OBVIOUS
  <2>2. PICK n \in Wrong : \A m \in Wrong : n <= m
    <3>1. Wrong \in SUBSET Nat
      OBVIOUS
    <3> HIDE DEF Wrong
    <3>2. QED BY <2>1, <3>1, LeastElement
  <2> HIDE DEF Counts
  <2>3. PICK s \in SUBSET L : Cardinality(s) = n /\ ~ Counts(s)
    OBVIOUS
  <2>4. s # {}
    BY <1>3, <2>3
  <2>5. First(s) \in s
    BY <2>4 DEF First
  <2> DEFINE t == s \ {First(s)}
  <2>6. t \in SUBSET L /\ Cardinality(t) = Cardinality(s) - 1
    BY <1>2, <2>5, FS_RemoveElement
  <2>7. ~ Counts(t)
    BY <1>4, <2>3, <2>5
  <2>8. n \in Nat /\ Cardinality(t) \in Nat /\ Cardinality(t) = n - 1
    BY <1>2, <2>3, <2>6
  <2>9. Cardinality(t) \in Wrong
    BY <2>6, <2>7, <2>8
  <2>10. n <= Cardinality(t)
    <3> HIDE DEF Wrong, t
    <3>1. QED BY <2>2, <2>9
  <2>11. QED BY <2>8, <2>10
<1>6. Counts(L)
  <2>1. Cardinality(L) \in Nat /\ L \in SUBSET L
    BY <1>2
  <2> HIDE DEF Counts
  <2>2. QED BY <1>5, <2>1
<1>7. QED BY <1>6 DEF L

(***************************************************************************)
(* All parts lie within the plan they belong to, and no version of the     *)
(* source has fewer rows than the plans in hand, if all have the same      *)
(* number up to max_rows.                                                  *)
(***************************************************************************)
Inside(p, n) == p[1] + p[2] <= n

WithinPlan ==
  /\ pc \notin {"loop", "write"} => Pending = {}
  /\ pc \in {"idle", "discard"} => Listed(completed) = {} /\ tasks = <<>>
  /\ \A p \in Listed(completed) \cup Pending : Inside(p, planned)
  /\ \A i \in DOMAIN tasks : Inside(tasks[i], planned)
  /\ ckpt # NoCheckpoint => \A p \in Listed(ckpt.completed) : Inside(p, ckpt.planned)
  /\ \A d \in {publish, output, old} \cap Datasets :
       \A p \in Written(d) : Inside(p, d.planned)

RowsSuffice ==
  \A v \in Versions :
    /\ planned <= RowsAt[v]
    /\ ckpt # NoCheckpoint => ckpt.planned <= RowsAt[v]
    /\ \A d \in {publish, output, old} \cap Datasets : d.planned <= RowsAt[v]

\* The number of rows up to max_rows is always the same.
Steady ==
  \A v, w \in Versions : Smaller(RowsAt[v], MaxRows) = Smaller(RowsAt[w], MaxRows)

LEMMA ChunksInside ==
  ASSUME NEW n \in 0 .. MaxRows, NEW c \in ChunkSizes, NEW items \in Items,
         BeginLoop(n, c, items)
  PROVE  \A i \in DOMAIN tasks' : Inside(tasks'[i], n)
<1> DEFINE U == {p \in Chunks(n, c) : ~ Covered(items, p)}
<1>1. \A p \in U : Inside(p, n)
  <2>1. SUFFICES ASSUME NEW p \in U PROVE Inside(p, n)
    OBVIOUS
  <2>2. p \in Parts /\ p[1] < n /\ p[2] = Smaller(c, n - p[1])
    BY DEF Chunks
  <2>3. p[1] \in Nat /\ p[2] \in Nat /\ c \in Nat /\ n \in Nat
    BY <2>2, PartAssumption DEF Parts
  <2>4. QED BY <2>2, <2>3 DEF Inside, Smaller
<1>2. tasks' \in OffsetOrder(U)
  BY DEF BeginLoop
<1> HIDE DEF U
<1>3. \A i \in DOMAIN tasks' : tasks'[i] \in U
  BY <1>2 DEF OffsetOrder
<1>4. QED BY <1>1, <1>3

LEMMA HalvesInside ==
  ASSUME NEW p \in Parts, p[2] > MinChunk, NEW n \in Nat, Inside(p, n)
  PROVE  Inside(LeftHalf(p), n) /\ Inside(RightHalf(p), n)
<1> DEFINE left == IF MinChunk > p[2] \div 2 THEN MinChunk ELSE p[2] \div 2
<1>1. /\ p[1] \in Nat /\ p[2] \in Nat \ {0}
      /\ p[1] + p[2] <= n /\ MinChunk \in Nat \ {0}
  BY PartAssumption DEF Parts, Inside
<1>2. /\ left \in Nat /\ 0 < left /\ left < p[2]
  BY <1>1
<1>3. /\ LeftHalf(p) = <<p[1], left>>
      /\ RightHalf(p) = <<p[1] + left, p[2] - left>>
  BY DEF LeftHalf, RightHalf
<1> HIDE DEF left
<1>4. QED BY <1>1, <1>2, <1>3 DEF Inside

\* A loop begins with the items in hand.
LEMMA BeginLoopWithin ==
  ASSUME TypeOK, WithinPlan, NEW n \in 0 .. MaxRows, NEW c \in ChunkSizes,
         NEW items \in Items, \A p \in Listed(items) : Inside(p, n),
         Pending = {}, BeginLoop(n, c, items), UNCHANGED <<page, dirVars>>
  PROVE  WithinPlan'
<1>1. /\ planned' = n /\ completed' = items /\ pc' = "loop" /\ page' = page
      /\ publish' = publish /\ output' = output /\ old' = old
  BY DEF BeginLoop, dirVars
<1>2. ckpt' # NoCheckpoint /\ ckpt'.planned = n /\ ckpt'.completed = items
  BY SavedCheckpoint DEF BeginLoop
<1>3. \A i \in DOMAIN tasks' : Inside(tasks'[i], n)
  BY ChunksInside
<1>4. Pending' = {} /\ Listed(completed') = Listed(items)
      /\ Listed(ckpt'.completed) = Listed(items)
  BY <1>1, <1>2 DEF Pending
<1>5. \A d \in {publish', output', old'} \cap Datasets :
         \A p \in Written(d) : Inside(p, d.planned)
  BY <1>1 DEF WithinPlan
<1>6. QED BY <1>1, <1>2, <1>3, <1>4, <1>5 DEF WithinPlan

\* An exception or the end of a run.
LEMMA RaiseWithin ==
  ASSUME TypeOK, WithinPlan, Raise
  PROVE  WithinPlan'
<1>1. /\ planned' = 0 /\ completed' = NoItems /\ page' = [p \in Parts |-> Idle]
      /\ tasks' = <<>> /\ publish' = publish /\ output' = output /\ old' = old
  BY DEF Raise, dirVars
<1>2. ckpt' # NoCheckpoint /\ ckpt'.planned = planned /\ ckpt'.completed = completed
  BY SavedCheckpoint DEF Raise, TypeOK
<1>3. Pending' = {} /\ Listed(completed') = {} /\ DOMAIN tasks' = {}
  BY <1>1 DEF Pending, Listed, NoItems
<1>4. \A d \in {publish', output', old'} \cap Datasets :
         \A p \in Written(d) : Inside(p, d.planned)
  BY <1>1 DEF WithinPlan
<1>5. \A p \in Listed(ckpt'.completed) : Inside(p, ckpt'.planned)
  BY <1>2 DEF WithinPlan
<1>6. QED BY <1>1, <1>2, <1>3, <1>4, <1>5 DEF WithinPlan

\* A step of the loop: what it adds to the items, the pages and the queue lies
\* within the plan.
LEMMA LoopWithin ==
  ASSUME TypeOK, WithinPlan, UNCHANGED <<planned, dirVars>>,
         pc' \notin {"idle", "discard"},
         pc' \notin {"loop", "write"} => Pending' = {},
         \A p \in Listed(completed') \cup Pending' : Inside(p, planned),
         \A i \in DOMAIN tasks' : Inside(tasks'[i], planned),
         \/ ckpt' = ckpt
         \/ SaveCheckpoint(planned, completed') /\ completed' \in Items
  PROVE  WithinPlan'
<1>1. /\ planned' = planned
      /\ publish' = publish /\ output' = output /\ old' = old
  BY DEF dirVars
<1>2. \A d \in {publish', output', old'} \cap Datasets :
         \A p \in Written(d) : Inside(p, d.planned)
  BY <1>1 DEF WithinPlan
<1>3. ckpt' # NoCheckpoint =>
        \A p \in Listed(ckpt'.completed) : Inside(p, ckpt'.planned)
  <2>1. CASE ckpt' = ckpt
    BY <2>1 DEF WithinPlan
  <2>2. CASE SaveCheckpoint(planned, completed') /\ completed' \in Items
    <3>1. ckpt'.planned = planned /\ ckpt'.completed = completed'
      BY <2>2 DEF SaveCheckpoint
    <3>2. QED BY <3>1
  <2>3. QED BY <2>1, <2>2
<1>4. QED BY <1>1, <1>2, <1>3 DEF WithinPlan

LEMMA WithinStep == IndInv /\ WithinPlan /\ [Next]_vars => WithinPlan'
<1> SUFFICES ASSUME IndInv, WithinPlan, [Next]_vars PROVE WithinPlan'
  OBVIOUS
<1>0. /\ TypeOK /\ CurrentPart
      /\ NoItems \in Items /\ Listed(NoItems) = {}
      /\ planned \in 0 .. MaxRows /\ Planned \in 0 .. MaxRows
      /\ Idle # InFlight /\ Idle # Payload /\ Idle # Failed /\ Idle \notin Versions
  BY PlannedType, VersionAssumption
     DEF IndInv, NoItems, Items, Listed, TypeOK, Idle, InFlight, Payload, Failed
<1>1. CASE StartResume
  <2> DEFINE items == IF ckpt = NoCheckpoint THEN NoItems ELSE Intact
  <2>1. items \in Items
    BY <1>0, IntactType
  <2>2. \A p \in Listed(items) : Inside(p, Planned)
    BY <1>0, <1>1, IntactType DEF WithinPlan, StartResume
  <2>3. PICK c \in ChunkSizes : BeginLoop(Planned, c, items)
    BY <1>1 DEF StartResume
  <2>4. Pending = {} /\ UNCHANGED <<page, dirVars>>
    BY <1>1 DEF StartResume, WithinPlan
  <2> HIDE DEF items
  <2>5. QED BY <1>0, <2>1, <2>2, <2>3, <2>4, BeginLoopWithin
<1>2. CASE StartFresh
  <2>1. CASE ckpt = NoCheckpoint
    <3>1. PICK c \in ChunkSizes : BeginLoop(Planned, c, NoItems)
      BY <1>2, <2>1 DEF StartFresh
    <3>2. Pending = {} /\ UNCHANGED <<page, dirVars>>
      BY <1>2, <2>1 DEF StartFresh, WithinPlan
    <3>3. QED BY <1>0, <3>1, <3>2, BeginLoopWithin
  <2>2. CASE ckpt # NoCheckpoint
    <3>1. /\ pc = "idle" /\ pc' = "discard"
          /\ UNCHANGED <<tasks, page, completed, ckpt, publish, output, old>>
      BY <1>2, <2>2 DEF StartFresh, workVars, dirVars
    <3>2. Pending = {} /\ Listed(completed) = {} /\ tasks = <<>>
      BY <3>1 DEF WithinPlan
    <3>3. Pending' = Pending /\ Listed(completed)' = Listed(completed)
      BY <3>1 DEF Pending
    <3>4. QED BY <3>1, <3>2, <3>3 DEF WithinPlan
  <2>3. QED BY <2>1, <2>2
<1>3. CASE Discarded
  <2>1. PICK c \in ChunkSizes : BeginLoop(planned, c, NoItems)
    BY <1>3 DEF Discarded
  <2>2. Pending = {} /\ UNCHANGED <<page, dirVars>>
    BY <1>3 DEF Discarded, WithinPlan
  <2>3. QED BY <1>0, <2>1, <2>2, BeginLoopWithin
<1>4. CASE Submit
  <2>1. /\ pc = "loop" /\ pc' = "loop" /\ tasks # <<>> /\ tasks' = Tail(tasks)
        /\ page' = [page EXCEPT ![Head(tasks)] = InFlight]
        /\ UNCHANGED <<planned, completed, ckpt, dirVars>>
    BY <1>4 DEF Submit, workVars
  <2>2. /\ tasks \in Seq(Parts) /\ Head(tasks) \in Parts
        /\ Head(tasks) = tasks[1] /\ 1 \in DOMAIN tasks
        /\ \A i \in DOMAIN Tail(tasks) : i + 1 \in DOMAIN tasks /\ Tail(tasks)[i] = tasks[i + 1]
    BY <1>0, <2>1 DEF TypeOK
  <2>3. Pending' \subseteq Pending \cup {Head(tasks)}
    BY <1>0, <2>1, <2>2 DEF Pending, TypeOK
  <2>4. \A p \in Listed(completed') \cup Pending' : Inside(p, planned)
    BY <2>1, <2>2, <2>3 DEF WithinPlan
  <2>5. \A i \in DOMAIN tasks' : Inside(tasks'[i], planned)
    BY <2>1, <2>2 DEF WithinPlan
  <2>6. QED BY <1>0, <2>1, <2>4, <2>5, LoopWithin
<1>5. ASSUME NEW p \in Parts, AnswerPage(p) PROVE WithinPlan'
  <2>1. /\ page[p] = InFlight
        /\ \E a : page' = [page EXCEPT ![p] = a]
        /\ UNCHANGED <<pc, planned, tasks, completed, ckpt, dirVars>>
    BY <1>5 DEF AnswerPage, workVars
  <2>2. p \in Pending /\ Pending' \subseteq Pending
    BY <1>0, <2>1 DEF Pending, TypeOK
  <2>3. pc \in {"loop", "write"}
    BY <2>2 DEF WithinPlan
  <2>4. \A q \in Listed(completed') \cup Pending' : Inside(q, planned)
    BY <2>1, <2>2 DEF WithinPlan
  <2>5. \A i \in DOMAIN tasks' : Inside(tasks'[i], planned)
    BY <2>1 DEF WithinPlan
  <2>6. QED BY <1>0, <2>1, <2>3, <2>4, <2>5, LoopWithin
<1>6. ASSUME NEW p \in Parts, SplitPage(p) PROVE WithinPlan'
  <2>1. /\ pc = "loop" /\ pc' = "loop" /\ page[p] = Payload /\ p[2] > MinChunk
        /\ tasks' = <<LeftHalf(p), RightHalf(p)>> \o tasks
        /\ page' = [page EXCEPT ![p] = Idle]
        /\ SaveCheckpoint(planned, completed)
        /\ UNCHANGED <<planned, completed, dirVars>>
    BY <1>6 DEF SplitPage, Splittable
  <2>2. p \in Pending /\ Pending' \subseteq Pending
    BY <1>0, <2>1 DEF Pending, TypeOK
  <2>3. Inside(p, planned) /\ planned \in Nat
    BY <1>0, <2>2 DEF WithinPlan
  <2>4. /\ LeftHalf(p) \in Parts /\ RightHalf(p) \in Parts
        /\ Inside(LeftHalf(p), planned) /\ Inside(RightHalf(p), planned)
    BY <2>1, <2>3, Halves, HalvesInside
  <2>5. \A i \in DOMAIN tasks' : Inside(tasks'[i], planned)
    <3>1. tasks \in Seq(Parts)
      BY <1>0 DEF TypeOK
    <3>2. ASSUME NEW i \in DOMAIN tasks'
          PROVE  \/ tasks'[i] = LeftHalf(p)
                 \/ tasks'[i] = RightHalf(p)
                 \/ i - 2 \in DOMAIN tasks /\ tasks'[i] = tasks[i - 2]
      BY <2>1, <2>4, <3>1
    <3>3. QED BY <2>4, <3>2 DEF WithinPlan
  <2>6. \A q \in Listed(completed') \cup Pending' : Inside(q, planned)
    BY <2>1, <2>2 DEF WithinPlan
  <2>7. completed' = completed /\ completed \in Items
    BY <1>0, <2>1 DEF TypeOK
  <2>8. QED BY <1>0, <2>1, <2>5, <2>6, <2>7, LoopWithin
<1>7. CASE Wait \/ \E p \in Parts : WritePart(p)
  <2>1. /\ pc' \in {"loop", "write"}
        /\ UNCHANGED <<planned, tasks, page, completed, ckpt, dirVars>>
    BY <1>7 DEF Wait, WritePart, workVars
  <2>2. Pending' = Pending
    BY <2>1 DEF Pending
  <2>3. QED BY <1>0, <2>1, <2>2, LoopWithin DEF WithinPlan
<1>8. CASE RecordPart
  <2>1. /\ pc = "write" /\ pc' = "loop"
        /\ completed' = [completed EXCEPT ![cur] = page[cur]]
        /\ SaveCheckpoint(planned, completed')
        /\ page' = [page EXCEPT ![cur] = Idle]
        /\ UNCHANGED <<planned, tasks, dirVars>>
    BY <1>8 DEF RecordPart
  <2>2. cur \in Parts /\ page[cur] \in Versions
    BY <1>0, <2>1 DEF CurrentPart, TypeOK
  <2>3. cur \in Pending /\ Pending' \subseteq Pending
    BY <1>0, <2>1, <2>2 DEF Pending, TypeOK
  <2>4. completed' \in Items /\ Listed(completed') \subseteq Listed(completed) \cup {cur}
    BY <1>0, <2>1, <2>2 DEF Items, Listed, TypeOK
  <2>5. \A p \in Listed(completed') \cup Pending' : Inside(p, planned)
    BY <2>3, <2>4 DEF WithinPlan
  <2>6. \A i \in DOMAIN tasks' : Inside(tasks'[i], planned)
    BY <2>1 DEF WithinPlan
  <2>7. QED BY <1>0, <2>1, <2>4, <2>5, <2>6, LoopWithin
<1>9. CASE CountVerified
  <2>1. /\ Pending = {} /\ pc' = "publish" /\ SaveCheckpoint(planned, completed)
        /\ UNCHANGED <<planned, tasks, page, completed, dirVars>>
    BY <1>9 DEF CountVerified, LoopEnded, runVars
  <2>2. Pending' = Pending /\ completed' = completed /\ completed \in Items
    BY <1>0, <2>1 DEF Pending, TypeOK
  <2>3. QED BY <1>0, <2>1, <2>2, LoopWithin DEF WithinPlan
<1>10. CASE CountMismatch \/ IOFailure \/ \E p \in Parts : RejectPage(p)
  BY <1>0, <1>10, RaiseWithin DEF CountMismatch, IOFailure, RejectPage
<1>11. CASE Crash
  <2>1. /\ pc' = "idle" /\ completed' = NoItems /\ page' = [p \in Parts |-> Idle]
        /\ tasks' = <<>> /\ UNCHANGED <<ckpt, publish, output, old>>
    BY <1>11 DEF Crash, workVars, dirVars
  <2>2. Pending' = {} /\ Listed(completed') = {} /\ DOMAIN tasks' = {}
    BY <1>0, <2>1 DEF Pending
  <2>3. QED BY <2>1, <2>2 DEF WithinPlan
<1>12. CASE Return
  <2>1. /\ pc = "done" /\ pc' = "idle" /\ completed' = NoItems /\ tasks' = <<>>
        /\ UNCHANGED <<page, ckpt, publish, output, old>>
    BY <1>12 DEF Return, workVars, dirVars
  <2>2. Pending' = {} /\ Listed(completed') = {} /\ DOMAIN tasks' = {}
    BY <1>0, <2>1 DEF Pending, WithinPlan
  <2>3. QED BY <2>1, <2>2 DEF WithinPlan
<1>13. ASSUME UNCHANGED <<pc, planned, tasks, page, completed, dirVars>>,
              ckpt' = ckpt \/ ckpt' = NoCheckpoint
       PROVE  WithinPlan'
  BY <1>13 DEF WithinPlan, Pending, dirVars
<1>14. CASE RemoveCheckpoint \/ SourceChanges \/ UNCHANGED vars
            \/ \E p \in Parts : RemovePartFile(p)
  BY <1>13, <1>14 DEF RemoveCheckpoint, SourceChanges, RemovePartFile, vars, runVars, workVars
<1>15. CASE Publish
  <2>1. /\ UNCHANGED <<planned, tasks, page, completed, ckpt>>
        /\ pc \notin {"idle", "discard", "loop", "write"}
        /\ pc' \notin {"idle", "discard", "loop", "write"}
    BY <1>15 DEF Publish, BeginPublish, CopyParts, TearOld, RemoveStaleOld, MoveAside,
                InstallOver, RemoveOld, InstallNew, runVars, workVars
  <2>2. Pending' = Pending
    BY <2>1 DEF Pending
  <2>3. ASSUME NEW d \in {publish', output', old'} \cap Datasets
        PROVE  \A p \in Written(d) : Inside(p, d.planned)
    <3>1. CASE d \in {publish, output, old}
      BY <3>1 DEF WithinPlan
    <3>2. CASE CopyParts /\ d = publish'
      <4>1. d.planned = planned
            /\ d.parts = [p \in Parts |-> IF p \in Listed(completed) THEN files[p] ELSE Absent]
        BY <3>2 DEF CopyParts
      <4>2. Written(d) \subseteq Listed(completed)
        BY <4>1 DEF Written
      <4>3. QED BY <4>1, <4>2 DEF WithinPlan
    <3>3. d # Missing /\ d # Partial
      BY AbsenceAssumption
    <3>4. QED
      BY <1>15, <3>1, <3>2, <3>3
         DEF Publish, BeginPublish, CopyParts, TearOld, RemoveStaleOld, MoveAside,
             InstallOver, RemoveOld, InstallNew
  <2>4. QED BY <2>1, <2>2, <2>3 DEF WithinPlan
<1>16. QED
  BY <1>1, <1>2, <1>3, <1>4, <1>5, <1>6, <1>7, <1>8, <1>9, <1>10, <1>11, <1>12,
     <1>14, <1>15 DEF Next, Fetch, Schedule, Remove

LEMMA SufficeStep ==
  ASSUME Steady
  PROVE  IndInv /\ RowsSuffice /\ [Next]_vars => RowsSuffice'
<1> SUFFICES ASSUME IndInv, RowsSuffice, [Next]_vars PROVE RowsSuffice'
  OBVIOUS
<1>1. /\ TypeOK /\ planned \in 0 .. MaxRows /\ Planned \in 0 .. MaxRows
      /\ NoItems \in Items
  BY PlannedType DEF IndInv, TypeOK, NoItems, Items
<1>2. \A v \in Versions : Planned <= RowsAt[v] /\ 0 <= RowsAt[v]
  <2>1. SUFFICES ASSUME NEW v \in Versions PROVE Planned <= RowsAt[v] /\ 0 <= RowsAt[v]
    OBVIOUS
  <2>2. Planned = Smaller(RowsAt[v], MaxRows)
    BY <1>1 DEF Planned, Steady, TypeOK
  <2>3. QED BY <2>2, PartAssumption DEF Smaller
<1>3. ASSUME planned' \in {planned, Planned, 0},
             \/ ckpt' = ckpt
             \/ ckpt' = NoCheckpoint
             \/ ckpt'.planned \in {planned, Planned},
             \A d \in {publish', output', old'} \cap Datasets :
               d \in {publish, output, old} \/ d.planned = planned
      PROVE  RowsSuffice'
  <2>1. SUFFICES ASSUME NEW v \in Versions
                 PROVE  /\ planned' <= RowsAt[v]
                        /\ ckpt' # NoCheckpoint => ckpt'.planned <= RowsAt[v]
                        /\ \A d \in {publish', output', old'} \cap Datasets :
                             d.planned <= RowsAt[v]
    BY DEF RowsSuffice
  <2>2. planned <= RowsAt[v] /\ Planned <= RowsAt[v] /\ 0 <= RowsAt[v]
    BY <1>2 DEF RowsSuffice
  <2>3. ckpt' # NoCheckpoint => ckpt'.planned <= RowsAt[v]
    BY <1>3, <2>2 DEF RowsSuffice
  <2>4. QED BY <1>3, <2>2, <2>3 DEF RowsSuffice
<1> USE DEF dirVars, workVars, runVars
<1>4. ASSUME NEW n \in {planned, Planned}, NEW c \in ChunkSizes, NEW items \in Items,
             BeginLoop(n, c, items), UNCHANGED dirVars
      PROVE  RowsSuffice'
  <2>1. planned' = n /\ ckpt'.planned = n
    BY <1>4 DEF BeginLoop, SaveCheckpoint
  <2>2. QED BY <1>3, <1>4, <2>1
<1>5. CASE StartResume
  <2>1. PICK c \in ChunkSizes :
          BeginLoop(Planned, c, IF ckpt = NoCheckpoint THEN NoItems ELSE Intact)
    BY <1>5 DEF StartResume
  <2>2. (IF ckpt = NoCheckpoint THEN NoItems ELSE Intact) \in Items
    BY <1>1, IntactType
  <2>3. QED BY <1>4, <1>5, <2>1, <2>2 DEF StartResume
<1>6. CASE StartFresh
  <2>1. CASE ckpt = NoCheckpoint
    BY <1>1, <1>4, <1>6, <2>1 DEF StartFresh
  <2>2. CASE ckpt # NoCheckpoint
    BY <1>3, <1>6, <2>2 DEF StartFresh
  <2>3. QED BY <2>1, <2>2
<1>7. CASE Discarded
  BY <1>1, <1>4, <1>7 DEF Discarded
<1>8. ASSUME Raise PROVE RowsSuffice'
  <2>1. planned' = 0 /\ ckpt'.planned = planned /\ UNCHANGED dirVars
    BY <1>8 DEF Raise, SaveCheckpoint
  <2>2. QED BY <1>3, <2>1
<1>9. CASE CountMismatch \/ IOFailure \/ \E p \in Parts : RejectPage(p)
  BY <1>8, <1>9 DEF CountMismatch, IOFailure, RejectPage
<1>10. CASE Crash \/ Return \/ Submit \/ Wait \/ RemoveCheckpoint \/ SourceChanges
            \/ UNCHANGED vars \/ Fetch
            \/ \E p \in Parts : WritePart(p) \/ RemovePartFile(p)
  BY <1>3, <1>10 DEF Crash, Return, Submit, Wait, RemoveCheckpoint, SourceChanges, vars,
                     Fetch, AnswerPage, WritePart, RemovePartFile
<1>11. CASE RecordPart \/ CountVerified \/ \E p \in Parts : SplitPage(p)
  <2>1. planned' = planned /\ UNCHANGED dirVars
    BY <1>11 DEF RecordPart, CountVerified, SplitPage
  <2>2. \E done : SaveCheckpoint(planned, done)
    BY <1>11 DEF RecordPart, CountVerified, SplitPage
  <2>3. ckpt'.planned = planned
    BY <2>2 DEF SaveCheckpoint
  <2>4. QED BY <1>3, <2>1, <2>3
<1>12. CASE Publish
  <2>1. planned' = planned /\ ckpt' = ckpt
    BY <1>12 DEF Publish, BeginPublish, CopyParts, TearOld, RemoveStaleOld, MoveAside,
                InstallOver, RemoveOld, InstallNew
  <2>2. \A d \in {publish', output', old'} \cap Datasets :
          d \in {publish, output, old} \/ d.planned = planned
    <3>1. Missing \notin Datasets /\ Partial \notin Datasets
      BY AbsenceAssumption
    <3>2. CASE CopyParts
      BY <3>2 DEF CopyParts
    <3>3. CASE ~ CopyParts
      BY <1>12, <3>1, <3>3
         DEF Publish, BeginPublish, TearOld, RemoveStaleOld, MoveAside, InstallOver,
             RemoveOld, InstallNew
    <3>4. QED BY <3>2, <3>3
  <2>3. QED BY <1>3, <2>1, <2>2
<1>13. QED
  BY <1>5, <1>6, <1>7, <1>9, <1>10, <1>11, <1>12 DEF Next, Schedule, Remove

\* A complete dataset within its plan, all of whose parts have all their rows.
LEMMA CompleteApart ==
  ASSUME IndInv, WithinPlan, RowsSuffice, output # Missing
  PROVE  Apart(Written(output))
<1>1. /\ output \in Datasets /\ WholeFiles(output) /\ EveryOffset(output)
      /\ RowTotal(output.parts) = output.planned
  BY DEF IndInv, DirectoriesSound, Complete, IsComplete, RowsAddUp
<1> DEFINE items == output.parts
           n     == output.planned
<1>2. n \in 0 .. MaxRows /\ n \in Nat /\ items \in [Parts -> Versions \cup {Absent, Torn}]
  BY <1>1, PartAssumption DEF Datasets
<1>3. Written(output) = Listed(items)
  BY DEF Written, Listed
<1>4. \A p \in Listed(items) : items[p] \in Versions /\ Inside(p, n)
  BY <1>1, <1>2, <1>3 DEF WholeFiles, Listed, WithinPlan
<1>5. \A v \in Versions : n <= RowsAt[v]
  BY <1>1 DEF RowsSuffice
<1> HIDE DEF items, n
<1>6. \A p \in Listed(items) : PageRows(items[p], p) = p[2]
  <2>1. SUFFICES ASSUME NEW p \in Listed(items) PROVE PageRows(items[p], p) = p[2]
    OBVIOUS
  <2>2. p[1] \in Nat /\ p[2] \in Nat \ {0} /\ p[1] + p[2] <= n
    BY <1>4, PartAssumption DEF Listed, Parts, Inside
  <2>3. n <= RowsAt[items[p]] /\ RowsAt[items[p]] \in Nat
    BY <1>4, <1>5, PartAssumption
  <2>4. QED BY <1>2, <2>2, <2>3 DEF PageRows, Smaller
<1>7. RowsOf(Listed(items)) = 0 .. n - 1
  <2>1. \A r \in 0 .. n - 1 : r \in RowsOf(Listed(items))
    BY <1>1, <1>3 DEF EveryOffset, RowsOf, n
  <2>2. ASSUME NEW p \in Listed(items) PROVE Span(p) \subseteq 0 .. n - 1
    <3>1. p[1] \in Nat /\ p[2] \in Nat /\ p[1] + p[2] <= n
      BY <1>4, PartAssumption DEF Listed, Parts, Inside
    <3>2. QED BY <1>2, <3>1 DEF Span
  <2>3. QED BY <2>1, <2>2 DEF RowsOf
<1>8. Cardinality(RowsOf(Listed(items))) = n
  BY <1>2, <1>7, FS_Interval
<1>9. RowTotal(items) = n
  BY <1>1 DEF items, n
<1>10. PICK sum : /\ sum = [s \in SUBSET Listed(items) |-> AddFirst(items, sum, s)]
                  /\ RowTotal(items) = sum[Listed(items)]
  BY RowTotalIsSum
<1>11. Apart(Listed(items))
  BY <1>6, <1>8, <1>9, <1>10, OverlapsCount
<1>12. QED BY <1>3, <1>11

\* If the number of rows does not change, a published dataset has every row of
\* the plan exactly once, whatever was split, resumed, fetched again or lost in
\* a crash: overlapping parts are found out by the count of their rows.
THEOREM EveryRowOnce ==
  ASSUME Steady
  PROVE  Spec => []ExactlyOnce
<1>1. Init => WithinPlan /\ RowsSuffice
  <2>1. SUFFICES ASSUME Init PROVE WithinPlan /\ RowsSuffice
    OBVIOUS
  <2>2. /\ Pending = {} /\ Listed(completed) = {} /\ DOMAIN tasks = {}
        /\ {publish, output, old} \cap Datasets = {}
    BY <2>1, AbsenceAssumption DEF Init, Pending, Listed, NoItems
  <2>3. WithinPlan
    BY <2>1, <2>2 DEF Init, WithinPlan
  <2>4. \A v \in Versions : 0 <= RowsAt[v]
    BY PartAssumption
  <2>5. RowsSuffice
    BY <2>1, <2>2, <2>4 DEF Init, RowsSuffice
  <2>6. QED BY <2>3, <2>5
<1>2. IndInv /\ WithinPlan /\ RowsSuffice /\ [Next]_vars => (WithinPlan /\ RowsSuffice)'
  BY WithinStep, SufficeStep
<1>3. IndInv /\ WithinPlan /\ RowsSuffice => ExactlyOnce
  BY CompleteApart DEF ExactlyOnce, Apart, IndInv, DirectoriesSound, Complete, IsComplete
<1>4. QED BY <1>1, <1>2, <1>3, Invariance, PTL DEF Spec

(***************************************************************************)
(* Why a run ends.  The pages in the queue and in the pool are disjoint, so*)
(* that a split leaves fewer rows at which a page can still be split.      *)
(***************************************************************************)
\* The pages p and q have no row in common.
Disjoint(p, q) == p[1] + p[2] <= q[1] \/ q[1] + q[2] <= p[1]

\* No row is in two of the pages that are queued or pending.
PagesApart ==
  /\ \A i, j \in DOMAIN tasks : i # j => Disjoint(tasks[i], tasks[j])
  /\ \A i \in DOMAIN tasks : \A p \in Pending : Disjoint(tasks[i], p)
  /\ \A p, q \in Pending : p # q => Disjoint(p, q)

\* The row r is inside the page p, which could be split there.
Divides(r, p) == p[1] < r /\ r < p[1] + p[2]

Divisions ==
  {r \in 0 .. MaxRows : \/ \E i \in DOMAIN tasks : Divides(r, tasks[i])
                        \/ \E p \in Pending : Divides(r, p)}

Asked == {p \in Parts : page[p] = InFlight}

Stored == {p \in Parts : files[p] # Absent}

\* How many stages a run has left ...
Stage ==
  CASE pc = "discard" -> 9
    [] pc \in {"loop", "write"} -> 8
    [] pc = "publish" -> 7
    [] pc = "copy" -> 6
    [] pc = "swap" -> 5
    [] pc = "aside" -> 4
    [] pc = "install" -> 3
    [] pc = "cleanup" -> 2
    [] pc = "done" -> 1
    [] OTHER -> 0

LoopPart == IF pc = "write" THEN 0 ELSE IF batch # {} THEN 1 ELSE 2

\* ... and, at most, how many steps in this one.
StageSteps ==
  IF pc \in {"loop", "write"}
  THEN 9 * Cardinality(Divisions) + 5 * Len(tasks) + 3 * Cardinality(Pending)
         + Cardinality(Asked) + LoopPart
  ELSE IF pc \in {"discard", "done"}
       THEN Cardinality(Stored) + (IF ckpt = NoCheckpoint THEN 0 ELSE 1)
       ELSE IF old \in {Missing, Partial} THEN 0 ELSE 1

\* Every step of a run, of a worker or of what fails ends the run, begins a later
\* stage of it, or leaves this stage fewer steps: whatever is answered, truncated or
\* split, the loop does not go round for ever, and no stage is entered twice.
NearerToTheEnd ==
  [][pc # "idle" => \/ pc' = "idle"
                    \/ Stage' \in 1 .. Stage - 1
                    \/ Stage' = Stage /\ StageSteps' \in 0 .. StageSteps - 1
                    \/ SourceChanges /\ Stage' = Stage /\ StageSteps' = StageSteps]_vars

LEMMA ChunksDisjoint ==
  ASSUME NEW n \in 0 .. MaxRows, NEW c \in Nat \ {0},
         NEW p \in Chunks(n, c), NEW q \in Chunks(n, c), p[1] < q[1]
  PROVE  Disjoint(p, q)
<1> DEFINE x == p[1] \div c
           y == q[1] \div c
<1>1. /\ p[1] \in Nat /\ q[1] \in Nat /\ p[2] \in Nat /\ n \in Nat /\ c \in Nat /\ 0 < c
      /\ p[1] % c = 0 /\ q[1] % c = 0 /\ p[2] = Smaller(c, n - p[1])
  BY PartAssumption DEF Chunks, Parts
<1>2. p[1] = c * x /\ q[1] = c * y /\ x \in Nat /\ y \in Nat
  <2>1. \A a, k \in Nat : 0 < k /\ a % k = 0 => a = k * (a \div k) /\ a \div k \in Nat
    <3> TAKE a, k \in Nat
    <3> HAVE 0 < k /\ a % k = 0
    <3>1. a = k * (a \div k) + (a % k)
      OBVIOUS
    <3>2. a \div k \in Nat
      OBVIOUS
    <3>3. QED
      BY <3>1, <3>2
  <2>2. QED
    BY <1>1, <2>1
<1> HIDE DEF x, y
<1>3. x < y
  BY <1>1, <1>2
<1>4. c * x + c <= c * y
  <2>1. c * (x + 1) <= c * y
    BY <1>1, <1>2, <1>3
  <2>2. c * (x + 1) = c * x + c
    BY <1>1, <1>2
  <2>3. QED
    BY <1>1, <1>2, <2>1, <2>2
<1>5. p[2] <= c
  BY <1>1 DEF Smaller
<1>6. p[1] + p[2] <= q[1]
  BY <1>1, <1>2, <1>4, <1>5
<1>7. QED
  BY <1>6 DEF Disjoint

\* A loop begins with chunks that are disjoint.
LEMMA BeginLoopApart ==
  ASSUME NEW n \in 0 .. MaxRows, NEW c \in ChunkSizes, NEW items,
         BeginLoop(n, c, items), Pending' = {}
  PROVE  PagesApart'
<1> DEFINE U == {p \in Chunks(n, c) : ~ Covered(items, p)}
<1>1. tasks' \in OffsetOrder(U) /\ U \subseteq Chunks(n, c) /\ U \in SUBSET Parts
  BY DEF BeginLoop, Chunks
<1> HIDE DEF U
<1>2. /\ DOMAIN tasks' = 1 .. Cardinality(U) /\ Cardinality(U) \in Nat
      /\ \A i \in DOMAIN tasks' : tasks'[i] \in U
      /\ \A i, j \in DOMAIN tasks' : i < j => tasks'[i][1] < tasks'[j][1]
  BY <1>1, PartsFinite, FS_Subset, FS_CardinalityType DEF OffsetOrder
<1>3. ASSUME NEW i \in DOMAIN tasks', NEW j \in DOMAIN tasks', i # j
      PROVE  Disjoint(tasks'[i], tasks'[j])
  <2>1. /\ tasks'[i] \in Chunks(n, c) /\ tasks'[j] \in Chunks(n, c)
        /\ tasks'[i][1] < tasks'[j][1] \/ tasks'[j][1] < tasks'[i][1]
    BY <1>1, <1>2, <1>3
  <2>2. c \in Nat \ {0}
    BY PartAssumption
  <2>3. Disjoint(tasks'[i], tasks'[j]) \/ Disjoint(tasks'[j], tasks'[i])
    BY <2>1, <2>2, ChunksDisjoint
  <2>4. QED
    BY <2>3 DEF Disjoint
<1>4. QED
  BY <1>3 DEF PagesApart

\* What a submission and a split change of the queue and the pool.
LEMMA SubmitMoves ==
  ASSUME TypeOK, Submit
  PROVE  /\ tasks[1] \in Parts /\ 1 \in DOMAIN tasks
         /\ Len(tasks) \in Nat /\ Len(tasks') = Len(tasks) - 1
         /\ \A i \in DOMAIN tasks' : /\ i + 1 \in DOMAIN tasks /\ i + 1 # 1
                                     /\ tasks'[i] = tasks[i + 1]
         /\ \A i, j \in DOMAIN tasks' : i # j => i + 1 # j + 1
         /\ Pending' = Pending \cup {tasks[1]}
         /\ Asked' = Asked \cup {tasks[1]}
<1>1. /\ tasks \in Seq(Parts) /\ tasks # <<>> /\ tasks' = Tail(tasks)
      /\ page' = [page EXCEPT ![tasks[1]] = InFlight]
  BY DEF TypeOK, Submit
<1>2. /\ tasks[1] \in Parts /\ 1 \in DOMAIN tasks /\ Len(tasks) \in Nat
      /\ Len(tasks') = Len(tasks) - 1 /\ DOMAIN tasks' = 1 .. Len(tasks) - 1
      /\ \A i \in 1 .. Len(tasks) - 1 : /\ i + 1 \in DOMAIN tasks /\ i + 1 # 1
                                        /\ tasks'[i] = tasks[i + 1]
  BY <1>1
<1>3. /\ page'[tasks[1]] = InFlight /\ InFlight # Idle
      /\ \A p \in Parts : p # tasks[1] => page'[p] = page[p]
  BY <1>1, <1>2 DEF TypeOK, InFlight, Idle
<1>4. Pending' = Pending \cup {tasks[1]} /\ Asked' = Asked \cup {tasks[1]}
  BY <1>2, <1>3 DEF Pending, Asked
<1>5. QED
  BY <1>2, <1>4

LEMMA SplitMoves ==
  ASSUME TypeOK, NEW p \in Parts, SplitPage(p)
  PROVE  /\ p \in Pending /\ Pending' = Pending \ {p} /\ Asked' = Asked
         /\ LeftHalf(p) \in Parts /\ RightHalf(p) \in Parts
         /\ Len(tasks) \in Nat /\ Len(tasks') = Len(tasks) + 2
         /\ 1 \in DOMAIN tasks' /\ tasks'[1] = LeftHalf(p)
         /\ 2 \in DOMAIN tasks' /\ tasks'[2] = RightHalf(p)
         /\ \A i \in DOMAIN tasks' :
              i # 1 /\ i # 2 => i - 2 \in DOMAIN tasks /\ tasks'[i] = tasks[i - 2]
         /\ \A i \in DOMAIN tasks' : i \in Nat
<1>1. /\ tasks \in Seq(Parts) /\ tasks' = <<LeftHalf(p), RightHalf(p)>> \o tasks
      /\ page[p] = Payload /\ page' = [page EXCEPT ![p] = Idle]
      /\ p[2] > MinChunk
  BY DEF TypeOK, SplitPage, Splittable
<1>2. LeftHalf(p) \in Parts /\ RightHalf(p) \in Parts
  BY <1>1, Halves
<1>3. /\ Len(tasks) \in Nat /\ Len(tasks') = Len(tasks) + 2
      /\ DOMAIN tasks' = 1 .. Len(tasks) + 2
      /\ tasks'[1] = LeftHalf(p) /\ tasks'[2] = RightHalf(p)
      /\ \A i \in 3 .. Len(tasks) + 2 : i - 2 \in DOMAIN tasks /\ tasks'[i] = tasks[i - 2]
  BY <1>1, <1>2
<1>4. /\ page'[p] = Idle /\ Payload # Idle /\ InFlight # Idle /\ Payload # InFlight
      /\ \A q \in Parts : q # p => page'[q] = page[q]
  BY <1>1 DEF TypeOK, Payload, Idle, InFlight
<1>5. p \in Pending /\ Pending' = Pending \ {p} /\ Asked' = Asked
  BY <1>1, <1>4 DEF Pending, Asked
<1>6. QED
  BY <1>2, <1>3, <1>5

\* A page is split at a row inside it: the halves lie before it and from it on.
LEMMA HalvesApart ==
  ASSUME NEW p \in Parts, p[2] > MinChunk
  PROVE  \E r \in 0 .. MaxRows :
           /\ Divides(r, p) /\ ~ Divides(r, LeftHalf(p)) /\ ~ Divides(r, RightHalf(p))
           /\ \A s \in 0 .. MaxRows :
                Divides(s, LeftHalf(p)) \/ Divides(s, RightHalf(p)) => Divides(s, p)
           /\ Disjoint(LeftHalf(p), RightHalf(p))
           /\ \A q \in Parts : Disjoint(p, q) =>
                /\ Disjoint(LeftHalf(p), q) /\ Disjoint(RightHalf(p), q)
                /\ ~ Divides(r, q)
<1> DEFINE left == IF MinChunk > p[2] \div 2 THEN MinChunk ELSE p[2] \div 2
<1>1. /\ p[1] \in Nat /\ p[2] \in Nat \ {0}
      /\ p[1] + p[2] <= MaxRows /\ MaxRows \in Nat /\ MinChunk \in Nat \ {0}
  BY PartAssumption DEF Parts
<1>2. /\ left \in Nat /\ 0 < left /\ left < p[2]
  BY <1>1
<1>3. /\ LeftHalf(p) = <<p[1], left>>
      /\ RightHalf(p) = <<p[1] + left, p[2] - left>>
  BY DEF LeftHalf, RightHalf
<1> HIDE DEF left
<1> DEFINE r == p[1] + left
<1>4. /\ r \in 0 .. MaxRows /\ Divides(r, p)
      /\ ~ Divides(r, LeftHalf(p)) /\ ~ Divides(r, RightHalf(p))
  BY <1>1, <1>2, <1>3 DEF Divides
<1>5. ASSUME NEW s \in 0 .. MaxRows, Divides(s, LeftHalf(p)) \/ Divides(s, RightHalf(p))
      PROVE  Divides(s, p)
  BY <1>1, <1>2, <1>3, <1>5 DEF Divides
<1>6. Disjoint(LeftHalf(p), RightHalf(p))
  BY <1>1, <1>2, <1>3 DEF Disjoint
<1>7. ASSUME NEW q \in Parts, Disjoint(p, q)
      PROVE  /\ Disjoint(LeftHalf(p), q) /\ Disjoint(RightHalf(p), q)
             /\ ~ Divides(r, q)
  <2>1. q[1] \in Nat /\ q[2] \in Nat
    BY DEF Parts
  <2>2. QED
    BY <1>1, <1>2, <1>3, <1>7, <2>1 DEF Disjoint, Divides
<1>8. QED
  BY <1>4, <1>5, <1>6, <1>7

LEMMA DisjointSymmetric == \A p, q : Disjoint(p, q) <=> Disjoint(q, p)
BY DEF Disjoint

\* No step makes two pages of the same rows.
LEMMA ApartStep == TypeOK /\ WithinPlan /\ PagesApart /\ CurrentPart /\ [Next]_vars => PagesApart'
<1> SUFFICES ASSUME TypeOK, WithinPlan, PagesApart, CurrentPart, [Next]_vars
             PROVE  PagesApart'
  OBVIOUS
<1>0. /\ tasks \in Seq(Parts) /\ Pending \in SUBSET Parts
      /\ \A i \in DOMAIN tasks : tasks[i] \in Parts
  BY DEF TypeOK, Pending
<1>1. CASE StartResume \/ StartFresh \/ Discarded
  <2>1. Pending = {} /\ tasks = <<>> /\ pc \in {"idle", "discard"} /\ page' = page
    BY <1>1 DEF StartResume, StartFresh, Discarded, WithinPlan
  <2>2. Pending' = {}
    BY <2>1 DEF Pending
  <2>3. \/ \E n \in 0 .. MaxRows : \E c \in ChunkSizes : \E items : BeginLoop(n, c, items)
        \/ tasks' = tasks
    BY <1>1, PlannedType DEF StartResume, StartFresh, Discarded, TypeOK
  <2>4. CASE tasks' = tasks
    BY <2>1, <2>2, <2>4 DEF PagesApart
  <2>5. QED
    BY <2>2, <2>3, <2>4, BeginLoopApart
<1>2. CASE Submit
  <2>1. ASSUME NEW i \in DOMAIN tasks', NEW j \in DOMAIN tasks', i # j
        PROVE  Disjoint(tasks'[i], tasks'[j])
    BY <1>2, <2>1, SubmitMoves DEF PagesApart
  <2>2. ASSUME NEW i \in DOMAIN tasks', NEW p \in Pending'
        PROVE  Disjoint(tasks'[i], p)
    <3>1. i + 1 \in DOMAIN tasks /\ tasks'[i] = tasks[i + 1] /\ i + 1 # 1
          /\ 1 \in DOMAIN tasks
      BY <1>2, SubmitMoves
    <3>2. CASE p = tasks[1]
      BY <3>1, <3>2 DEF PagesApart
    <3>3. CASE p \in Pending
      BY <3>1, <3>3 DEF PagesApart
    <3>4. QED
      BY <1>2, <3>2, <3>3, SubmitMoves
  <2>3. ASSUME NEW p \in Pending', NEW q \in Pending', p # q
        PROVE  Disjoint(p, q)
    <3>1. 1 \in DOMAIN tasks /\ Pending' = Pending \cup {tasks[1]}
      BY <1>2, SubmitMoves
    <3>2. QED
      BY <2>3, <3>1, DisjointSymmetric DEF PagesApart
  <2>4. QED
    BY <2>1, <2>2, <2>3 DEF PagesApart
<1>3. ASSUME NEW p \in Parts, SplitPage(p) PROVE PagesApart'
  <2> DEFINE l == LeftHalf(p)  r == RightHalf(p)
  <2>1. /\ Disjoint(l, r)
        /\ \A q \in Parts : Disjoint(p, q) => Disjoint(l, q) /\ Disjoint(r, q)
    <3>1. p[2] > MinChunk
      BY <1>3 DEF SplitPage, Splittable
    <3>2. QED
      BY <3>1, HalvesApart
  <2>2. p \in Pending /\ Pending' = Pending \ {p}
    BY <1>3, SplitMoves
  <2>3. /\ \A i \in DOMAIN tasks : Disjoint(l, tasks[i]) /\ Disjoint(r, tasks[i])
        /\ \A q \in Pending' : Disjoint(l, q) /\ Disjoint(r, q)
    <3>1. \A i \in DOMAIN tasks : Disjoint(p, tasks[i])
      BY <2>2, DisjointSymmetric DEF PagesApart
    <3>2. \A q \in Pending' : q \in Parts /\ Disjoint(p, q)
      BY <1>0, <2>2 DEF PagesApart
    <3>3. QED
      BY <1>0, <2>1, <3>1, <3>2
  <2>4. ASSUME NEW i \in DOMAIN tasks'
        PROVE  \/ i = 1 /\ tasks'[i] = l
               \/ i = 2 /\ tasks'[i] = r
               \/ i # 1 /\ i # 2 /\ i - 2 \in DOMAIN tasks /\ tasks'[i] = tasks[i - 2]
    BY <1>3, SplitMoves
  <2>5. \A i \in DOMAIN tasks' : i \in Nat
    BY <1>3, SplitMoves
  <2> HIDE DEF l, r
  <2>6. ASSUME NEW i \in DOMAIN tasks', NEW j \in DOMAIN tasks', i # j
        PROVE  Disjoint(tasks'[i], tasks'[j])
    <3>1. CASE i \in {1, 2} /\ j \in {1, 2}
      BY <2>1, <2>4, <2>6, <3>1, DisjointSymmetric
    <3>2. CASE i \in {1, 2} /\ j \notin {1, 2}
      BY <2>3, <2>4, <3>2
    <3>3. CASE i \notin {1, 2} /\ j \in {1, 2}
      BY <2>3, <2>4, <3>3, DisjointSymmetric
    <3>4. CASE i \notin {1, 2} /\ j \notin {1, 2}
      <4>1. /\ i - 2 \in DOMAIN tasks /\ tasks'[i] = tasks[i - 2]
            /\ j - 2 \in DOMAIN tasks /\ tasks'[j] = tasks[j - 2]
        BY <2>4, <3>4
      <4>2. i - 2 # j - 2
        BY <2>5, <2>6
      <4>3. QED
        BY <4>1, <4>2 DEF PagesApart
    <3>5. QED
      BY <3>1, <3>2, <3>3, <3>4
  <2>7. ASSUME NEW i \in DOMAIN tasks', NEW q \in Pending' PROVE Disjoint(tasks'[i], q)
    BY <2>2, <2>3, <2>4 DEF PagesApart
  <2>8. QED
    BY <2>2, <2>6, <2>7 DEF PagesApart
<1>4. ASSUME UNCHANGED tasks, Pending' \subseteq Pending PROVE PagesApart'
  BY <1>4 DEF PagesApart
<1>5. ASSUME NEW p \in Parts, AnswerPage(p) PROVE PagesApart'
  <2>1. Pending' = Pending
    BY <1>5, VersionAssumption
       DEF AnswerPage, Pending, TypeOK, Idle, InFlight, Payload, Failed
  <2>2. tasks' = tasks
    BY <1>5 DEF AnswerPage
  <2>3. QED
    BY <1>4, <2>1, <2>2
<1>6. CASE RecordPart
  <2>1. Pending' \subseteq Pending
    BY <1>6 DEF RecordPart, Pending, TypeOK
  <2>2. QED
    BY <1>4, <1>6, <2>1 DEF RecordPart
<1>7. CASE UNCHANGED <<tasks, page>>
  BY <1>4, <1>7 DEF Pending
<1>8. CASE tasks' = <<>> /\ Pending' = {}
  BY <1>8 DEF PagesApart
<1>9. ASSUME Raise PROVE PagesApart'
  BY <1>8, <1>9 DEF Raise, Pending
<1>10. CASE Return
  <2>1. Pending' = {}
    BY <1>10 DEF Return, WithinPlan, Pending
  <2>2. QED
    BY <1>8, <1>10, <2>1 DEF Return
<1>11. ASSUME NEW p \in Parts, RejectPage(p) \/ WritePart(p) \/ RemovePartFile(p)
       PROVE  PagesApart'
  BY <1>7, <1>9, <1>11 DEF RejectPage, WritePart, RemovePartFile, runVars
<1>12. CASE Wait \/ CountMismatch \/ CountVerified \/ Publish \/ RemoveCheckpoint
            \/ IOFailure \/ SourceChanges \/ UNCHANGED vars
  BY <1>7, <1>9, <1>12
     DEF Wait, CountMismatch, CountVerified, Publish, BeginPublish, CopyParts, TearOld,
         RemoveStaleOld, MoveAside, InstallOver, RemoveOld, InstallNew,
         RemoveCheckpoint, IOFailure, SourceChanges, runVars, vars
<1>13. CASE Crash
  BY <1>8, <1>13 DEF Crash, Pending
<1>14. QED
  BY <1>1, <1>2, <1>3, <1>5, <1>6, <1>10, <1>11, <1>12, <1>13
     DEF Next, Fetch, Schedule, Remove

\* At no time two pages that are queued or pending have a row in common, for any
\* sizes, resumed items, failures and splits (lines 120-143).
THEOREM PagesStayApart == Spec => [](WithinPlan /\ PagesApart)
<1>1. Init => WithinPlan /\ PagesApart
  <2> SUFFICES ASSUME Init PROVE WithinPlan /\ PagesApart
    OBVIOUS
  <2>1. /\ Pending = {} /\ Listed(completed) = {} /\ tasks = <<>>
        /\ {publish, output, old} \cap Datasets = {} /\ ckpt = NoCheckpoint
    BY AbsenceAssumption DEF Init, Pending, Listed, NoItems
  <2>2. QED
    BY <2>1 DEF WithinPlan, PagesApart
<1>2. IndInv /\ WithinPlan /\ PagesApart /\ [Next]_vars => (WithinPlan /\ PagesApart)'
  BY WithinStep, ApartStep DEF IndInv
<1>3. QED
  BY <1>1, <1>2, Invariance, PTL DEF Spec

LEMMA PartOfASet ==
  ASSUME NEW S, IsFiniteSet(S), NEW T \in SUBSET S
  PROVE  /\ Cardinality(S) \in Nat /\ Cardinality(T) \in Nat
         /\ Cardinality(T) <= Cardinality(S)
         /\ S # T => Cardinality(T) < Cardinality(S)
<1>1. /\ IsFiniteSet(T) /\ Cardinality(T) <= Cardinality(S)
      /\ Cardinality(S) = Cardinality(T) => S = T
  BY FS_Subset
<1>2. Cardinality(S) \in Nat /\ Cardinality(T) \in Nat
  BY <1>1, FS_CardinalityType
<1>3. QED
  BY <1>1, <1>2

LEMMA OneMore ==
  ASSUME NEW S, IsFiniteSet(S), NEW x
  PROVE  Cardinality(S \cup {x}) \in Nat /\ Cardinality(S \cup {x}) <= Cardinality(S) + 1
<1>1. Cardinality(S) \in Nat
  BY FS_CardinalityType
<1>2. Cardinality(S \cup {x}) = IF x \in S THEN Cardinality(S) ELSE Cardinality(S) + 1
  BY FS_AddElement
<1>3. QED
  BY <1>1, <1>2

\* What is counted can be counted, before and after a step.
LEMMA Counted ==
  /\ IsFiniteSet(Divisions) /\ IsFiniteSet(Pending)
  /\ IsFiniteSet(Asked) /\ IsFiniteSet(Stored)
  /\ Cardinality(Divisions) \in Nat /\ Cardinality(Divisions') \in Nat
  /\ Cardinality(Pending) \in Nat /\ Cardinality(Pending') \in Nat
  /\ Cardinality(Asked) \in Nat /\ Cardinality(Asked') \in Nat
  /\ Cardinality(Stored) \in Nat /\ Cardinality(Stored') \in Nat
<1>1. ASSUME NEW S \in SUBSET (0 .. MaxRows) PROVE IsFiniteSet(S) /\ Cardinality(S) \in Nat
  <2>1. IsFiniteSet(0 .. MaxRows)
    BY PartAssumption, FS_Interval
  <2>2. QED
    BY <2>1, FS_Subset, FS_CardinalityType
<1>2. ASSUME NEW S \in SUBSET Parts PROVE IsFiniteSet(S) /\ Cardinality(S) \in Nat
  BY PartsFinite, FS_Subset, FS_CardinalityType
<1>3. Divisions \in SUBSET (0 .. MaxRows) /\ Divisions' \in SUBSET (0 .. MaxRows)
  BY DEF Divisions
<1>4. /\ Pending \in SUBSET Parts /\ Pending' \in SUBSET Parts
      /\ Asked \in SUBSET Parts /\ Asked' \in SUBSET Parts
      /\ Stored \in SUBSET Parts /\ Stored' \in SUBSET Parts
  BY DEF Pending, Asked, Stored
<1>5. /\ IsFiniteSet(Divisions)
      /\ Cardinality(Divisions) \in Nat /\ Cardinality(Divisions') \in Nat
  BY <1>1, <1>3
<1>6. /\ IsFiniteSet(Pending) /\ IsFiniteSet(Asked) /\ IsFiniteSet(Stored)
      /\ Cardinality(Pending) \in Nat /\ Cardinality(Pending') \in Nat
      /\ Cardinality(Asked) \in Nat /\ Cardinality(Asked') \in Nat
      /\ Cardinality(Stored) \in Nat /\ Cardinality(Stored') \in Nat
  BY <1>2, <1>4
<1>7. QED
  BY <1>5, <1>6

\* The loop has fewer steps left when a page is submitted, when one is split, or when
\* the queue stays the same and a page less is pending or unanswered, or only the
\* place in the loop is another.
LEMMA LoopDescends ==
  ASSUME pc \in {"loop", "write"}, pc' \in {"loop", "write"},
         Len(tasks) \in Nat, Len(tasks') \in Nat,
         \/ /\ Cardinality(Divisions') <= Cardinality(Divisions)
            /\ Len(tasks') = Len(tasks) - 1
            /\ Cardinality(Pending') <= Cardinality(Pending) + 1
            /\ Cardinality(Asked') <= Cardinality(Asked) + 1
            /\ LoopPart' = LoopPart
         \/ /\ Cardinality(Divisions') < Cardinality(Divisions)
            /\ Len(tasks') = Len(tasks) + 2
            /\ Cardinality(Pending') < Cardinality(Pending)
            /\ Cardinality(Asked') = Cardinality(Asked)
            /\ LoopPart = 1
         \/ /\ Cardinality(Divisions') <= Cardinality(Divisions)
            /\ Len(tasks') = Len(tasks)
            /\ Cardinality(Pending') <= Cardinality(Pending)
            /\ Cardinality(Asked') <= Cardinality(Asked)
            /\ \/ Cardinality(Pending') < Cardinality(Pending)
               \/ Cardinality(Asked') < Cardinality(Asked) /\ LoopPart' = LoopPart
               \/ LoopPart' < LoopPart
  PROVE  Stage' = Stage /\ StageSteps' \in 0 .. StageSteps - 1
<1> DEFINE d == Cardinality(Divisions)  d1 == Cardinality(Divisions')
           n == Len(tasks)              n1 == Len(tasks')
           p == Cardinality(Pending)    p1 == Cardinality(Pending')
           a == Cardinality(Asked)      a1 == Cardinality(Asked')
           s == LoopPart                s1 == LoopPart'
<1>1. Stage = 8 /\ Stage' = 8
  BY DEF Stage
<1>2. /\ StageSteps = 9 * d + 5 * n + 3 * p + a + s
      /\ StageSteps' = 9 * d1 + 5 * n1 + 3 * p1 + a1 + s1
  BY DEF StageSteps
<1>3. s \in 0 .. 2 /\ s1 \in 0 .. 2
  BY DEF LoopPart
<1>4. /\ d \in Nat /\ d1 \in Nat /\ n \in Nat /\ n1 \in Nat /\ p \in Nat /\ p1 \in Nat
      /\ a \in Nat /\ a1 \in Nat
  BY Counted
<1>5. \/ d1 <= d /\ n1 = n - 1 /\ p1 <= p + 1 /\ a1 <= a + 1 /\ s1 = s
      \/ d1 < d /\ n1 = n + 2 /\ p1 < p /\ a1 = a /\ s = 1
      \/ /\ d1 <= d /\ n1 = n /\ p1 <= p /\ a1 <= a
         /\ p1 < p \/ (a1 < a /\ s1 = s) \/ s1 < s
  OBVIOUS
<1> HIDE DEF d, d1, n, n1, p, p1, a, a1, s, s1
<1>6. 9 * d1 + 5 * n1 + 3 * p1 + a1 + s1 < 9 * d + 5 * n + 3 * p + a + s
  BY <1>3, <1>4, <1>5
<1>7. QED
  BY <1>1, <1>2, <1>3, <1>4, <1>6

LEMMA SubmitDescends ==
  ASSUME TypeOK, Submit
  PROVE  Stage' = Stage /\ StageSteps' \in 0 .. StageSteps - 1
<1>1. pc = "loop" /\ pc' = "loop" /\ batch' = batch
  BY DEF Submit
<1>2. Divisions' \subseteq Divisions
  <2> SUFFICES ASSUME NEW r \in Divisions' PROVE r \in Divisions
    OBVIOUS
  <2>1. r \in 0 .. MaxRows
    BY DEF Divisions
  <2>2. CASE \E i \in DOMAIN tasks' : Divides(r, tasks'[i])
    <3>1. PICK i \in DOMAIN tasks' : Divides(r, tasks'[i])
      BY <2>2
    <3>2. i + 1 \in DOMAIN tasks /\ Divides(r, tasks[i + 1])
      BY <3>1, SubmitMoves
    <3>3. QED
      BY <2>1, <3>2 DEF Divisions
  <2>3. CASE \E p \in Pending' : Divides(r, p)
    <3>1. PICK p \in Pending' : Divides(r, p)
      BY <2>3
    <3>2. p \in Pending \/ (p = tasks[1] /\ 1 \in DOMAIN tasks)
      BY SubmitMoves
    <3>3. QED
      BY <2>1, <3>1, <3>2 DEF Divisions
  <2>4. QED
    BY <2>2, <2>3 DEF Divisions
<1>3. Cardinality(Divisions') <= Cardinality(Divisions)
  BY <1>2, Counted, PartOfASet
<1>4. /\ Cardinality(Pending') <= Cardinality(Pending) + 1
      /\ Cardinality(Asked') <= Cardinality(Asked) + 1
  BY SubmitMoves, Counted, OneMore
<1>5. LoopPart \in Nat /\ LoopPart' = LoopPart
  BY <1>1 DEF LoopPart
<1>6. Len(tasks) \in Nat /\ Len(tasks') \in Nat /\ Len(tasks') = Len(tasks) - 1
  <2>1. Len(tasks) # 0
    BY DEF Submit, TypeOK
  <2>2. QED
    BY <2>1, SubmitMoves
<1>7. QED
  BY <1>1, <1>3, <1>4, <1>5, <1>6, LoopDescends

\* A split leaves one row fewer at which a page can be split.
LEMMA SplitDescends ==
  ASSUME TypeOK, PagesApart, NEW p \in Parts, SplitPage(p)
  PROVE  Stage' = Stage /\ StageSteps' \in 0 .. StageSteps - 1
<1>1. pc = "loop" /\ pc' = "loop" /\ batch # {}
  BY DEF SplitPage
<1>2. p[2] > MinChunk
  BY DEF SplitPage, Splittable
<1>3. PICK r \in 0 .. MaxRows :
        /\ Divides(r, p) /\ ~ Divides(r, LeftHalf(p)) /\ ~ Divides(r, RightHalf(p))
        /\ \A s \in 0 .. MaxRows :
             Divides(s, LeftHalf(p)) \/ Divides(s, RightHalf(p)) => Divides(s, p)
        /\ \A q \in Parts : Disjoint(p, q) => ~ Divides(r, q)
  BY <1>2, HalvesApart
<1>4. p \in Pending /\ Pending' = Pending \ {p} /\ Asked' = Asked
  BY SplitMoves
<1>5. \A i \in DOMAIN tasks' : \/ tasks'[i] = LeftHalf(p)
                              \/ tasks'[i] = RightHalf(p)
                              \/ \E j \in DOMAIN tasks : tasks'[i] = tasks[j]
  BY SplitMoves
<1>6. r \in Divisions
  BY <1>3, <1>4 DEF Divisions
<1>7. r \notin Divisions'
  <2>1. ASSUME NEW i \in DOMAIN tasks' PROVE ~ Divides(r, tasks'[i])
    <3>1. ASSUME NEW j \in DOMAIN tasks PROVE ~ Divides(r, tasks[j])
      <4>1. tasks[j] \in Parts
        BY DEF TypeOK
      <4>2. Disjoint(p, tasks[j])
        BY <1>4, DisjointSymmetric DEF PagesApart
      <4>3. QED
        BY <1>3, <4>1, <4>2
    <3>2. QED
      BY <1>3, <1>5, <3>1
  <2>2. ASSUME NEW q \in Pending' PROVE ~ Divides(r, q)
    <3>1. q \in Parts /\ Disjoint(p, q)
      BY <1>4 DEF PagesApart, Pending
    <3>2. QED
      BY <1>3, <3>1
  <2>3. QED
    BY <2>1, <2>2 DEF Divisions
<1>8. Divisions' \subseteq Divisions
  <2> SUFFICES ASSUME NEW s \in Divisions' PROVE s \in Divisions
    OBVIOUS
  <2>1. s \in 0 .. MaxRows
    BY DEF Divisions
  <2>2. CASE \E i \in DOMAIN tasks' : Divides(s, tasks'[i])
    <3>1. Divides(s, p) \/ \E j \in DOMAIN tasks : Divides(s, tasks[j])
      BY <1>3, <1>5, <2>1, <2>2
    <3>2. QED
      BY <1>4, <2>1, <3>1 DEF Divisions
  <2>3. CASE \E q \in Pending' : Divides(s, q)
    BY <1>4, <2>1, <2>3 DEF Divisions
  <2>4. QED
    BY <2>2, <2>3 DEF Divisions
<1>9. Cardinality(Divisions') < Cardinality(Divisions)
  <2>1. Divisions # Divisions' /\ Divisions' \in SUBSET Divisions
    BY <1>6, <1>7, <1>8
  <2>2. QED
    BY <2>1, Counted, PartOfASet
<1>10. Cardinality(Pending') < Cardinality(Pending)
  <2>1. Pending # Pending' /\ Pending' \in SUBSET Pending
    BY <1>4
  <2>2. QED
    BY <2>1, Counted, PartOfASet
<1>11. LoopPart = 1
  BY <1>1 DEF LoopPart
<1>12. Len(tasks) \in Nat /\ Len(tasks') \in Nat /\ Len(tasks') = Len(tasks) + 2
  BY SplitMoves
<1>13. Cardinality(Asked') = Cardinality(Asked)
  BY <1>4
<1>14. QED
  BY <1>1, <1>9, <1>10, <1>11, <1>12, <1>13, LoopDescends

\* The other steps of the loop leave the queue as it is.
LEMMA PageDescends ==
  ASSUME TypeOK, pc \in {"loop", "write"}, pc' \in {"loop", "write"}, tasks' = tasks,
         Pending' \subseteq Pending, Asked' \subseteq Asked,
         \/ Pending' # Pending
         \/ Asked' # Asked /\ LoopPart' = LoopPart
         \/ LoopPart' < LoopPart
  PROVE  Stage' = Stage /\ StageSteps' \in 0 .. StageSteps - 1
<1>1. Divisions' \subseteq Divisions
  BY DEF Divisions
<1>2. Cardinality(Divisions') <= Cardinality(Divisions)
  BY <1>1, Counted, PartOfASet
<1>3. /\ Cardinality(Pending') <= Cardinality(Pending)
      /\ Pending' # Pending => Cardinality(Pending') < Cardinality(Pending)
  BY Counted, PartOfASet
<1>4. /\ Cardinality(Asked') <= Cardinality(Asked)
      /\ Asked' # Asked => Cardinality(Asked') < Cardinality(Asked)
  BY Counted, PartOfASet
<1>5. Len(tasks) \in Nat /\ Len(tasks') \in Nat /\ Len(tasks') = Len(tasks)
  BY DEF TypeOK
<1>6. QED
  BY <1>2, <1>3, <1>4, <1>5, LoopDescends

\* A run ends after finitely many steps, for any sizes, queues, answers, failures and
\* splits: its stages come in one order, and each has a bounded number of steps; with
\* the fairness of Fetch and of the run, which is not reasoned about here, EveryRunEnds
\* follows.
THEOREM RunsDescend == Spec => NearerToTheEnd
<1> DEFINE Later == Stage' \in 1 .. Stage - 1
           Nearer == Stage' = Stage /\ StageSteps' \in 0 .. StageSteps - 1
           Same == SourceChanges /\ Stage' = Stage /\ StageSteps' = StageSteps
<1>1. ASSUME IndInv, WithinPlan, PagesApart, [Next]_vars, pc # "idle", vars' # vars
      PROVE  pc' = "idle" \/ Later \/ Nearer \/ Same
  <2>0. TypeOK /\ CurrentPart
    BY <1>1 DEF IndInv
  <2>1. CASE Submit
    BY <2>0, <2>1, SubmitDescends
  <2>2. ASSUME NEW p \in Parts, AnswerPage(p) PROVE Nearer
    <3>1. /\ page[p] = InFlight /\ UNCHANGED <<pc, tasks, batch>>
          /\ page'[p] \notin {InFlight, Idle}
          /\ \A q \in Parts : q # p => page'[q] = page[q]
      BY <2>0, <2>2, VersionAssumption
         DEF AnswerPage, TypeOK, InFlight, Idle, Payload, Failed
    <3>2. page[p] # Idle
      BY <3>1 DEF InFlight, Idle
    <3>3. Pending' = Pending /\ Asked' = Asked \ {p} /\ p \in Asked /\ p \in Pending
      BY <3>1, <3>2 DEF Pending, Asked
    <3>4. pc \in {"loop", "write"} /\ pc' \in {"loop", "write"}
      BY <1>1, <3>1, <3>3 DEF WithinPlan
    <3>5. LoopPart' = LoopPart
      BY <3>1 DEF LoopPart
    <3>6. QED
      BY <2>0, <3>1, <3>3, <3>4, <3>5, PageDescends
  <2>3. CASE Wait \/ \E p \in Parts : WritePart(p)
    <3>1. /\ UNCHANGED <<tasks, page>> /\ pc = "loop"
          /\ \/ batch = {} /\ batch' # {} /\ pc' = "loop"
             \/ batch # {} /\ batch' = batch /\ pc' = "write"
      BY <2>3 DEF Wait, WritePart
    <3>2. LoopPart' < LoopPart
      BY <3>1 DEF LoopPart
    <3>3. Pending' = Pending /\ Asked' = Asked
      BY <3>1 DEF Pending, Asked
    <3>4. QED
      BY <2>0, <3>1, <3>2, <3>3, PageDescends
  <2>4. ASSUME NEW p \in Parts, SplitPage(p) PROVE Nearer
    BY <1>1, <2>0, <2>4, SplitDescends
  <2>5. CASE RecordPart
    <3>1. /\ cur \in Parts /\ page[cur] \in Versions /\ pc = "write" /\ pc' = "loop"
          /\ page' = [page EXCEPT ![cur] = Idle] /\ tasks' = tasks
      BY <2>0, <2>5 DEF RecordPart, CurrentPart, TypeOK
    <3>2. /\ page'[cur] = Idle /\ page[cur] \notin {Idle, InFlight} /\ Idle # InFlight
          /\ \A q \in Parts : q # cur => page'[q] = page[q]
      BY <2>0, <3>1, VersionAssumption DEF TypeOK, Idle, InFlight
    <3>3. Pending' = Pending \ {cur} /\ cur \in Pending /\ Asked' = Asked
      BY <3>1, <3>2 DEF Pending, Asked
    <3>4. QED
      BY <2>0, <3>1, <3>3, PageDescends
  <2>6. CASE \/ CountMismatch \/ IOFailure \/ Crash \/ Return
             \/ \E p \in Parts : RejectPage(p)
    BY <2>6 DEF CountMismatch, IOFailure, Crash, Return, RejectPage, Raise
  <2>7. CASE \/ CountVerified \/ BeginPublish \/ CopyParts \/ RemoveStaleOld \/ MoveAside
             \/ InstallOver \/ RemoveOld \/ InstallNew \/ Discarded
    <3>1. \/ pc = "discard" /\ pc' = "loop"
          \/ pc = "loop" /\ pc' = "publish"
          \/ pc = "publish" /\ pc' = "copy"
          \/ pc = "copy" /\ pc' = "swap"
          \/ pc = "swap" /\ pc' = "aside"
          \/ pc = "aside" /\ pc' = "install"
          \/ pc = "install" /\ pc' = "cleanup"
          \/ pc = "cleanup" /\ pc' = "done"
          \/ pc = "swap" /\ pc' = "done"
      BY <2>7 DEF CountVerified, LoopEnded, BeginPublish, CopyParts, RemoveStaleOld,
                  MoveAside, InstallOver, RemoveOld, InstallNew, Discarded, BeginLoop
    <3>2. QED
      BY <3>1 DEF Stage
  <2>8. CASE TearOld
    <3>1. /\ pc \in {"swap", "cleanup"} /\ pc' = pc
          /\ old \notin {Missing, Partial} /\ old' = Partial
      BY <2>8 DEF TearOld
    <3>2. StageSteps = 1 /\ StageSteps' = 0
      BY <3>1 DEF StageSteps
    <3>3. QED
      BY <3>1, <3>2 DEF Stage
  <2>9. ASSUME NEW p \in Parts, RemovePartFile(p) PROVE Nearer
    <3>1. /\ pc \in {"discard", "done"} /\ pc' = pc /\ ckpt' = ckpt
          /\ files[p] # Absent /\ files' = [files EXCEPT ![p] = Absent]
      BY <2>9 DEF RemovePartFile, workVars
    <3>2. Stored' = Stored \ {p} /\ p \in Stored
      BY <2>0, <3>1 DEF Stored, TypeOK
    <3>3. Cardinality(Stored') < Cardinality(Stored)
      <4>1. Stored # Stored' /\ Stored' \in SUBSET Stored
        BY <3>2
      <4>2. QED
        BY <4>1, Counted, PartOfASet
    <3>4. StageSteps' \in 0 .. StageSteps - 1
      BY <3>1, <3>3, Counted DEF StageSteps
    <3>5. QED
      BY <3>1, <3>4 DEF Stage
  <2>10. CASE RemoveCheckpoint
    <3>1. /\ pc \in {"discard", "done"} /\ pc' = pc /\ files' = files
          /\ ckpt # NoCheckpoint /\ ckpt' = NoCheckpoint
      BY <2>10 DEF RemoveCheckpoint
    <3>2. Stored' = Stored
      BY <3>1 DEF Stored
    <3>3. StageSteps = Cardinality(Stored) + 1
      BY <3>1 DEF StageSteps
    <3>4. StageSteps' = Cardinality(Stored)
      BY <3>1, <3>2, Counted DEF StageSteps
    <3>5. StageSteps' \in 0 .. StageSteps - 1
      BY <3>3, <3>4, Counted
    <3>6. QED
      BY <3>1, <3>5 DEF Stage
  <2>11. CASE SourceChanges
    <3>1. UNCHANGED <<pc, tasks, page, batch, files, ckpt, old>>
      BY <2>11 DEF SourceChanges, runVars, workVars, dirVars
    <3>2. /\ Divisions' = Divisions /\ Pending' = Pending /\ Asked' = Asked
          /\ Stored' = Stored /\ LoopPart' = LoopPart
      BY <3>1 DEF Divisions, Pending, Asked, Stored, LoopPart
    <3>3. Stage' = Stage /\ StageSteps' = StageSteps
      BY <3>1, <3>2 DEF Stage, StageSteps
    <3>4. QED
      BY <2>11, <3>3
  <2>12. CASE StartResume \/ StartFresh
    BY <1>1, <2>12 DEF StartResume, StartFresh
  <2>13. QED
    <3> HIDE DEF Later, Nearer, Same
    <3>1. QED
      BY <1>1, <2>1, <2>2, <2>3, <2>4, <2>5, <2>6, <2>7, <2>8, <2>9, <2>10, <2>11, <2>12
         DEF Next, Fetch, Schedule, Publish, Remove
<1>2. IndInv /\ WithinPlan /\ PagesApart /\ [Next]_vars =>
        [pc # "idle" => pc' = "idle" \/ Later \/ Nearer \/ Same]_vars
  BY <1>1
<1>3. QED
  BY <1>2, Invariance, PagesStayApart, PTL DEF Spec, NearerToTheEnd
================================================================================
