--------------------------- MODULE DuckSync_proofs ---------------------------
(***************************************************************************)
(* Proofs about DuckSync, for every number of rows, size of a page, number *)
(* of attempts and history of the source.                                  *)
(*                                                                         *)
(* The first part is about paging: the pages of a version do not overlap,  *)
(* have at most Count rows, are not empty before the end, and together have*)
(* every row.  Where such a fact wants an induction, the least element of a*)
(* set of numbers takes its place.  The second part is the invariant.      *)
(***************************************************************************)
EXTENDS DuckSync, FiniteSetTheorems, TLAPS

LEMMA LeastElement ==
  ASSUME NEW S \in SUBSET Nat, S # {}
  PROVE  \E m \in S : \A n \in S : m <= n
<1> DEFINE R == {ss \in Nat \X Nat : ss[1] < ss[2]}
<1>1. IsWellFoundedOn(R, Nat)
  BY NatLessThanWellFounded DEF OpToRel
<1>2. PICK m \in S : \A n \in S : ~ (<<n, m>> \in R)
  <2> HIDE DEF R
  <2>1. QED BY <1>1, WFMin
<1>3. ASSUME NEW n \in S PROVE m <= n
  <2>1. <<n, m>> \in Nat \X Nat /\ ~ (<<n, m>> \in R)
    BY <1>2
  <2>2. ~ (n < m)
    BY <2>1
  <2>3. QED BY <2>2
<1>4. QED BY <1>3

\* Products with Count.
LEMMA Offsets ==
  ASSUME NEW k \in Nat
  PROVE  /\ k * Count \in Nat
         /\ (k + 1) * Count = k * Count + Count
         /\ k <= k * Count
         /\ \A j \in Nat : k <= j => k * Count <= j * Count
<1>1. Count \in Nat \ {0}
  BY SyncAssumption
<1>2. k * Count \in Nat /\ (k + 1) * Count = k * Count + Count
  BY <1>1
<1>3. k <= k * Count
  BY <1>1
<1>4. ASSUME NEW j \in Nat, k <= j PROVE k * Count <= j * Count
  <2>1. j * Count = k * Count + (j - k) * Count
    BY <1>1
  <2>2. (j - k) * Count \in Nat
    BY <1>1, <1>4
  <2>3. QED BY <1>1, <2>1, <2>2
<1>5. QED BY <1>2, <1>3, <1>4

LEMMA OffsetZero == 0 * Count = 0 /\ Count \in Nat \ {0} /\ MaxKey \in Nat
BY SyncAssumption

LEMMA RowsFinite ==
  ASSUME NEW v \in Versions, NEW S \in SUBSET RowsIn[v]
  PROVE  /\ RowsIn[v] \subseteq Keys
         /\ S \subseteq Keys
         /\ IsFiniteSet(S)
         /\ Cardinality(S) \in Nat
         /\ Cardinality(S) <= Cardinality(RowsIn[v])
         /\ Cardinality(S) <= MaxKey
         /\ Cardinality(RowsIn[v]) \in 0 .. MaxKey
<1>1. RowsIn[v] \subseteq Keys /\ MaxKey \in Nat
  BY SyncAssumption DEF Keys
<1>2. IsFiniteSet(Keys) /\ Cardinality(Keys) = MaxKey
  BY <1>1, FS_Interval DEF Keys
<1>3. IsFiniteSet(RowsIn[v]) /\ Cardinality(RowsIn[v]) <= MaxKey
  BY <1>1, <1>2, FS_Subset
<1>4. IsFiniteSet(S) /\ Cardinality(S) <= Cardinality(RowsIn[v])
  BY <1>3, FS_Subset
<1>5. Cardinality(S) \in Nat /\ Cardinality(RowsIn[v]) \in Nat
  BY <1>3, <1>4, FS_CardinalityType
<1>6. QED BY <1>1, <1>3, <1>4, <1>5

\* The place of a row is a number up to that of the last.
LEMMA RankRange ==
  ASSUME NEW v \in Versions, NEW key \in Int
  PROVE  /\ Rank(v, key) \in Nat
         /\ Rank(v, key) <= Cardinality(RowsIn[v])
         /\ Rank(v, key) <= MaxKey
         /\ key \in RowsIn[v] => 1 <= Rank(v, key)
<1> DEFINE U == {j \in RowsIn[v] : j <= key}
<1>1. U \in SUBSET RowsIn[v]
  OBVIOUS
<1>2. Rank(v, key) = Cardinality(U)
  BY DEF Rank
<1>3. IsFiniteSet(U) /\ Cardinality(U) \in Nat
      /\ Cardinality(U) <= Cardinality(RowsIn[v]) /\ Cardinality(U) <= MaxKey
  BY <1>1, RowsFinite
<1>4. ASSUME key \in RowsIn[v] PROVE 1 <= Cardinality(U)
  <2>1. key \in U
    BY <1>4
  <2>2. Cardinality(U) # 0
    <3> HIDE DEF U
    <3>1. QED BY <1>3, <2>1, FS_EmptySet
  <2>3. QED BY <1>3, <2>2
<1>5. QED BY <1>2, <1>3, <1>4

\* Rows have different places.
LEMMA RankIncreases ==
  ASSUME NEW v \in Versions, NEW a \in RowsIn[v], NEW b \in RowsIn[v], a < b
  PROVE  Rank(v, a) < Rank(v, b)
<1> DEFINE UA == {j \in RowsIn[v] : j <= a}
           UB == {j \in RowsIn[v] : j <= b}
<1>1. RowsIn[v] \subseteq Int
  BY RowsFinite DEF Keys
<1>2. UA \subseteq UB /\ b \in UB /\ b \notin UA
  BY <1>1
<1>3. IsFiniteSet(UB) /\ Cardinality(UB) \in Nat /\ Cardinality(UA) \in Nat
  <2>1. UA \in SUBSET RowsIn[v] /\ UB \in SUBSET RowsIn[v]
    OBVIOUS
  <2>2. QED BY <2>1, RowsFinite
<1>4. Cardinality(UA) < Cardinality(UB)
  <2> HIDE DEF UA, UB
  <2>1. QED BY <1>2, <1>3, FS_Subset
<1>5. QED BY <1>4 DEF Rank

\* A page has at most Count rows.
LEMMA PageSize ==
  ASSUME NEW v \in Versions, NEW k \in Nat
  PROVE  /\ PageOf(v, k) \subseteq RowsIn[v]
         /\ IsFiniteSet(PageOf(v, k))
         /\ Cardinality(PageOf(v, k)) \in Nat
         /\ Cardinality(PageOf(v, k)) <= Count
<1> DEFINE P == PageOf(v, k)
           place == [key \in P |-> Rank(v, key) - k * Count]
<1>1. P \in SUBSET RowsIn[v]
  BY DEF PageOf
<1>2. IsFiniteSet(P) /\ Cardinality(P) \in Nat
  BY <1>1, RowsFinite
<1>3. RowsIn[v] \subseteq Int /\ Count \in Nat /\ k * Count \in Nat
      /\ (k + 1) * Count = k * Count + Count
  <2>1. RowsIn[v] \subseteq Int
    BY RowsFinite DEF Keys
  <2>2. k * Count \in Nat /\ (k + 1) * Count = k * Count + Count
    BY Offsets
  <2>3. QED BY <2>1, <2>2, OffsetZero
<1>4. ASSUME NEW key \in P PROVE place[key] \in 1 .. Count
  <2>1. Rank(v, key) \in Nat
    BY <1>1, <1>3, RankRange
  <2>2. k * Count < Rank(v, key) /\ Rank(v, key) <= (k + 1) * Count
    BY DEF PageOf
  <2>3. QED BY <1>3, <2>1, <2>2
<1>5. ASSUME NEW a \in P, NEW b \in P, place[a] = place[b] PROVE a = b
  <2>1. Rank(v, a) \in Nat /\ Rank(v, b) \in Nat /\ a \in Int /\ b \in Int
    BY <1>1, <1>3, RankRange
  <2>2. Rank(v, a) = Rank(v, b)
    BY <1>3, <1>5, <2>1
  <2>3. ~ (a < b) /\ ~ (b < a)
    BY <1>1, <2>1, <2>2, RankIncreases
  <2>4. QED BY <2>1, <2>3
<1>6. place \in Injection(P, 1 .. Count)
  <2>1. place \in [P -> 1 .. Count]
    BY <1>4
  <2>2. QED BY <1>5, <2>1 DEF Injection, IsInjective
<1>7. Cardinality(P) <= Count
  <2>1. IsFiniteSet(1 .. Count) /\ Cardinality(1 .. Count) = Count
    BY OffsetZero, FS_Interval
  <2> HIDE DEF place, P
  <2>2. QED BY <1>6, <2>1, FS_Injection
<1>8. QED BY <1>1, <1>2, <1>7

\* No row is on two pages.
LEMMA PagesApart ==
  ASSUME NEW v \in Versions, NEW k \in Nat, NEW j \in Nat, k # j
  PROVE  PageOf(v, k) \cap PageOf(v, j) = {}
<1>1. SUFFICES ASSUME NEW key \in PageOf(v, k) \cap PageOf(v, j) PROVE FALSE
  OBVIOUS
<1>2. key \in RowsIn[v] /\ k * Count < Rank(v, key) /\ j * Count < Rank(v, key)
      /\ Rank(v, key) <= (k + 1) * Count /\ Rank(v, key) <= (j + 1) * Count
  BY <1>1 DEF PageOf
<1>3. Rank(v, key) \in Nat
  BY <1>2, RowsFinite, RankRange DEF Keys
<1>4. k * Count \in Nat /\ j * Count \in Nat
      /\ (k + 1) * Count \in Nat /\ (j + 1) * Count \in Nat
  BY Offsets
<1>5. (k + 1 <= j => (k + 1) * Count <= j * Count)
      /\ (j + 1 <= k => (j + 1) * Count <= k * Count)
  <2>1. k + 1 \in Nat /\ j + 1 \in Nat
    OBVIOUS
  <2>2. QED BY <2>1, Offsets
<1>6. k + 1 <= j \/ j + 1 <= k
  OBVIOUS
<1>7. QED BY <1>2, <1>3, <1>4, <1>5, <1>6

\* A page that starts before the last row has one.
LEMMA PageNotEmpty ==
  ASSUME NEW v \in Versions, NEW k \in Nat, k * Count < Cardinality(RowsIn[v])
  PROVE  PageOf(v, k) # {}
<1> DEFINE Beyond == {j \in Nat : k * Count < Rank(v, j)}
<1>1. k * Count \in Nat /\ (k + 1) * Count = k * Count + Count
      /\ MaxKey \in Nat /\ Count \in Nat \ {0}
  BY Offsets, OffsetZero
<1>2. RowsIn[v] \subseteq Keys /\ Cardinality(RowsIn[v]) \in Nat
  BY RowsFinite
<1>3. MaxKey \in Beyond
  <2>1. {j \in RowsIn[v] : j <= MaxKey} = RowsIn[v]
    BY <1>1, <1>2 DEF Keys
  <2>2. QED BY <1>1, <2>1 DEF Rank
<1>4. PICK m \in Beyond : \A n \in Beyond : m <= n
  <2>1. Beyond \in SUBSET Nat /\ Beyond # {}
    BY <1>3
  <2> HIDE DEF Beyond
  <2>2. QED BY <2>1, LeastElement
<1>5. m \in Nat /\ k * Count < Rank(v, m)
  BY <1>4
<1>6. m # 0
  <2>1. {j \in RowsIn[v] : j <= 0} = {}
    BY <1>1, <1>2 DEF Keys
  <2>2. Rank(v, 0) = 0
    BY <2>1, FS_EmptySet DEF Rank
  <2>3. QED BY <1>1, <1>5, <2>2
<1> DEFINE U == {j \in RowsIn[v] : j <= m - 1}
           W == {j \in RowsIn[v] : j <= m}
<1>7. Cardinality(U) <= k * Count /\ Cardinality(U) \in Nat /\ IsFiniteSet(U)
  <2>1. m - 1 \in Nat /\ ~ (m <= m - 1)
    BY <1>5, <1>6
  <2>2. m - 1 \notin Beyond
    BY <1>4, <2>1
  <2>3. Cardinality(U) = Rank(v, m - 1)
    BY DEF Rank
  <2>4. U \in SUBSET RowsIn[v]
    OBVIOUS
  <2>5. IsFiniteSet(U) /\ Cardinality(U) \in Nat
    BY <2>4, RowsFinite
  <2>6. QED BY <1>1, <2>1, <2>2, <2>3, <2>5
<1>8. W = IF m \in RowsIn[v] THEN U \cup {m} ELSE U
  BY <1>2, <1>5 DEF Keys
<1>9. k * Count < Cardinality(W)
  BY <1>5 DEF Rank
<1>10. m \in RowsIn[v]
  <2> HIDE DEF U, W
  <2>1. W # U
    BY <1>1, <1>7, <1>9
  <2>2. QED BY <1>8, <2>1
<1>11. Cardinality(W) = Cardinality(U) + 1
  <2>1. W = U \cup {m} /\ m \notin U
    BY <1>5, <1>8, <1>10
  <2> HIDE DEF U, W
  <2>2. QED BY <1>7, <2>1, FS_AddElement
<1>12. Rank(v, m) = Cardinality(W)
  BY DEF Rank
<1>13. Rank(v, m) <= (k + 1) * Count
  <2> HIDE DEF U, W
  <2>1. QED BY <1>1, <1>7, <1>11, <1>12
<1>14. QED BY <1>5, <1>10, <1>13 DEF PageOf

\* Every row is on one of the pages that the number of rows makes.
LEMMA EveryRowOnAPage ==
  ASSUME NEW v \in Versions, NEW key \in RowsIn[v]
  PROVE  \E k \in Pages(Cardinality(RowsIn[v])) : key \in PageOf(v, k)
<1> DEFINE Enough == {k \in Nat : Rank(v, key) <= (k + 1) * Count}
<1>1. MaxKey \in Nat /\ Count \in Nat \ {0}
  BY OffsetZero
<1>2. Rank(v, key) \in Nat /\ Rank(v, key) <= MaxKey /\ 1 <= Rank(v, key)
      /\ Rank(v, key) <= Cardinality(RowsIn[v]) /\ Cardinality(RowsIn[v]) \in Nat
  <2>1. key \in Int /\ Cardinality(RowsIn[v]) \in Nat
    BY RowsFinite DEF Keys
  <2>2. QED BY <2>1, RankRange
<1>3. MaxKey \in Enough
  <2>1. MaxKey + 1 <= (MaxKey + 1) * Count /\ (MaxKey + 1) * Count \in Nat
    BY <1>1, Offsets
  <2>2. QED BY <1>1, <1>2, <2>1
<1>4. PICK k \in Enough : \A n \in Enough : k <= n
  <2>1. Enough \in SUBSET Nat /\ Enough # {}
    BY <1>3
  <2> HIDE DEF Enough
  <2>2. QED BY <2>1, LeastElement
<1>5. k \in Nat /\ Rank(v, key) <= (k + 1) * Count /\ k <= MaxKey
  BY <1>3, <1>4
<1>6. k * Count < Rank(v, key)
  <2>1. CASE k = 0
    BY <1>2, <2>1, OffsetZero
  <2>2. CASE k # 0
    <3>1. k - 1 \in Nat /\ ~ (k <= k - 1) /\ (k - 1) + 1 = k
      BY <1>5, <2>2
    <3>2. k - 1 \notin Enough
      BY <1>4, <3>1
    <3>3. ~ (Rank(v, key) <= k * Count)
      BY <3>1, <3>2
    <3>4. k * Count \in Nat
      BY <1>5, Offsets
    <3>5. QED BY <1>2, <3>3, <3>4
  <2>3. QED BY <2>1, <2>2
<1>7. k * Count < Cardinality(RowsIn[v])
  <2>1. k * Count \in Nat
    BY <1>5, Offsets
  <2>2. QED BY <1>2, <1>6, <2>1
<1>8. k \in Pages(Cardinality(RowsIn[v])) /\ key \in PageOf(v, k)
  BY <1>1, <1>5, <1>6, <1>7 DEF Pages, PageOf
<1>9. QED BY <1>8
------------------------------------------------------------------------------
(***************************************************************************)
(* The invariant.                                                          *)
(***************************************************************************)
\* What belongs to an attempt is empty outside it; only pages that are asked
\* for and not yet merged are in flight or answered, one at a time if the
\* version is the sequential one.
Attempts ==
  /\ pc # "pages" => page = NoPages /\ done = {} /\ processed = 0
  /\ \A k \in AllPages : page[k] # Idle => k \in Pages(total) \ done
  /\ mode = "sequential" =>
       \A j, k \in AllPages : page[j] # Idle /\ page[k] # Idle => j = k
  /\ outcome = "success" => pc = "idle"

\* Nothing is newer than the source; in the sequential version, nothing that is
\* merged is newer than a page that waits.
Ages ==
  /\ Age[began] <= Age[ver]
  /\ \A key \in Present(table) : Age[table[key]] <= Age[ver]
  /\ \A k \in AllPages : page[k] \in Versions => Age[page[k]] <= Age[ver]
  /\ mode = "sequential" =>
       \A k \in AllPages : page[k] \in Versions =>
         \A key \in Present(table) : Age[table[key]] <= Age[page[k]]

\* The rows of the pages that are done with.
DoneRows == {key \in RowsIn[ver] : \E k \in done : key \in PageOf(ver, k)}

\* While the source is what it was when the call began, the count is that of its
\* rows, and those of the pages done with are in the table.
Stable ==
  pc \in {"drop", "pages"} /\ ver = began =>
    /\ total = Cardinality(RowsIn[ver])
    /\ \A k \in AllPages : page[k] \in Versions => page[k] = ver
    /\ processed = Cardinality(DoneRows)
    /\ \A key \in DoneRows : key \in Present(table) /\ table[key] = ver
    /\ pc = "pages" /\ replace => Present(table) \subseteq RowsIn[ver]

IndInv ==
  /\ TypeOK
  /\ Attempts
  /\ Ages
  /\ Stable
  /\ ReplacedOnly
  /\ SyncComplete

LEMMA PageNumbers ==
  /\ AllPages \subseteq Nat
  /\ \A n \in 0 .. MaxKey :
       /\ Pages(n) \subseteq AllPages
       /\ IsFiniteSet(Pages(n))
<1>1. MaxKey \in Nat
  BY OffsetZero
<1>2. AllPages \subseteq 0 .. MaxKey
  BY DEF AllPages, Pages
<1>3. ASSUME NEW n \in 0 .. MaxKey PROVE Pages(n) \subseteq AllPages
  <2>1. \A k \in Nat : k * Count \in Nat
    BY Offsets
  <2>2. QED BY <1>1, <2>1 DEF AllPages, Pages
<1>4. IsFiniteSet(AllPages)
  <2>1. IsFiniteSet(0 .. MaxKey)
    BY <1>1, FS_Interval
  <2>2. QED BY <1>2, <2>1, FS_Subset
<1>5. QED BY <1>1, <1>2, <1>3, <1>4, FS_Subset

LEMMA Values ==
  /\ \A v \in Versions \cup {Before} : Age[v] \in Nat /\ v # Absent
  /\ \A v \in Versions : /\ Age[Before] <= Age[v]
                         /\ v # Idle /\ v # InFlight /\ v # Transient /\ v # Fatal
  /\ Idle # InFlight /\ Transient # InFlight /\ Fatal # InFlight
  /\ Idle # Transient /\ Idle # Fatal /\ Transient # Fatal
  /\ NoTable \notin Tables
BY SyncAssumption, VersionAssumption, NoTableIsNone
   DEF Absent, Idle, InFlight, Transient, Fatal

LEMMA RowsPresent ==
  ASSUME table \in Tables \cup {NoTable}
  PROVE  /\ Present(table) \subseteq Keys
         /\ IsFiniteSet(Present(table))
         /\ Cardinality(Present(table)) \in Nat
         /\ \A key \in Present(table) :
              table \in Tables /\ table[key] \in Versions \cup {Before}
<1>1. IsFiniteSet(Keys)
  BY OffsetZero, FS_Interval DEF Keys
<1>2. Present(table) \in SUBSET Keys
  BY DEF Present
<1>3. IsFiniteSet(Present(table)) /\ Cardinality(Present(table)) \in Nat
  BY <1>1, <1>2, FS_Subset, FS_CardinalityType
<1>4. ASSUME NEW key \in Present(table)
      PROVE  table \in Tables /\ table[key] \in Versions \cup {Before}
  BY DEF Present, Tables
<1>5. QED BY <1>2, <1>3, <1>4

LEMMA Initially == Init => IndInv
<1>1. SUFFICES ASSUME Init PROVE IndInv
  OBVIOUS
<1> USE Values
<1>2. MaxKey \in Nat /\ MaxAttempts \in Nat /\ MaxFaults \in Nat /\ Count \in Nat
      /\ RowsIn \in [Versions \cup {Before} -> SUBSET Keys]
  BY SyncAssumption DEF Keys
<1>3. TypeOK
  <2>1. table \in Tables
    BY <1>1, <1>2 DEF Init, Tables
  <2>2. Cardinality({}) = 0 /\ 0 * Count = 0
    BY FS_EmptySet, OffsetZero
  <2>3. NoPages \in [AllPages -> Versions \cup {Idle, InFlight, Transient, Fatal}]
    BY DEF NoPages
  <2>4. processed \in 0 .. Cardinality(done) * Count /\ done \subseteq Pages(total)
    BY <1>1, <2>2 DEF Init
  <2>5. page \in [AllPages -> Versions \cup {Idle, InFlight, Transient, Fatal}]
    BY <1>1, <2>3 DEF Init
  <2>6. /\ attempt \in 0 .. MaxAttempts
        /\ total \in 0 .. MaxKey
        /\ faults \in 0 .. MaxFaults
    BY <1>1, <1>2 DEF Init
  <2>7. /\ ver \in Versions /\ began \in Versions /\ replace \in BOOLEAN
        /\ pc = "idle" /\ mode = "sequential" /\ outcome = "none"
    BY <1>1 DEF Init
  <2>8. QED BY <2>1, <2>4, <2>5, <2>6, <2>7 DEF TypeOK
<1>4. Attempts
  BY <1>1 DEF Init, Attempts, NoPages
<1>5. Ages
  <2>1. ver \in Versions /\ began = ver /\ Age[ver] \in Nat
    BY <1>1 DEF Init
  <2>2. \A key \in Present(table) : table[key] = Before
    BY <1>1 DEF Init, Present
  <2>3. \A k \in AllPages : page[k] \notin Versions
    BY <1>1 DEF Init, NoPages
  <2>4. QED BY <2>1, <2>2, <2>3 DEF Ages
<1>6. Stable /\ ReplacedOnly /\ SyncComplete
  BY <1>1 DEF Init, Stable, ReplacedOnly, SyncComplete
<1>7. QED BY <1>3, <1>4, <1>5, <1>6 DEF IndInv

\* A call starts.
LEMMA CallKeeps ==
  ASSUME IndInv, pc = "idle", NEW m \in {"sequential", "parallel"},
         NEW r \in BOOLEAN, Call(m, r),
         UNCHANGED <<ver, attemptVars, table, faults>>
  PROVE  IndInv'
<1> USE DEF IndInv
<1>1. /\ ver' = ver /\ table' = table /\ faults' = faults
      /\ total' = total /\ page' = page /\ done' = done /\ processed' = processed
      /\ mode' = m /\ replace' = r /\ began' = ver /\ attempt' = 1
      /\ pc' = "count" /\ outcome' = "none"
  BY DEF Call, attemptVars
<1>2. TypeOK'
  <2>1. 1 \in 0 .. MaxAttempts
    BY SyncAssumption
  <2>2. QED BY <1>1, <2>1 DEF TypeOK
<1>3. page = NoPages /\ done = {} /\ processed = 0
  BY DEF Attempts
<1>4. Attempts'
  BY <1>1, <1>3 DEF Attempts, NoPages
<1>5. Ages'
  <2>1. Age[ver] \in Nat
    BY Values DEF TypeOK
  <2>2. \A k \in AllPages : page[k] \notin Versions
    BY <1>3, Values DEF NoPages
  <2>3. QED BY <1>1, <2>1, <2>2 DEF Ages
<1>6. Stable' /\ ReplacedOnly' /\ SyncComplete'
  BY <1>1 DEF Stable, ReplacedOnly, SyncComplete
<1>7. QED BY <1>2, <1>4, <1>5, <1>6

\* An attempt ends.
LEMMA EndKeeps ==
  ASSUME IndInv, EndAttempt, UNCHANGED <<ver, mode, replace, began, table>>,
         pc' \in {"idle", "count"}, attempt' \in 0 .. MaxAttempts,
         faults' \in 0 .. MaxFaults,
         outcome' \in {"none", "success", "failed", "rejected"},
         outcome' = "success" => pc' = "idle" /\ SyncComplete'
  PROVE  IndInv'
<1> USE DEF IndInv
<1>1. /\ ver' = ver /\ table' = table /\ mode' = mode /\ replace' = replace
      /\ began' = began
      /\ total' = 0 /\ page' = NoPages /\ done' = {} /\ processed' = 0
  BY DEF EndAttempt
<1>2. TypeOK'
  <2>1. Cardinality({}) = 0 /\ 0 * Count = 0 /\ MaxKey \in Nat
    BY FS_EmptySet, OffsetZero
  <2>2. NoPages \in [AllPages -> Versions \cup {Idle, InFlight, Transient, Fatal}]
    BY DEF NoPages
  <2>3. processed' \in 0 .. Cardinality(done') * Count /\ total' \in 0 .. MaxKey
        /\ done' \subseteq Pages(total')
    BY <1>1, <2>1
  <2>4. QED BY <1>1, <2>2, <2>3 DEF TypeOK
<1>3. Attempts'
  BY <1>1 DEF Attempts, NoPages
<1>4. Ages'
  <2>1. \A k \in AllPages : page'[k] \notin Versions
    BY <1>1, Values DEF NoPages
  <2>2. QED BY <1>1, <2>1 DEF Ages
<1>5. Stable' /\ ReplacedOnly'
  BY DEF Stable, ReplacedOnly
<1>6. SyncComplete'
  BY DEF SyncComplete
<1>7. QED BY <1>2, <1>3, <1>4, <1>5, <1>6

\* An attempt fails.
LEMMA FailKeeps ==
  ASSUME IndInv, pc # "idle", NEW e, Fail(e),
         UNCHANGED <<ver, table>>, faults' \in 0 .. MaxFaults
  PROVE  IndInv'
<1>1. outcome # "success"
  BY DEF IndInv, Attempts
<1>2. CASE /\ attempt < MaxAttempts
           /\ attempt' = attempt + 1
           /\ pc' = "count"
           /\ EndAttempt
           /\ UNCHANGED <<mode, replace, began, outcome>>
  <2>1. attempt' \in 0 .. MaxAttempts
    BY <1>2, SyncAssumption DEF IndInv, TypeOK
  <2>2. outcome' \in {"none", "success", "failed", "rejected"}
    BY <1>2 DEF IndInv, TypeOK
  <2>3. QED BY <1>1, <1>2, <2>1, <2>2, EndKeeps
<1>3. CASE EndCall("failed")
  <2>1. attempt' \in 0 .. MaxAttempts
    BY <1>3, SyncAssumption DEF EndCall
  <2>2. QED BY <1>3, <2>1, EndKeeps DEF EndCall
<1>4. QED BY <1>2, <1>3 DEF Fail

LEMMA CountRowsKeeps == IndInv /\ CountRows => IndInv'
<1>1. SUFFICES ASSUME IndInv, CountRows PROVE IndInv'
  OBVIOUS
<1> USE DEF IndInv
<1>2. /\ pc = "count" /\ pc' = "drop" /\ total' = Cardinality(RowsIn[ver])
      /\ UNCHANGED <<ver, mode, replace, began, attempt, page, done, processed,
                     table, outcome, faults>>
  BY <1>1 DEF CountRows, callVars
<1>3. page = NoPages /\ done = {} /\ processed = 0
  BY <1>1, <1>2 DEF Attempts
<1>4. TypeOK'
  <2>1. total' \in 0 .. MaxKey
    BY <1>1, <1>2, RowsFinite DEF TypeOK
  <2>2. QED BY <1>1, <1>2, <1>3, <2>1 DEF TypeOK
<1>5. Attempts'
  BY <1>1, <1>2, <1>3 DEF Attempts, NoPages
<1>6. Ages'
  BY <1>1, <1>2 DEF Ages
<1>7. Stable'
  <2>1. DoneRows' = {}
    BY <1>2, <1>3 DEF DoneRows
  <2>2. processed' = Cardinality(DoneRows')
    BY <1>2, <1>3, <2>1, FS_EmptySet
  <2>3. \A k \in AllPages : page'[k] \notin Versions
    BY <1>2, <1>3, Values DEF NoPages
  <2>4. QED BY <1>2, <2>1, <2>2, <2>3 DEF Stable
<1>8. ReplacedOnly' /\ SyncComplete'
  BY <1>1, <1>2 DEF ReplacedOnly, SyncComplete, Attempts
<1>9. QED BY <1>4, <1>5, <1>6, <1>7, <1>8

LEMMA DropTargetKeeps == IndInv /\ DropTarget => IndInv'
<1>1. SUFFICES ASSUME IndInv, DropTarget PROVE IndInv'
  OBVIOUS
<1> USE DEF IndInv
<1>2. /\ pc = "drop" /\ pc' = "pages"
      /\ table' = IF replace THEN NoTable ELSE table
      /\ UNCHANGED <<ver, mode, replace, began, attempt, total, done, processed,
                     outcome, faults>>
  BY <1>1 DEF DropTarget, callVars
<1>3. page = NoPages /\ done = {} /\ processed = 0
  BY <1>1, <1>2 DEF Attempts
<1>4. /\ page' \in [AllPages -> {Idle, InFlight}]
      /\ \A k \in AllPages :
           page'[k] # Idle => mode = "parallel" /\ k \in Pages(total)
  BY <1>1, Values DEF DropTarget
<1>5. \A k \in AllPages : page'[k] \notin Versions
  BY <1>4, Values
<1>6. TypeOK'
  <2>1. page' \in [AllPages -> Versions \cup {Idle, InFlight, Transient, Fatal}]
    BY <1>4
  <2>2. table' \in Tables \cup {NoTable}
    BY <1>1, <1>2 DEF TypeOK
  <2>3. QED BY <1>1, <1>2, <2>1, <2>2 DEF TypeOK
<1>7. Attempts'
  <2>1. mode = "sequential" => \A k \in AllPages : page'[k] = Idle
    BY <1>4
  <2>2. QED BY <1>1, <1>2, <1>3, <1>4, <2>1 DEF Attempts
<1>8. Present(table') = IF replace THEN {} ELSE Present(table)
  BY <1>2 DEF Present
<1>9. Ages'
  <2>1. \A key \in Present(table') : Age[table'[key]] <= Age[ver]
    BY <1>1, <1>2, <1>8 DEF Ages
  <2>2. QED BY <1>1, <1>2, <1>5, <2>1 DEF Ages
<1>10. Stable'
  <2>1. DoneRows' = {}
    BY <1>2, <1>3 DEF DoneRows
  <2>2. processed' = Cardinality(DoneRows')
    BY <1>2, <1>3, <2>1, FS_EmptySet
  <2>3. QED BY <1>1, <1>2, <1>5, <1>8, <2>1, <2>2 DEF Stable
<1>11. ReplacedOnly'
  <2>1. replace' => Cardinality(Present(table')) = 0
    BY <1>2, <1>8, FS_EmptySet
  <2>2. QED BY <1>2, <1>3, <2>1 DEF ReplacedOnly
<1>12. SyncComplete'
  BY <1>1, <1>2 DEF SyncComplete, Attempts
<1>13. QED BY <1>6, <1>7, <1>9, <1>10, <1>11, <1>12

\* A page is asked for, or answered: the table and the pages done stay.
LEMMA AskNextKeeps == IndInv /\ AskNext => IndInv'
<1>1. SUFFICES ASSUME IndInv, AskNext PROVE IndInv'
  OBVIOUS
<1> USE DEF IndInv
<1>2. /\ pc = "pages" /\ mode = "sequential" /\ page = NoPages
      /\ UNCHANGED <<ver, pc, mode, replace, began, attempt, total, done,
                     processed, table, outcome, faults>>
  BY <1>1 DEF AskNext, callVars
<1>3. PICK k \in Pages(total) \ done : page' = [page EXCEPT ![k] = InFlight]
  BY <1>1 DEF AskNext
<1>4. k \in AllPages
  BY <1>1, <1>3, PageNumbers DEF TypeOK
<1>5. /\ page' \in [AllPages -> {Idle, InFlight}]
      /\ page'[k] = InFlight
      /\ \A j \in AllPages \ {k} : page'[j] = Idle
  BY <1>2, <1>3, <1>4 DEF NoPages
<1>6. \A j \in AllPages : page'[j] \notin Versions
  BY <1>5, Values
<1>7. TypeOK'
  <2>1. page' \in [AllPages -> Versions \cup {Idle, InFlight, Transient, Fatal}]
    BY <1>5
  <2>2. QED BY <1>1, <1>2, <2>1 DEF TypeOK
<1>8. Attempts'
  BY <1>1, <1>2, <1>3, <1>5 DEF Attempts
<1>9. Ages'
  BY <1>1, <1>2, <1>6 DEF Ages
<1>10. Stable'
  <2>1. DoneRows' = DoneRows
    BY <1>2 DEF DoneRows
  <2>2. QED BY <1>1, <1>2, <1>6, <2>1 DEF Stable
<1>11. ReplacedOnly' /\ SyncComplete'
  BY <1>1, <1>2 DEF ReplacedOnly, SyncComplete
<1>12. QED BY <1>7, <1>8, <1>9, <1>10, <1>11

LEMMA AnswerPageKeeps ==
  ASSUME IndInv, NEW k \in AllPages, AnswerPage(k)
  PROVE  IndInv'
<1> USE DEF IndInv
<1>1. /\ page[k] = InFlight /\ faults' \in 0 .. MaxFaults
      /\ UNCHANGED <<ver, pc, mode, replace, began, attempt, total, done,
                     processed, table, outcome>>
  BY SyncAssumption DEF AnswerPage, callVars, TypeOK
<1>2. PICK a \in {ver, Transient, Fatal} : page' = [page EXCEPT ![k] = a]
  BY DEF AnswerPage
<1>3. /\ page' \in [AllPages -> Versions \cup {Idle, InFlight, Transient, Fatal}]
      /\ page'[k] = a
      /\ \A j \in AllPages \ {k} : page'[j] = page[j]
  BY <1>2 DEF TypeOK
<1>4. page[k] # Idle
  BY <1>1, Values
<1>5. pc = "pages"
  BY <1>4 DEF Attempts, NoPages
<1>6. TypeOK'
  BY <1>1, <1>3 DEF TypeOK
<1>7. Attempts'
  <2>1. \A j \in AllPages : page'[j] # Idle => page[j] # Idle
    BY <1>3, <1>4
  <2>2. QED BY <1>1, <1>5, <2>1 DEF Attempts
<1>8. \A j \in AllPages : page'[j] \in Versions => page'[j] = ver \/ page'[j] = page[j]
  BY <1>2, <1>3, Values
<1>9. Ages'
  <2>1. Age[ver] \in Nat
    BY Values DEF TypeOK
  <2>2. \A j \in AllPages : page'[j] \in Versions => Age[page'[j]] <= Age[ver]
    BY <1>8, <2>1 DEF Ages
  <2>3. mode = "sequential" =>
          \A j \in AllPages : page'[j] \in Versions =>
            \A key \in Present(table) : Age[table[key]] <= Age[page'[j]]
    BY <1>8 DEF Ages
  <2>4. QED BY <1>1, <2>2, <2>3 DEF Ages
<1>10. Stable'
  <2>1. DoneRows' = DoneRows
    BY <1>1 DEF DoneRows
  <2>2. QED BY <1>1, <1>8, <2>1 DEF Stable
<1>11. ReplacedOnly' /\ SyncComplete'
  BY <1>1 DEF ReplacedOnly, SyncComplete
<1>12. QED BY <1>6, <1>7, <1>9, <1>10, <1>11

\* An empty page is merged: if the source has not changed there is none.
LEMMA EmptyPageKeeps ==
  ASSUME IndInv, NEW k \in AllPages, MergePage(k), PageOf(page[k], k) = {}
  PROVE  IndInv'
<1> USE DEF IndInv
<1>1. /\ pc = "pages" /\ page[k] \in Versions
      /\ page' = [page EXCEPT ![k] = Idle]
      /\ done' = IF mode = "parallel" THEN done \cup {k} ELSE Pages(total)
      /\ UNCHANGED <<ver, pc, mode, replace, began, attempt, total,
                     processed, table, outcome, faults>>
  BY DEF MergePage, callVars
<1>2. /\ page' \in [AllPages -> Versions \cup {Idle, InFlight, Transient, Fatal}]
      /\ page'[k] = Idle
      /\ \A j \in AllPages \ {k} : page'[j] = page[j]
  BY <1>1 DEF TypeOK
<1>3. page[k] # Idle /\ k \in Pages(total) \ done
  BY <1>1, Values DEF Attempts
<1>4. done \subseteq done' /\ done' \subseteq Pages(total)
  BY <1>1, <1>3 DEF TypeOK
<1>5. Cardinality(done) \in Nat /\ Cardinality(done') \in Nat
      /\ Cardinality(done) <= Cardinality(done')
  <2>1. IsFiniteSet(Pages(total))
    BY PageNumbers DEF TypeOK
  <2>2. IsFiniteSet(done') /\ IsFiniteSet(done)
    BY <1>4, <2>1, FS_Subset
  <2>3. QED BY <1>4, <2>2, FS_Subset, FS_CardinalityType
<1>6. TypeOK'
  <2>1. Cardinality(done) * Count \in Nat /\ Cardinality(done') * Count \in Nat
        /\ Cardinality(done) * Count <= Cardinality(done') * Count
    BY <1>5, Offsets
  <2>2. processed \in 0 .. Cardinality(done) * Count
    BY DEF TypeOK
  <2>3. processed' \in 0 .. Cardinality(done') * Count
    BY <1>1, <2>1, <2>2
  <2>4. QED BY <1>1, <1>2, <1>4, <2>3 DEF TypeOK
<1>7. Attempts'
  <2>1. \A j \in AllPages : page'[j] # Idle => j # k /\ page[j] # Idle
    BY <1>2
  <2>2. \A j \in AllPages : page'[j] # Idle => j \in Pages(total) \ done'
    <3>1. CASE mode = "parallel"
      BY <1>1, <2>1, <3>1 DEF Attempts
    <3>2. CASE mode = "sequential"
      BY <1>3, <2>1, <3>2 DEF Attempts
    <3>3. QED BY <3>1, <3>2 DEF TypeOK
  <2>3. QED BY <1>1, <2>1, <2>2 DEF Attempts
<1>8. \A j \in AllPages : page'[j] \in Versions => page'[j] = page[j]
  BY <1>2, Values
<1>9. Ages'
  BY <1>1, <1>8 DEF Ages
<1>10. Stable'
  <2>1. ASSUME ver = began PROVE FALSE
    <3>1. page[k] = ver /\ total = Cardinality(RowsIn[ver])
      BY <1>1, <2>1 DEF Stable
    <3>2. k \in Nat /\ k * Count < Cardinality(RowsIn[ver])
      BY <1>3, <3>1, PageNumbers DEF Pages
    <3>3. QED BY <1>1, <3>1, <3>2, PageNotEmpty
  <2>2. QED BY <1>1, <2>1 DEF Stable
<1>11. ReplacedOnly' /\ SyncComplete'
  BY <1>1 DEF ReplacedOnly, SyncComplete
<1>12. QED BY <1>6, <1>7, <1>9, <1>10, <1>11

\* The rows that a merge leaves.
LEMMA MergedRows ==
  ASSUME TypeOK, NEW v \in Versions, NEW k \in Nat, table' = Merged(v, k)
  PROVE  /\ table' \in Tables
         /\ Present(table') = Present(table) \cup PageOf(v, k)
         /\ \A key \in PageOf(v, k) : table'[key] = v
         /\ \A key \in Present(table) \ PageOf(v, k) : table'[key] = table[key]
<1>1. PageOf(v, k) \subseteq Keys
  BY PageSize, RowsFinite
<1>2. Present(table) \subseteq Keys
      /\ \A key \in Present(table) : table[key] \in Versions \cup {Before}
  BY RowsPresent DEF TypeOK
<1>3. /\ \A key \in PageOf(v, k) : table'[key] = v
      /\ \A key \in Present(table) \ PageOf(v, k) : table'[key] = table[key]
      /\ \A key \in Keys : key \notin Present(table) \cup PageOf(v, k) =>
           table'[key] = Absent
  BY <1>1, <1>2 DEF Merged
<1>4. table' \in Tables
  BY <1>1, <1>2 DEF Merged, Tables
<1>5. Present(table') = Present(table) \cup PageOf(v, k)
  <2>1. table' # NoTable
    BY <1>4, Values
  <2>2. \A key \in Present(table) \cup PageOf(v, k) : table'[key] # Absent
    BY <1>2, <1>3, Values
  <2>3. \A key \in Keys :
          table'[key] # Absent <=> key \in Present(table) \cup PageOf(v, k)
    BY <1>3, <2>2
  <2>4. Present(table') = {key \in Keys : table'[key] # Absent}
    BY <2>1 DEF Present
  <2>5. QED BY <1>1, <1>2, <2>3, <2>4
<1>6. QED BY <1>3, <1>4, <1>5

\* A page of rows is merged.
LEMMA RowsMergedKeeps ==
  ASSUME IndInv, NEW k \in AllPages, MergePage(k), PageOf(page[k], k) # {}
  PROVE  IndInv'
<1> USE DEF IndInv
<1> DEFINE v == page[k]
           P == PageOf(v, k)
<1>1. /\ pc = "pages" /\ v \in Versions
      /\ page' = [page EXCEPT ![k] = Idle]
      /\ table' = Merged(v, k)
      /\ done' = done \cup {k}
      /\ processed' = processed + Cardinality(P)
      /\ UNCHANGED <<ver, pc, mode, replace, began, attempt, total,
                     outcome, faults>>
  BY DEF MergePage, callVars
<1>2. /\ page' \in [AllPages -> Versions \cup {Idle, InFlight, Transient, Fatal}]
      /\ page'[k] = Idle
      /\ \A j \in AllPages \ {k} : page'[j] = page[j]
  BY <1>1 DEF TypeOK
<1>3. v # Idle /\ k \in Pages(total) \ done /\ k \in Nat
  BY <1>1, Values, PageNumbers DEF Attempts
<1>4. P \subseteq RowsIn[v] /\ IsFiniteSet(P) /\ Cardinality(P) \in 0 .. Count
  BY <1>1, <1>3, PageSize, OffsetZero
<1>5. /\ table' \in Tables
      /\ Present(table') = Present(table) \cup P
      /\ \A key \in P : table'[key] = v
      /\ \A key \in Present(table) \ P : table'[key] = table[key]
  BY <1>1, <1>3, MergedRows
<1>6. done \subseteq Nat /\ done' \subseteq Pages(total) /\ IsFiniteSet(done)
  <2>1. Pages(total) \subseteq Nat /\ IsFiniteSet(Pages(total))
    BY PageNumbers DEF TypeOK
  <2>2. QED BY <1>1, <1>3, <2>1, FS_Subset DEF TypeOK
<1> HIDE DEF v, P
<1>7. TypeOK'
  <2>1. Cardinality(done) \in Nat /\ Cardinality(done') = Cardinality(done) + 1
    BY <1>1, <1>3, <1>6, FS_AddElement, FS_CardinalityType
  <2>2. /\ Cardinality(done) * Count \in Nat
        /\ Cardinality(done') * Count = Cardinality(done) * Count + Count
    BY <2>1, Offsets
  <2>3. processed \in 0 .. Cardinality(done) * Count
    BY DEF TypeOK
  <2>4. processed' \in 0 .. Cardinality(done') * Count
    BY <1>1, <1>4, <2>2, <2>3, OffsetZero
  <2>5. QED BY <1>1, <1>2, <1>5, <1>6, <2>4 DEF TypeOK
<1>8. Attempts'
  <2>1. \A j \in AllPages : page'[j] # Idle => j # k /\ page[j] # Idle
    BY <1>2
  <2>2. QED BY <1>1, <2>1 DEF Attempts
<1>9. \A j \in AllPages : page'[j] \in Versions => page'[j] = page[j] /\ j # k
  BY <1>2, Values
<1>10. Ages'
  <2>1. Age[v] <= Age[ver] /\ Age[began] <= Age[ver]
    BY <1>1 DEF Ages, v
  <2>2. \A key \in Present(table') : Age[table'[key]] <= Age[ver]
    BY <1>5, <2>1 DEF Ages
  <2>3. mode = "sequential" => \A j \in AllPages : page'[j] \notin Versions
    BY <1>3, <1>9, Values DEF Attempts, v
  <2>4. QED BY <1>1, <1>9, <2>1, <2>2, <2>3 DEF Ages
<1>11. Stable'
  <2>1. SUFFICES ASSUME ver = began PROVE Stable'
    BY <1>1 DEF Stable
  <2>2. v = ver /\ ver \in Versions
    BY <1>1, <2>1 DEF Stable, v, TypeOK
  <2>3. DoneRows' = DoneRows \cup P
    BY <1>1, <1>4, <2>2 DEF DoneRows, P, PageOf
  <2>4. DoneRows \cap P = {}
    BY <1>3, <1>6, <2>2, PagesApart DEF DoneRows, P
  <2>5. IsFiniteSet(DoneRows) /\ Cardinality(DoneRows) \in Nat
    <3>1. DoneRows \in SUBSET RowsIn[ver]
      BY DEF DoneRows
    <3>2. QED BY <2>2, <3>1, RowsFinite
  <2>6. Cardinality(DoneRows \cup P) = Cardinality(DoneRows) + Cardinality(P)
    <3>1. Cardinality(DoneRows \cap P) = 0
      BY <2>4, FS_EmptySet
    <3>2. Cardinality(DoneRows \cup P)
            = Cardinality(DoneRows) + Cardinality(P) - Cardinality(DoneRows \cap P)
      BY <1>4, <2>5, FS_Union
    <3>3. QED BY <1>4, <2>5, <3>1, <3>2
  <2>7. processed' = Cardinality(DoneRows')
    BY <1>1, <2>1, <2>3, <2>6 DEF Stable
  <2>8. \A key \in DoneRows' : key \in Present(table') /\ table'[key] = ver
    BY <1>1, <1>5, <2>1, <2>2, <2>3 DEF Stable
  <2>9. replace => Present(table') \subseteq RowsIn[ver]
    BY <1>1, <1>4, <1>5, <2>1, <2>2 DEF Stable
  <2>10. \A j \in AllPages : page'[j] \in Versions => page'[j] = ver
    BY <1>1, <1>9, <2>1 DEF Stable
  <2>11. total = Cardinality(RowsIn[ver])
    BY <1>1, <2>1 DEF Stable
  <2>12. QED BY <1>1, <2>7, <2>8, <2>9, <2>10, <2>11 DEF Stable
<1>12. ReplacedOnly'
  <2>1. IsFiniteSet(Present(table)) /\ Cardinality(Present(table)) \in Nat
    BY RowsPresent DEF TypeOK
  <2>2. Cardinality(Present(table'))
          = Cardinality(Present(table)) + Cardinality(P)
            - Cardinality(Present(table) \cap P)
    BY <1>4, <1>5, <2>1, FS_Union
  <2>3. Cardinality(Present(table) \cap P) \in Nat
    BY <1>4, FS_Intersection, FS_CardinalityType
  <2>4. processed \in Nat
    <3>1. Cardinality(done) * Count \in Nat
      BY <1>6, FS_CardinalityType, Offsets
    <3>2. QED BY <3>1 DEF TypeOK
  <2>5. replace => Cardinality(Present(table)) <= processed
    BY <1>1 DEF ReplacedOnly
  <2>6. replace => Cardinality(Present(table')) <= processed'
    BY <1>1, <1>4, <2>1, <2>2, <2>3, <2>4, <2>5
  <2>7. QED BY <1>1, <2>6 DEF ReplacedOnly
<1>13. SyncComplete'
  BY <1>1 DEF SyncComplete, Attempts
<1>14. QED BY <1>7, <1>8, <1>10, <1>11, <1>12, <1>13

LEMMA FinishKeeps == IndInv /\ Finish => IndInv'
<1>1. SUFFICES ASSUME IndInv, Finish PROVE IndInv'
  OBVIOUS
<1>2. /\ pc = "pages" /\ done = Pages(total)
      /\ EndAttempt /\ pc' = "idle" /\ attempt' = 0 /\ outcome' = "success"
      /\ UNCHANGED <<ver, mode, replace, began, table, faults>>
  BY <1>1 DEF Finish, EndCall
<1>3. ver \in Versions /\ began \in Versions
  BY <1>1 DEF IndInv, TypeOK
<1>4. ASSUME ver = began
      PROVE  /\ \A key \in RowsIn[ver] : key \in Present(table) /\ table[key] = ver
             /\ replace => Present(table) = RowsIn[ver]
  <2>1. /\ total = Cardinality(RowsIn[ver])
        /\ \A key \in DoneRows : key \in Present(table) /\ table[key] = ver
        /\ replace => Present(table) \subseteq RowsIn[ver]
    BY <1>1, <1>2, <1>4 DEF IndInv, Stable
  <2>2. DoneRows = RowsIn[ver]
    BY <1>2, <1>3, <2>1, EveryRowOnAPage DEF DoneRows
  <2>3. QED BY <2>1, <2>2
<1>5. SyncComplete'
  BY <1>2, <1>4 DEF SyncComplete
<1>6. attempt' \in 0 .. MaxAttempts /\ faults' \in 0 .. MaxFaults
  BY <1>1, <1>2, SyncAssumption DEF IndInv, TypeOK
<1>7. QED BY <1>1, <1>2, <1>5, <1>6, EndKeeps

LEMMA SourceChangesKeeps == IndInv /\ SourceChanges => IndInv'
<1>1. SUFFICES ASSUME IndInv, SourceChanges PROVE IndInv'
  OBVIOUS
<1> USE DEF IndInv
<1>2. /\ ver' \in Versions /\ Age[ver'] > Age[ver]
      /\ UNCHANGED <<pc, mode, replace, began, attempt, total, page, done,
                     processed, table, outcome, faults>>
  BY <1>1 DEF SourceChanges, callVars, attemptVars
<1>3. Age[ver] \in Nat /\ Age[ver'] \in Nat /\ Age[began] \in Nat
  BY <1>1, <1>2, Values DEF TypeOK
<1>4. ver' # began
  BY <1>1, <1>2, <1>3 DEF Ages
<1>5. TypeOK' /\ Attempts' /\ ReplacedOnly'
  BY <1>1, <1>2 DEF TypeOK, Attempts, ReplacedOnly
<1>6. Ages'
  <2>1. \A key \in Present(table) : Age[table[key]] \in Nat
    BY <1>1, RowsPresent, Values DEF TypeOK
  <2>2. \A key \in Present(table) : Age[table[key]] <= Age[ver']
    BY <1>1, <1>2, <1>3, <2>1 DEF Ages
  <2>3. \A k \in AllPages : page[k] \in Versions => Age[page[k]] <= Age[ver']
    BY <1>1, <1>2, <1>3, Values DEF Ages
  <2>4. QED BY <1>1, <1>2, <1>3, <2>2, <2>3 DEF Ages
<1>7. Stable' /\ SyncComplete'
  BY <1>2, <1>4 DEF Stable, SyncComplete
<1>8. QED BY <1>5, <1>6, <1>7

LEMMA StepKeeps == IndInv /\ [Next]_vars => IndInv'
<1>1. SUFFICES ASSUME IndInv, [Next]_vars PROVE IndInv'
  OBVIOUS
<1>2. CASE CallCopy
  BY <1>1, <1>2, CallKeeps DEF CallCopy
<1>3. CASE CallSync
  <2>1. PICK requested \in {"auto", "sequential", "parallel"}, r \in BOOLEAN :
          Call(SelectedMode(requested), r)
    BY <1>3 DEF CallSync
  <2>2. SelectedMode(requested) \in {"sequential", "parallel"}
    BY DEF SelectedMode
  <2>3. pc = "idle" /\ UNCHANGED <<ver, attemptVars, table, faults>>
    BY <1>3 DEF CallSync
  <2>4. QED BY <1>1, <2>1, <2>2, <2>3, CallKeeps
<1>4. CASE RejectSync
  BY <1>1, <1>4
     DEF RejectSync, callVars, attemptVars, IndInv, TypeOK, Attempts, Ages, Stable,
         DoneRows, ReplacedOnly, SyncComplete
<1>5. CASE Fetch
  BY <1>1, <1>5, AnswerPageKeeps DEF Fetch
<1>6. CASE CountRows
  BY <1>1, <1>6, CountRowsKeeps
<1>7. CASE DropTarget
  BY <1>1, <1>7, DropTargetKeeps
<1>8. CASE AskNext
  BY <1>1, <1>8, AskNextKeeps
<1>9. ASSUME NEW k \in AllPages, MergePage(k) PROVE IndInv'
  BY <1>1, <1>9, EmptyPageKeeps, RowsMergedKeeps
<1>10. faults \in 0 .. MaxFaults /\ MaxFaults \in Nat
  BY <1>1, SyncAssumption DEF IndInv, TypeOK
<1>11. ASSUME NEW k \in AllPages, PageFailed(k) \/ RejectColumns(k) PROVE IndInv'
  <2>1. /\ pc # "idle" /\ UNCHANGED <<ver, table, faults>>
        /\ Fail(page[k]) \/ Fail(Fatal)
    BY <1>11 DEF PageFailed, RejectColumns
  <2>2. QED BY <1>1, <1>10, <2>1, FailKeeps
<1>12. CASE Finish
  BY <1>1, <1>12, FinishKeeps
<1>13. CASE OtherFailure
  <2>1. /\ pc # "idle" /\ UNCHANGED <<ver, table>> /\ faults' \in 0 .. MaxFaults
        /\ Fail(Transient) \/ Fail(Fatal)
    BY <1>10, <1>13 DEF OtherFailure
  <2>2. QED BY <1>1, <2>1, FailKeeps
<1>14. CASE Crash
  <2>1. /\ UNCHANGED <<ver, mode, replace, began, table>>
        /\ EndAttempt /\ pc' = "idle" /\ attempt' \in 0 .. MaxAttempts
        /\ outcome' = "none" /\ faults' \in 0 .. MaxFaults
    BY <1>10, <1>14, SyncAssumption DEF Crash, EndCall
  <2>2. QED BY <1>1, <2>1, EndKeeps
<1>15. CASE SourceChanges
  BY <1>1, <1>15, SourceChangesKeeps
<1>16. CASE UNCHANGED vars
  BY <1>1, <1>16
     DEF vars, callVars, attemptVars, IndInv, TypeOK, Attempts, Ages, Stable,
         DoneRows, ReplacedOnly, SyncComplete
<1>17. QED
  BY <1>1, <1>2, <1>3, <1>4, <1>5, <1>6, <1>7, <1>8, <1>9, <1>11, <1>12, <1>13,
     <1>14, <1>15, <1>16
     DEF Next, Work

\* The invariant holds in every state.
THEOREM Invariant == Spec => []IndInv
BY Initially, StepKeeps, PTL DEF Spec

\* The pages merged so far account for the rows counted and, in a replaced table,
\* for all its rows: after any failed attempts, in any order of the answers.
THEOREM CountsAgree == Spec => []AttemptsApart
<1>1. ASSUME IndInv PROVE RowsAddUp
  <2>1. SUFFICES ASSUME pc = "pages", done = Pages(total), ver = began
                 PROVE  processed = total
    BY DEF RowsAddUp
  <2>2. total = Cardinality(RowsIn[ver]) /\ processed = Cardinality(DoneRows)
    BY <1>1, <2>1 DEF IndInv, Stable
  <2>3. DoneRows = RowsIn[ver]
    BY <1>1, <2>1, <2>2, EveryRowOnAPage DEF IndInv, TypeOK, DoneRows
  <2>4. QED BY <2>2, <2>3
<1>2. IndInv => AttemptsApart
  BY <1>1 DEF AttemptsApart, IndInv
<1>3. QED BY <1>2, Invariant, PTL

\* A call that succeeds while the source stays as it was has brought every row of
\* the query up to date, and a replaced table has no other rows.
THEOREM CallsAreComplete == Spec => []SyncComplete
<1>1. IndInv => SyncComplete
  BY DEF IndInv
<1>2. QED BY <1>1, Invariant, PTL

\* Rows are lost only to a call that replaces the table.
THEOREM RowsAreKept == Spec => MergeKeepsRows
<1>1. ASSUME IndInv, [Next]_vars, pc # "idle", ~ replace
      PROVE  Present(table) \subseteq Present(table')
  <2>1. CASE table' = table
    BY <2>1
  <2>2. ASSUME NEW k \in AllPages, MergePage(k), table' # table
        PROVE  Present(table) \subseteq Present(table')
    <3>1. page[k] \in Versions /\ table' = Merged(page[k], k) /\ k \in Nat
      BY <2>2, PageNumbers DEF MergePage
    <3>2. QED BY <1>1, <3>1, MergedRows DEF IndInv
  <2>3. table' = table \/ \E k \in AllPages : MergePage(k)
    BY <1>1
       DEF Next, vars, CallCopy, CallSync, RejectSync, Fetch, AnswerPage, Work,
           CountRows, DropTarget, AskNext, PageFailed, RejectColumns, Finish,
           OtherFailure, Crash, SourceChanges
  <2>4. QED BY <2>1, <2>2, <2>3
<1>2. IndInv /\ [Next]_vars =>
        [pc # "idle" /\ ~ replace => Present(table) \subseteq Present(table')]_vars
  BY <1>1
<1>3. QED BY <1>2, Invariant, PTL DEF Spec, MergeKeepsRows

\* The sequential version never puts an older row over a newer one.
THEOREM NothingGoesBack == Spec => NeverOlder
<1>1. ASSUME IndInv, [Next]_vars, mode = "sequential", pc # "idle",
             NEW key \in Present(table) \cap Present(table')
      PROVE  Age[table'[key]] >= Age[table[key]]
  <2>1. Age[table[key]] \in Nat
    BY <1>1, RowsPresent, Values DEF IndInv, TypeOK
  <2>2. CASE table' = table
    BY <2>1, <2>2
  <2>3. CASE table' = NoTable
    BY <1>1, <2>3 DEF Present
  <2>4. ASSUME NEW k \in AllPages, MergePage(k), table' # table
        PROVE  Age[table'[key]] >= Age[table[key]]
    <3>1. page[k] \in Versions /\ table' = Merged(page[k], k) /\ k \in Nat
      BY <2>4, PageNumbers DEF MergePage
    <3>2. table'[key] = page[k] \/ table'[key] = table[key]
      BY <1>1, <3>1, MergedRows DEF IndInv
    <3>3. Age[table[key]] <= Age[page[k]] /\ Age[page[k]] \in Nat
      BY <1>1, <3>1, Values DEF IndInv, Ages
    <3>4. QED BY <2>1, <3>2, <3>3
  <2>5. table' = table \/ table' = NoTable \/ \E k \in AllPages : MergePage(k)
    BY <1>1
       DEF Next, vars, CallCopy, CallSync, RejectSync, Fetch, AnswerPage, Work,
           CountRows, DropTarget, AskNext, PageFailed, RejectColumns, Finish,
           OtherFailure, Crash, SourceChanges
  <2>6. QED BY <2>2, <2>3, <2>4, <2>5
<1>2. IndInv /\ [Next]_vars =>
        [mode = "sequential" /\ pc # "idle" =>
           \A key \in Present(table) \cap Present(table') :
             Age[table'[key]] >= Age[table[key]]]_vars
  BY <1>1
<1>3. QED BY <1>2, Invariant, PTL DEF Spec, NeverOlder
------------------------------------------------------------------------------
(***************************************************************************)
(* Why a call ends.  The work of an attempt is counted in pages that are to*)
(* be merged, to be asked for and to be answered.                          *)
(***************************************************************************)
Unmerged == Pages(total) \ done

Unasked == {k \in Unmerged : page[k] = Idle}

Unanswered == {k \in Unmerged : page[k] \in {Idle, InFlight}}

PagesLeft == Cardinality(Unmerged) + Cardinality(Unasked) + Cardinality(Unanswered)

\* The steps of an attempt, at most, and of those that the wrapper has left.
AttemptSteps == 3 * Cardinality(AllPages) + 3

StepsLeft ==
  (MaxAttempts - attempt) * AttemptSteps
    + (IF pc = "count" THEN AttemptSteps - 1
       ELSE IF pc = "drop" THEN AttemptSteps - 2
       ELSE PagesLeft)

\* Every step of a call, of a worker or of what fails ends the call or brings it
\* nearer to its end: no page is asked for, answered or merged twice in an
\* attempt, and each retry uses one up.  The source may change as it likes.
NearerToTheEnd ==
  [][pc # "idle" => \/ pc' = "idle"
                    \/ StepsLeft' \in 0 .. StepsLeft - 1
                    \/ SourceChanges /\ StepsLeft' = StepsLeft]_vars

LEMMA Smaller ==
  ASSUME NEW S, IsFiniteSet(S), NEW T \in SUBSET S
  PROVE  /\ IsFiniteSet(T) /\ Cardinality(S) \in Nat /\ Cardinality(T) \in Nat
         /\ Cardinality(T) <= Cardinality(S)
         /\ S # T => Cardinality(T) < Cardinality(S)
<1>1. /\ IsFiniteSet(T) /\ Cardinality(T) <= Cardinality(S)
      /\ Cardinality(S) = Cardinality(T) => S = T
  BY FS_Subset
<1>2. Cardinality(S) \in Nat /\ Cardinality(T) \in Nat
  BY <1>1, FS_CardinalityType
<1>3. QED
  BY <1>1, <1>2

LEMMA WorkLeft ==
  ASSUME TypeOK
  PROVE  /\ IsFiniteSet(Unmerged) /\ IsFiniteSet(Unasked) /\ IsFiniteSet(Unanswered)
         /\ AttemptSteps \in Nat /\ MaxAttempts - attempt \in Nat
         /\ (MaxAttempts - attempt) * AttemptSteps \in Nat
         /\ PagesLeft \in 0 .. AttemptSteps - 3
<1>1. total \in 0 .. MaxKey /\ attempt \in 0 .. MaxAttempts /\ MaxAttempts \in Nat
  BY SyncAssumption DEF TypeOK
<1>2. IsFiniteSet(AllPages) /\ Unmerged \in SUBSET AllPages
  <2>1. MaxKey \in 0 .. MaxKey
    BY OffsetZero
  <2>2. QED
    BY <1>1, <2>1, PageNumbers DEF Unmerged, AllPages
<1>3. Unasked \in SUBSET AllPages /\ Unanswered \in SUBSET AllPages
  BY <1>2 DEF Unasked, Unanswered
<1>4. /\ IsFiniteSet(Unmerged) /\ IsFiniteSet(Unasked) /\ IsFiniteSet(Unanswered)
      /\ Cardinality(AllPages) \in Nat
      /\ Cardinality(Unmerged) \in Nat /\ Cardinality(Unmerged) <= Cardinality(AllPages)
      /\ Cardinality(Unasked) \in Nat /\ Cardinality(Unasked) <= Cardinality(AllPages)
      /\ Cardinality(Unanswered) \in Nat /\ Cardinality(Unanswered) <= Cardinality(AllPages)
  BY <1>2, <1>3, Smaller
<1>5. AttemptSteps \in Nat /\ PagesLeft \in 0 .. AttemptSteps - 3
  BY <1>4 DEF AttemptSteps, PagesLeft
<1>6. MaxAttempts - attempt \in Nat
  BY <1>1
<1>7. \A a, b \in Nat : a * b \in Nat
  OBVIOUS
<1>8. QED
  BY <1>4, <1>5, <1>6, <1>7

\* A step within the pages of an attempt.
LEMMA PagesDescend ==
  ASSUME TypeOK, TypeOK', pc = "pages", pc' = "pages", attempt' = attempt,
         Unmerged' \subseteq Unmerged, Unasked' \subseteq Unasked,
         Unanswered' \subseteq Unanswered,
         Unmerged' # Unmerged \/ Unasked' # Unasked \/ Unanswered' # Unanswered
  PROVE  StepsLeft' \in 0 .. StepsLeft - 1
<1> DEFINE U == Unmerged  V == Unasked  W == Unanswered
           U1 == Unmerged'  V1 == Unasked'  W1 == Unanswered'
<1>1. /\ Cardinality(U) \in Nat /\ Cardinality(U1) \in Nat
      /\ Cardinality(V) \in Nat /\ Cardinality(V1) \in Nat
      /\ Cardinality(W) \in Nat /\ Cardinality(W1) \in Nat
      /\ Cardinality(U1) <= Cardinality(U) /\ Cardinality(V1) <= Cardinality(V)
      /\ Cardinality(W1) <= Cardinality(W)
      /\ \/ Cardinality(U1) < Cardinality(U)
         \/ Cardinality(V1) < Cardinality(V)
         \/ Cardinality(W1) < Cardinality(W)
  <2>1. /\ U1 \in SUBSET U /\ V1 \in SUBSET V /\ W1 \in SUBSET W
        /\ U # U1 \/ V # V1 \/ W # W1
        /\ IsFiniteSet(U) /\ IsFiniteSet(V) /\ IsFiniteSet(W)
    BY WorkLeft
  <2> HIDE DEF U, V, W, U1, V1, W1
  <2>2. QED
    BY <2>1, Smaller
<1>2. PagesLeft' < PagesLeft /\ PagesLeft \in Nat /\ PagesLeft' \in Nat
  <2>1. /\ PagesLeft = Cardinality(U) + Cardinality(V) + Cardinality(W)
        /\ PagesLeft' = Cardinality(U1) + Cardinality(V1) + Cardinality(W1)
    BY DEF PagesLeft
  <2> HIDE DEF U, V, W, U1, V1, W1
  <2>2. QED
    BY <1>1, <2>1
<1>3. /\ StepsLeft = (MaxAttempts - attempt) * AttemptSteps + PagesLeft
      /\ StepsLeft' = (MaxAttempts - attempt) * AttemptSteps + PagesLeft'
  BY DEF StepsLeft, AttemptSteps
<1>4. (MaxAttempts - attempt) * AttemptSteps \in Nat
  BY WorkLeft
<1>5. QED
  BY <1>2, <1>3, <1>4

\* The next attempt.
LEMMA RetryDescends ==
  ASSUME TypeOK, pc # "idle", attempt' = attempt + 1, attempt < MaxAttempts, pc' = "count"
  PROVE  StepsLeft' \in 0 .. StepsLeft - 1
<1> DEFINE left == MaxAttempts - attempt
<1>1. /\ AttemptSteps \in Nat /\ left \in Nat /\ left > 0 /\ attempt \in Nat
      /\ left * AttemptSteps \in Nat
      /\ PagesLeft \in 0 .. AttemptSteps - 3
  BY WorkLeft, SyncAssumption DEF TypeOK
<1>2. AttemptSteps' = AttemptSteps
  BY DEF AttemptSteps
<1>3. StepsLeft' = (left - 1) * AttemptSteps + (AttemptSteps - 1)
  <2>1. MaxAttempts - attempt' = left - 1
    BY <1>1, SyncAssumption
  <2>2. StepsLeft' = (MaxAttempts - attempt') * AttemptSteps + (AttemptSteps - 1)
    BY <1>2 DEF StepsLeft
  <2>3. QED
    BY <2>1, <2>2
<1>4. StepsLeft \in Nat /\ StepsLeft >= left * AttemptSteps
  BY <1>1 DEF StepsLeft
<1>5. (left - 1) * AttemptSteps = left * AttemptSteps - AttemptSteps
  BY <1>1
<1>6. (left - 1) * AttemptSteps \in Nat
  <2>1. left - 1 \in Nat
    BY <1>1
  <2>2. \A a, b \in Nat : a * b \in Nat
    OBVIOUS
  <2>3. QED
    BY <1>1, <2>1, <2>2
<1>7. AttemptSteps >= 3
  BY <1>1
<1> HIDE DEF left
<1>8. QED
  BY <1>1, <1>3, <1>4, <1>5, <1>6, <1>7

\* A call has at most AttemptSteps steps for each attempt, for any number of rows,
\* size of a page and number of failures, in any order of the answers; with the
\* fairness of Fetch and Work, which is not reasoned about here, EveryCallEnds
\* follows.
THEOREM CallsDescend == Spec => NearerToTheEnd
<1> DEFINE Nearer == StepsLeft' \in 0 .. StepsLeft - 1
<1>0. (TypeOK => PagesLeft \in 0 .. AttemptSteps - 3)'
  <2>1. TypeOK => PagesLeft \in 0 .. AttemptSteps - 3
    BY WorkLeft
  <2>2. QED
    BY <2>1, PTL
<1>1. ASSUME IndInv, IndInv', [Next]_vars, pc # "idle", vars' # vars
      PROVE  pc' = "idle" \/ Nearer \/ (SourceChanges /\ StepsLeft' = StepsLeft)
  <2>0. TypeOK /\ TypeOK' /\ Attempts
    BY <1>1 DEF IndInv
  <2> HIDE DEF Nearer
  <2>1. CASE CountRows
    <3>1. pc = "count" /\ pc' = "drop" /\ attempt' = attempt
      BY <2>1 DEF CountRows, callVars
    <3>2. QED
      BY <2>0, <3>1, WorkLeft DEF StepsLeft, AttemptSteps, Nearer
  <2>2. CASE DropTarget
    <3>1. pc = "drop" /\ pc' = "pages" /\ attempt' = attempt
      BY <2>2 DEF DropTarget, callVars
    <3>2. PagesLeft' \in 0 .. AttemptSteps - 3
      BY <2>0, <1>0 DEF AttemptSteps
    <3>3. QED
      BY <2>0, <3>1, <3>2, WorkLeft DEF StepsLeft, AttemptSteps, Nearer
  <2>3. CASE AskNext
    <3>1. /\ page = NoPages
          /\ UNCHANGED <<pc, attempt, total, done>>
      BY <2>3 DEF AskNext, callVars
    <3>2. PICK k \in Unmerged : page' = [page EXCEPT ![k] = InFlight]
      BY <2>3 DEF AskNext, Unmerged
    <3>3. k \in AllPages
      BY <2>0, PageNumbers DEF TypeOK, Unmerged
    <3>4. Unmerged' = Unmerged /\ Unmerged \subseteq AllPages
      BY <2>0, <3>1, PageNumbers DEF TypeOK, Unmerged
    <3>5. /\ page'[k] = InFlight /\ page[k] = Idle
          /\ \A j \in AllPages \ {k} : page'[j] = page[j]
      BY <2>0, <3>1, <3>2, <3>3 DEF TypeOK, NoPages
    <3>6. /\ Unasked' \subseteq Unasked /\ Unanswered' \subseteq Unanswered
          /\ k \in Unasked /\ k \notin Unasked'
      BY <3>2, <3>4, <3>5, Values DEF Unasked, Unanswered
    <3>7. pc = "pages"
      BY <2>3 DEF AskNext
    <3>8. QED
      BY <2>0, <3>1, <3>4, <3>6, <3>7, PagesDescend DEF Nearer
  <2>4. ASSUME NEW k \in AllPages, AnswerPage(k) PROVE Nearer
    <3>1. page[k] = InFlight /\ UNCHANGED <<pc, attempt, total, done>>
      BY <2>4 DEF AnswerPage, callVars
    <3>2. PICK a \in {ver, Transient, Fatal} : page' = [page EXCEPT ![k] = a]
      BY <2>4 DEF AnswerPage
    <3>3. k \in Unmerged /\ pc = "pages"
      BY <2>0, <3>1, Values DEF Attempts, NoPages, Unmerged
    <3>4. Unmerged' = Unmerged /\ Unmerged \subseteq AllPages
      BY <2>0, <3>1, PageNumbers DEF TypeOK, Unmerged
    <3>5. page'[k] = a /\ \A j \in AllPages \ {k} : page'[j] = page[j]
      BY <2>0, <3>2 DEF TypeOK
    <3>6. a # Idle /\ a # InFlight
      BY <2>0, <3>2, Values DEF TypeOK
    <3>7. /\ Unasked' \subseteq Unasked /\ Unanswered' \subseteq Unanswered
          /\ k \in Unanswered /\ k \notin Unanswered'
      BY <3>1, <3>3, <3>4, <3>5, <3>6 DEF Unasked, Unanswered
    <3>8. QED
      BY <2>0, <3>1, <3>3, <3>4, <3>7, PagesDescend DEF Nearer
  <2>5. ASSUME NEW k \in AllPages, MergePage(k) PROVE Nearer
    <3>1. /\ page[k] \in Versions /\ pc = "pages"
          /\ page' = [page EXCEPT ![k] = Idle] /\ UNCHANGED <<pc, attempt, total>>
          /\ done' = done \cup {k} \/ done' = Pages(total)
      BY <2>5 DEF MergePage, callVars
    <3>2. k \in Unmerged /\ Unmerged \subseteq AllPages
      BY <2>0, <3>1, Values, PageNumbers DEF Attempts, TypeOK, Unmerged
    <3>3. Unmerged' \subseteq Unmerged /\ k \notin Unmerged'
      BY <3>1, <3>2 DEF Unmerged
    <3>4. \A j \in AllPages \ {k} : page'[j] = page[j]
      BY <2>0, <3>1 DEF TypeOK
    <3>5. Unasked' \subseteq Unasked /\ Unanswered' \subseteq Unanswered
      BY <3>2, <3>3, <3>4 DEF Unasked, Unanswered
    <3>6. QED
      BY <2>0, <3>1, <3>2, <3>3, <3>5, PagesDescend DEF Nearer
  <2>6. ASSUME NEW e, Fail(e) PROVE pc' = "idle" \/ Nearer
    <3>1. \/ pc' = "idle"
          \/ attempt < MaxAttempts /\ attempt' = attempt + 1 /\ pc' = "count"
      BY <2>6 DEF Fail, EndCall
    <3>2. QED
      BY <1>1, <2>0, <3>1, RetryDescends DEF Nearer
  <2>7. CASE SourceChanges
    <3>1. UNCHANGED <<pc, attempt, total, page, done>>
      BY <2>7 DEF SourceChanges, callVars, attemptVars
    <3>2. StepsLeft' = StepsLeft
      BY <3>1 DEF StepsLeft, AttemptSteps, PagesLeft, Unmerged, Unasked, Unanswered
    <3>3. QED
      BY <2>7, <3>2
  <2>8. CASE Finish \/ Crash
    BY <2>8 DEF Finish, Crash, EndCall
  <2>9. CASE OtherFailure \/ \E k \in AllPages : PageFailed(k) \/ RejectColumns(k)
    <3>1. \E e : Fail(e)
      BY <2>9 DEF OtherFailure, PageFailed, RejectColumns
    <3>2. QED
      BY <2>6, <3>1
  <2>10. QED
    BY <1>1, <2>1, <2>2, <2>3, <2>4, <2>5, <2>7, <2>8, <2>9
       DEF Next, CallCopy, CallSync, RejectSync, Fetch, Work
<1>2. IndInv /\ IndInv' /\ [Next]_vars =>
        [pc # "idle" => pc' = "idle" \/ Nearer \/ (SourceChanges /\ StepsLeft' = StepsLeft)]_vars
  BY <1>1
<1>3. QED
  BY <1>2, Invariant, PTL DEF Spec, NearerToTheEnd
==============================================================================
