----------------------- MODULE LocalDataLibrary_proofs -----------------------
(***************************************************************************)
(* Proofs about LocalDataLibrary, for any files, names and managed tables, *)
(* any normalization and any number of statements, crashes and changes of  *)
(* the folder.                                                             *)
(*                                                                         *)
(* A view of the library is the reader of a file or reads another name, and*)
(* what a refresh has put under a name may be replaced later in the same   *)
(* refresh.  What a name leads to is a chain of such views; it ends because*)
(* each view was put there later than the one that reads it.               *)
(***************************************************************************)
EXTENDS LocalDataLibrary, FiniteSetTheorems, FunctionTheorems, SequenceTheorems,
        WellFoundedInduction, TLAPS

Busy == {"exact", "record", "failed"}

\* The file in hand and the aliases it is given.
InHand == Head(queue)

Hand == IF pc \in Busy THEN {safe, ExactAlias(InHand)} ELSE {}

Types == TypeOK /\ (pc \in Busy => safe \in SafeNames)

\* No file is registered twice, and there are numbers left for the names.
Queued ==
  pc \in Refreshing =>
    /\ \A i, j \in 1 .. Len(queue) : queue[i] = queue[j] => i = j
    /\ \A r \in made : \A i \in 1 .. Len(queue) : queue[i] # r.file
    /\ IsFiniteSet(used)
    /\ Cardinality(used) + Len(queue) <= Len(Order) + (IF pc = "safe" THEN 0 ELSE 1)

\* The views of a file.
Stands(f, table, exact) ==
  /\ objects[table] = Reader(f)
  /\ objects[exact] = IF exact = table THEN Reader(f) ELSE Alias(table)

Begun ==
  /\ pc = "exact" => objects[safe] = Reader(InHand) /\ safe # ExactAlias(InHand)
  /\ pc = "record" => Stands(InHand, safe, ExactAlias(InHand))

\* The views of files whose names no other file has been given.
Apart(r, rs) == \A q \in rs \ {r} : AliasesOf(q) \cap AliasesOf(r) = {}

ViewsStand ==
  /\ pc \in Refreshing =>
       \A r \in made : r.readable /\ Apart(r, made) /\ Hand \cap AliasesOf(r) = {} =>
         Stands(r.file, r.table, r.exact)
  /\ pc = "ready" /\ settled =>
       \A r \in records : r.readable /\ Apart(r, records) /\ AliasesOf(r) \cap touched = {} =>
         Stands(r.file, r.table, r.exact)

\* The aliases that the guard knows.
GuardedViews ==
  /\ \A n \in backed \ touched : IsView(n)
  /\ pc \in Refreshing => \A n \in backed : IsView(n)

IsReader(n) == \E f \in Files : objects[n] = Reader(f)

\* Chains of views: the names D lead to known files, over names whose views are
\* of later date, of a lower rank, or over one that reads its file itself.
Chained(D, rank, known) ==
  \A n \in D :
    \/ \E f \in known : objects[n] = Reader(f)
    \/ \E m \in D : objects[n] = Alias(m) /\ (IsReader(m) \/ rank[m] < rank[n])

AllIn(rs, D) == \A r \in rs : r.readable => AliasesOf(r) \subseteq D

FilesOf(rs) == {r.file : r \in rs}

KnownNow == FilesOf(made) \cup (IF pc \in Busy THEN {InHand} ELSE {})

\* Ranks are lengths of the queue at the time the view was put there.
ChainsNow(D, rank) ==
  /\ AllIn(made, D)
  /\ Chained(D, rank, KnownNow)
  /\ pc = "exact" => safe \in D
  /\ pc = "record" => Hand \subseteq D
  /\ pc = "safe" => \A n \in D : rank[n] > Len(queue)
  /\ pc = "exact" => \A n \in D \ {safe} : rank[n] > Len(queue)
  /\ pc \in Busy => \A n \in D : rank[n] >= Len(queue)

Chains ==
  /\ pc \in Refreshing =>
       \E D \in SUBSET Names : \E rank \in [D -> 1 .. Len(Order)] : ChainsNow(D, rank)
  /\ pc = "ready" /\ settled /\ touched = {} =>
       \E D \in SUBSET Names : \E rank \in [D -> 1 .. Len(Order)] :
         AllIn(records, D) /\ Chained(D, rank, FilesOf(records))

\* A refresh is settled when it is completed.
Unsettled == pc \in Refreshing \cup {"closed"} => ~ settled

IndInv ==
  Types /\ Queued /\ Begun /\ ViewsStand /\ GuardedViews /\ Chains /\ Unsettled
------------------------------------------------------------------------------
(***************************************************************************)
(* Recursive functions over the natural numbers.                           *)
(***************************************************************************)
LEMMA LeastElement ==
  ASSUME NEW S \in SUBSET Nat, S # {}
  PROVE  \E m \in S : \A n \in S : m <= n
<1> DEFINE R == {ss \in Nat \X Nat : ss[1] < ss[2]}
<1>1. IsWellFoundedOn(R, Nat)
  BY NatLessThanWellFounded DEF OpToRel
<1>2. PICK m \in S : \A n \in S : ~ (<<n, m>> \in R)
  <2> HIDE DEF R
  <2>1. QED
    BY <1>1, WFMin
<1>3. ASSUME NEW n \in S
      PROVE  m <= n
  <2>1. <<n, m>> \in Nat \X Nat /\ ~ (<<n, m>> \in R)
    BY <1>2
  <2>2. ~ (n < m)
    BY <2>1
  <2>3. QED
    BY <2>2
<1>4. QED
  BY <1>3

StaysIn(step, S) == \A i \in Nat : \A x \in S : step[i][x] \in S

Follows(f, step, a, S, n) ==
  /\ f \in [0 .. n -> S]
  /\ f[0] = a
  /\ \A i \in 1 .. n : f[i] = step[i][f[i - 1]]

\* Repeating the steps of a function n times gives a function of the number of
\* steps taken.
LEMMA Iterated ==
  ASSUME NEW S, NEW a \in S, NEW step, StaysIn(step, S), NEW n \in Nat
  PROVE  \E f : Follows(f, step, a, S, n)
<1> DEFINE Steps(f, k) == f[0] = a /\ \A i \in 1 .. k : f[i] = step[i][f[i - 1]]
           Undone == {k \in Nat : ~ \E f \in [0 .. k -> S] : Steps(f, k)}
<1>1. ASSUME Undone # {}
      PROVE  FALSE
  <2>1. PICK k \in Undone : \A m \in Undone : k <= m
    <3>1. Undone \in SUBSET Nat
      OBVIOUS
    <3> HIDE DEF Undone
    <3>2. QED
      BY <1>1, <3>1, LeastElement
  <2>2. k \in Nat /\ \A f \in [0 .. k -> S] : ~ Steps(f, k)
    OBVIOUS
  <2>3. CASE k = 0
    <3> DEFINE f == [i \in 0 .. k |-> a]
    <3>1. f \in [0 .. k -> S] /\ Steps(f, k)
      BY <2>3
    <3>2. QED
      BY <2>2, <3>1
  <2>4. CASE k # 0
    <3>1. k - 1 \in Nat /\ ~ (k <= k - 1)
      BY <2>2, <2>4
    <3>2. k - 1 \notin Undone
      <4> HIDE DEF Undone
      <4>1. QED
        BY <2>1, <3>1
    <3>3. PICK g \in [0 .. k - 1 -> S] : Steps(g, k - 1)
      BY <3>1, <3>2
    <3> DEFINE f == [i \in 0 .. k |-> IF i = k THEN step[k][g[k - 1]] ELSE g[i]]
    <3>4. f \in [0 .. k -> S]
      <4>1. g[k - 1] \in S
        BY <3>1
      <4>2. step[k][g[k - 1]] \in S
        BY <2>2, <4>1 DEF StaysIn
      <4>3. \A i \in 0 .. k : i # k => g[i] \in S
        BY <3>1
      <4>4. QED
        BY <4>2, <4>3
    <3>5. f[0] = a
      BY <3>1, <3>3
    <3>6. ASSUME NEW i \in 1 .. k
          PROVE  f[i] = step[i][f[i - 1]]
      <4>1. f[i - 1] = g[i - 1]
        BY <3>1
      <4>2. CASE i = k
        BY <4>1, <4>2
      <4>3. CASE i # k
        <5>1. i \in 1 .. k - 1 /\ f[i] = g[i]
          BY <3>1, <4>3
        <5>2. QED
          BY <3>3, <4>1, <5>1
      <4>4. QED
        BY <4>2, <4>3
    <3>7. QED
      BY <2>2, <3>4, <3>5, <3>6
  <2>5. QED
    BY <2>3, <2>4
<1>2. n \notin Undone
  BY <1>1
<1>3. QED
  BY <1>2 DEF Follows
------------------------------------------------------------------------------
(***************************************************************************)
(* The order of a refresh.                                                 *)
(***************************************************************************)
\* What a refresh has sorted of the first i files.
SortedUpTo(fs, i, s) ==
  /\ s \in Seq(Files)
  /\ Len(s) <= i
  /\ \A j \in 1 .. Len(s) : \E k \in 1 .. i : s[j] = Order[k]
  /\ \A j, k \in 1 .. Len(s) : s[j] = s[k] => j = k

LEMMA SortedStep ==
  ASSUME NEW fs, NEW i \in 1 .. Len(Order), NEW s, SortedUpTo(fs, i - 1, s)
  PROVE  SortedUpTo(fs, i, IF Order[i] \in fs THEN Append(s, Order[i]) ELSE s)
<1>1. /\ Order \in Seq(Files) /\ i \in 1 .. Len(Order) /\ Len(Order) \in Nat
      /\ \A j, k \in 1 .. Len(Order) : Order[j] = Order[k] => j = k
  BY OrderAssumption
<1>2. /\ s \in Seq(Files) /\ Len(s) \in Nat /\ Len(s) <= i - 1
      /\ \A j \in 1 .. Len(s) : \E k \in 1 .. i - 1 : s[j] = Order[k]
      /\ \A j, k \in 1 .. Len(s) : s[j] = s[k] => j = k
  BY DEF SortedUpTo
<1>3. CASE Order[i] \notin fs
  <2>1. \A j \in 1 .. Len(s) : \E k \in 1 .. i : s[j] = Order[k]
    BY <1>1, <1>2
  <2>2. QED
    BY <1>1, <1>2, <1>3, <2>1 DEF SortedUpTo
<1>4. CASE Order[i] \in fs
  <2> DEFINE f == Order[i]
             t == Append(s, f)
  <2>1. f \in Files
    BY <1>1
  <2>2. /\ t \in Seq(Files) /\ Len(t) = Len(s) + 1
        /\ t[Len(s) + 1] = f /\ \A j \in 1 .. Len(s) : t[j] = s[j]
    <3> HIDE DEF f
    <3>1. QED
      BY <1>2, <2>1
  <2>3. \A j \in 1 .. Len(s) : s[j] # f
    BY <1>1, <1>2
  <2> HIDE DEF t
  <2>4. \A j \in 1 .. Len(t) : \E k \in 1 .. i : t[j] = Order[k]
    <3>1. ASSUME NEW j \in 1 .. Len(t)
          PROVE  \E k \in 1 .. i : t[j] = Order[k]
      <4>1. CASE j \in 1 .. Len(s)
        BY <1>1, <1>2, <2>2, <4>1
      <4>2. CASE j = Len(s) + 1
        BY <1>1, <2>2, <4>2
      <4>3. QED
        BY <1>2, <2>2, <4>1, <4>2
    <3>2. QED
      BY <3>1
  <2>5. \A j, k \in 1 .. Len(t) : t[j] = t[k] => j = k
    <3> HIDE DEF f
    <3>1. QED
      BY <1>2, <2>2, <2>3
  <2>6. QED
    BY <1>1, <1>2, <1>4, <2>2, <2>4, <2>5 DEF SortedUpTo, t
<1>5. QED
  BY <1>3, <1>4

\* The files of a folder are sorted into a sequence without repetitions.
LEMMA SortedFiles ==
  ASSUME NEW fs
  PROVE  SortedUpTo(fs, Len(Order), Sorted(fs))
<1> DEFINE L == Len(Order)
           step == [i \in Nat |-> [s \in Seq(Files) |->
                      IF i \in 1 .. L /\ Order[i] \in fs THEN Append(s, Order[i]) ELSE s]]
           Rule(g) == [i \in 0 .. L |->
                         IF i = 0 THEN <<>>
                         ELSE IF Order[i] \in fs THEN Append(g[i - 1], Order[i]) ELSE g[i - 1]]
           upTo == CHOOSE g : g = Rule(g)
<1>1. L \in Nat /\ \A i \in 1 .. L : Order[i] \in Files
  BY OrderAssumption
<1>2. Sorted(fs) = upTo[L]
  BY DEF Sorted
<1>3. \E g : g = Rule(g)
  <2>1. \A i \in Nat : \A s \in Seq(Files) : step[i][s] \in Seq(Files)
    BY <1>1
  <2>2. <<>> \in Seq(Files)
    OBVIOUS
  <2>3. PICK g \in [0 .. L -> Seq(Files)] :
          g[0] = <<>> /\ \A i \in 1 .. L : g[i] = step[i][g[i - 1]]
    <3> DEFINE S  == Seq(Files)
               t0 == <<>>
    <3>1. t0 \in S /\ StaysIn(step, S)
      BY <2>1, <2>2 DEF StaysIn
    <3> HIDE DEF step, L, S, t0
    <3>2. \E g : Follows(g, step, t0, S, L)
      BY <1>1, <3>1, Iterated
    <3>3. QED
      BY <3>2 DEF S, t0, Follows
  <2>4. ASSUME NEW i \in 1 .. L
        PROVE  g[i] = IF Order[i] \in fs THEN Append(g[i - 1], Order[i]) ELSE g[i - 1]
    <3>1. g[i - 1] \in Seq(Files) /\ i \in Nat
      BY <1>1
    <3>2. g[i] = step[i][g[i - 1]]
      BY <2>3
    <3>3. QED
      BY <3>1, <3>2
  <2>5. g = [i \in 0 .. L |-> g[i]]
    OBVIOUS
  <2>6. ASSUME NEW i \in 0 .. L
        PROVE  g[i] = Rule(g)[i]
    <3>1. CASE i = 0
      BY <2>3, <3>1
    <3>2. CASE i # 0
      <4>1. i \in 1 .. L
        <5> HIDE DEF L
        <5>1. QED
          BY <1>1, <3>2
      <4>2. QED
        BY <2>4, <3>2, <4>1
    <3>3. QED
      BY <3>1, <3>2
  <2>7. QED
    BY <2>5, <2>6
<1>4. upTo = Rule(upTo)
  <2> HIDE DEF Rule
  <2>1. QED
    BY <1>3
<1>5. /\ upTo[0] = <<>>
      /\ \A i \in 1 .. L :
           upTo[i] = IF Order[i] \in fs THEN Append(upTo[i - 1], Order[i]) ELSE upTo[i - 1]
  <2> HIDE DEF upTo
  <2>1. \A i \in 0 .. L : upTo[i] = Rule(upTo)[i]
    BY <1>4
  <2> HIDE DEF L
  <2>2. QED
    BY <1>1, <2>1
<1> HIDE DEF upTo
<1> DEFINE Unsorted == {i \in Nat : i <= L /\ ~ SortedUpTo(fs, i, upTo[i])}
<1>6. ASSUME Unsorted # {}
      PROVE  FALSE
  <2>1. PICK i \in Unsorted : \A j \in Unsorted : i <= j
    <3>1. Unsorted \in SUBSET Nat
      OBVIOUS
    <3> HIDE DEF Unsorted
    <3>2. QED
      BY <1>6, <3>1, LeastElement
  <2>2. i \in Nat /\ i <= L /\ ~ SortedUpTo(fs, i, upTo[i])
    OBVIOUS
  <2>3. CASE i = 0
    <3>1. SortedUpTo(fs, 0, <<>>)
      BY DEF SortedUpTo
    <3>2. QED
      BY <1>5, <2>2, <2>3, <3>1
  <2>4. CASE i # 0
    <3>1. i - 1 \in Nat /\ i - 1 <= L /\ ~ (i <= i - 1) /\ i \in 1 .. L
      <4> HIDE DEF L
      <4>1. QED
        BY <1>1, <2>2, <2>4
    <3>2. i - 1 \notin Unsorted
      <4> HIDE DEF Unsorted
      <4>1. QED
        BY <2>1, <3>1
    <3>3. SortedUpTo(fs, i - 1, upTo[i - 1])
      BY <3>1, <3>2
    <3>4. SortedUpTo(fs, i, IF Order[i] \in fs THEN Append(upTo[i - 1], Order[i]) ELSE upTo[i - 1])
      BY <3>1, <3>3, SortedStep
    <3>5. QED
      BY <1>5, <2>2, <3>1, <3>4
  <2>5. QED
    BY <2>3, <2>4
<1>7. QED
  <2>1. L \notin Unsorted
    BY <1>6
  <2>2. SortedUpTo(fs, L, upTo[L])
    BY <1>1, <2>1
  <2>3. QED
    BY <1>2, <2>2
------------------------------------------------------------------------------
(***************************************************************************)
(* What names lead to.                                                     *)
(***************************************************************************)
Objects == Views \cup Tables \cup {Nothing}

\* Readers, aliases and tables are told apart, and none of them is Nothing.
LEMMA Kinds ==
  /\ Views \cap Tables = {} /\ Nothing \notin Views \cup Tables
  /\ \A f \in Files : Reader(f) \in Views /\ Reader(f).kind = "reader" /\ Reader(f).from = f
  /\ \A n \in Names : Alias(n) \in Views /\ Alias(n).kind = "alias" /\ Alias(n).from = n
  /\ \A c \in Contents : Table(c) \in Tables /\ Table(c).kind = "table" /\ Table(c).from = c
  /\ \A f, n : Reader(f) # Alias(n)
<1>1. /\ \A f \in Files : Reader(f) \in Views /\ Reader(f).kind = "reader" /\ Reader(f).from = f
      /\ \A n \in Names : Alias(n) \in Views /\ Alias(n).kind = "alias" /\ Alias(n).from = n
      /\ \A c \in Contents : Table(c) \in Tables /\ Table(c).kind = "table" /\ Table(c).from = c
  BY DEF Views, Tables, Reader, Alias, Table
<1>2. \A f, n : Reader(f) # Alias(n)
  <2>1. \A f, n : Reader(f).kind = "reader" /\ Alias(n).kind = "alias"
    BY DEF Reader, Alias
  <2>2. QED
    BY <2>1
<1>3. Views \cap Tables = {}
  <2>1. \A o \in Tables : o.kind = "table"
    BY <1>1 DEF Tables
  <2>2. \A o \in Views : o.kind \in {"reader", "alias"}
    BY <1>1 DEF Views
  <2>3. QED
    BY <2>1, <2>2
<1>4. QED
  BY <1>1, <1>2, <1>3, NothingIsNoObject

LEMMA ObjectsOfKind ==
  /\ \A o \in Views : \/ \E f \in Files : o = Reader(f) /\ o.kind = "reader" /\ o.from = f
                      \/ \E n \in Names : o = Alias(n) /\ o.kind = "alias" /\ o.from = n
  /\ \A o \in Tables : o.kind = "table" /\ o.from \in Contents
BY Kinds DEF Views, Tables

\* What is read under a name: itself, or what its view reads.
Followed(o) == IF o \in Views /\ o.kind = "alias" THEN objects[o.from] ELSE o

LEMMA Walk ==
  ASSUME TypeOK, NEW n \in Names
  PROVE  \E walk : /\ walk \in [0 .. Len(Order) + 1 -> Objects]
                   /\ walk[0] = objects[n]
                   /\ \A i \in 1 .. Len(Order) + 1 : walk[i] = Followed(walk[i - 1])
                   /\ End(n) = walk[Len(Order) + 1]
<1> DEFINE L == Len(Order)
           step == [i \in Nat |-> [o \in Objects |-> Followed(o)]]
           Rule(g) == [i \in 0 .. L + 1 |->
                         IF i = 0 THEN objects[n]
                         ELSE LET o == g[i - 1]
                              IN  IF o \in Views /\ o.kind = "alias" THEN objects[o.from] ELSE o]
           walk == CHOOSE g : g = Rule(g)
<1>1. L + 1 \in Nat
  BY OrderAssumption
<1>2. End(n) = walk[L + 1]
  BY DEF End
<1>3. objects[n] \in Objects /\ \A o \in Objects : Followed(o) \in Objects
  <2>1. objects \in [Names -> Objects]
    BY DEF TypeOK, Objects
  <2>2. ASSUME NEW o \in Views, o.kind = "alias"
        PROVE  o.from \in Names
    BY <2>2, ObjectsOfKind, Kinds
  <2>3. QED
    BY <2>1, <2>2 DEF Followed
<1>4. \E g \in [0 .. L + 1 -> Objects] : g = Rule(g)
  <2>1. StaysIn(step, Objects)
    BY <1>3 DEF StaysIn
  <2>2. PICK g : Follows(g, step, objects[n], Objects, L + 1)
    <3> DEFINE a == objects[n]
               N == L + 1
    <3>1. a \in Objects /\ N \in Nat
      BY <1>1, <1>3
    <3> HIDE DEF a, N, step
    <3>2. \E g : Follows(g, step, a, Objects, N)
      BY <2>1, <3>1, Iterated
    <3>3. QED
      BY <3>2 DEF a, N
  <2>3. g \in [0 .. L + 1 -> Objects] /\ g[0] = objects[n]
    BY <2>2 DEF Follows
  <2>4. ASSUME NEW i \in 1 .. L + 1
        PROVE  g[i] = Followed(g[i - 1])
    <3>1. i \in Nat /\ i - 1 \in 0 .. L + 1
      <4> HIDE DEF L
      <4>1. QED
        BY <1>1
    <3>2. g[i - 1] \in Objects
      BY <2>3, <3>1
    <3>3. g[i] = step[i][g[i - 1]]
      BY <2>2 DEF Follows
    <3>4. QED
      BY <3>1, <3>2, <3>3
  <2>5. ASSUME NEW i \in 0 .. L + 1
        PROVE  g[i] = Rule(g)[i]
    <3>1. CASE i = 0
      BY <2>3, <3>1
    <3>2. CASE i # 0
      <4>1. i \in 1 .. L + 1
        <5> HIDE DEF L
        <5>1. QED
          BY <1>1, <3>2
      <4>2. QED
        BY <2>4, <3>2, <4>1 DEF Followed
    <3>3. QED
      BY <3>1, <3>2
  <2>6. g = [i \in 0 .. L + 1 |-> g[i]]
    BY <2>3
  <2>7. g = Rule(g)
    <3> HIDE DEF L
    <3>1. QED
      BY <2>5, <2>6
  <2>8. QED
    BY <2>3, <2>7
<1>5. walk = Rule(walk)
  <2> HIDE DEF Rule
  <2>1. QED
    BY <1>4
<1> HIDE DEF walk
<1>6. walk[0] = objects[n]
  <2>1. 0 \in 0 .. L + 1
    <3> HIDE DEF L
    <3>1. QED
      BY <1>1
  <2>2. walk[0] = Rule(walk)[0]
    BY <1>5
  <2>3. QED
    BY <2>1, <2>2
<1>7. ASSUME NEW i \in 1 .. L + 1
      PROVE  walk[i] = Followed(walk[i - 1])
  <2>1. i \in 0 .. L + 1 /\ i # 0
    <3> HIDE DEF L
    <3>1. QED
      BY <1>1
  <2>2. walk[i] = Rule(walk)[i]
    BY <1>5
  <2>3. QED
    BY <2>1, <2>2 DEF Followed
<1>8. \A i \in 0 .. L + 1 : walk[i] \in Objects
  <2> DEFINE Wrong == {i \in Nat : i <= L + 1 /\ walk[i] \notin Objects}
  <2>1. ASSUME Wrong # {}
        PROVE  FALSE
    <3>1. PICK i \in Wrong : \A j \in Wrong : i <= j
      <4>1. Wrong \in SUBSET Nat
        OBVIOUS
      <4> HIDE DEF Wrong
      <4>2. QED
        BY <2>1, <4>1, LeastElement
    <3>2. i \in Nat /\ i <= L + 1 /\ walk[i] \notin Objects
      OBVIOUS
    <3>3. i # 0
      BY <1>3, <1>6, <3>2
    <3>4. i - 1 \in Nat /\ i - 1 <= L + 1 /\ ~ (i <= i - 1) /\ i \in 1 .. L + 1
      <4> HIDE DEF L
      <4>1. QED
        BY <1>1, <3>2, <3>3
    <3>5. i - 1 \notin Wrong
      <4> HIDE DEF Wrong
      <4>1. QED
        BY <3>1, <3>4
    <3>6. walk[i - 1] \in Objects
      BY <3>4, <3>5
    <3>7. QED
      BY <1>3, <1>7, <3>2, <3>4, <3>6
  <2>2. ASSUME NEW i \in 0 .. L + 1
        PROVE  walk[i] \in Objects
    <3>1. i \in Nat /\ i <= L + 1
      <4> HIDE DEF L
      <4>1. QED
        BY <1>1
    <3>2. QED
      BY <2>1, <3>1
  <2>3. QED
    BY <2>2
<1>9. walk \in [0 .. L + 1 -> Objects]
  <2>1. walk = [i \in 0 .. L + 1 |-> walk[i]]
    BY <1>5
  <2> HIDE DEF L
  <2>2. QED
    BY <1>8, <2>1
<1>10. QED
  BY <1>2, <1>6, <1>7, <1>9

\* A name that can be read shows the contents of a file or of a table.
LEMMA ShowsContents ==
  ASSUME TypeOK, NEW n \in Names, CanRead(n)
  PROVE  Shows(n) \in Contents
<1>1. End(n) \in Objects
  <2>1. Len(Order) + 1 \in 0 .. Len(Order) + 1
    BY OrderAssumption
  <2>2. QED
    BY <2>1, Walk
<1>2. Shows(n) # Nothing
  BY DEF CanRead
<1>3. End(n) # Nothing /\ End(n).kind # "alias" /\ Shows(n) = End(n).from
  BY <1>2 DEF Shows
<1>4. QED
  BY <1>1, <1>3, ObjectsOfKind DEF Objects, Contents

\* A chain of views ends at a file: each view that reads another name lowers
\* the rank, and no rank is below 1.
LEMMA ChainEnds ==
  ASSUME TypeOK, NEW D \in SUBSET Names, NEW rank \in [D -> 1 .. Len(Order)],
         NEW known \in SUBSET Files, Chained(D, rank, known), NEW n \in D
  PROVE  \E f \in known : End(n) = Reader(f)
<1> DEFINE L == Len(Order)
           Known(o) == \E f \in known : o = Reader(f)
           On(o, i) == \/ Known(o)
                       \/ \E m \in D : o = Alias(m) /\ (IsReader(m) \/ rank[m] + i < L)
<1>1. L \in Nat /\ \A m \in D : rank[m] \in 1 .. L
  BY OrderAssumption
<1>2. PICK walk : /\ walk \in [0 .. L + 1 -> Objects]
                  /\ walk[0] = objects[n]
                  /\ \A i \in 1 .. L + 1 : walk[i] = Followed(walk[i - 1])
                  /\ End(n) = walk[L + 1]
  BY Walk
<1>3. ASSUME NEW m \in D, IsReader(m)
      PROVE  Known(objects[m])
  BY <1>3, Kinds DEF Chained, IsReader
<1>4. /\ \A o : Known(o) => Followed(o) = o
      /\ \A m \in D : Followed(Alias(m)) = objects[m]
  <2>1. \A o : Known(o) => o.kind = "reader"
    BY Kinds
  <2>2. \A m \in D : m \in Names /\ Alias(m) \in Views /\ Alias(m).kind = "alias" /\ Alias(m).from = m
    BY Kinds
  <2>3. QED
    BY <2>1, <2>2 DEF Followed
<1>5. On(walk[0], 0)
  <2> HIDE DEF Known
  <2>1. CASE Known(objects[n])
    BY <1>2, <2>1
  <2>2. CASE \E m \in D : objects[n] = Alias(m) /\ (IsReader(m) \/ rank[m] < rank[n])
    <3>1. PICK m \in D : objects[n] = Alias(m) /\ (IsReader(m) \/ rank[m] < rank[n])
      BY <2>2
    <3>2. rank[m] < rank[n] => rank[m] + 0 < L
      <4> HIDE DEF L
      <4>1. QED
        BY <1>1
    <3>3. QED
      BY <1>2, <3>1, <3>2
  <2>3. QED
    BY <2>1, <2>2 DEF Chained, Known
<1>6. ASSUME NEW i \in 1 .. L + 1, On(walk[i - 1], i - 1)
      PROVE  On(walk[i], i)
  <2> DEFINE o == walk[i - 1]
  <2>1. walk[i] = Followed(o)
    BY <1>2
  <2> HIDE DEF o, Known
  <2>2. CASE Known(o)
    BY <1>4, <2>1, <2>2
  <2>3. CASE \E m \in D : o = Alias(m) /\ (IsReader(m) \/ rank[m] + (i - 1) < L)
    <3>1. PICK m \in D : o = Alias(m) /\ (IsReader(m) \/ rank[m] + (i - 1) < L)
      BY <2>3
    <3>2. walk[i] = objects[m]
      BY <1>4, <2>1, <3>1
    <3>3. CASE Known(objects[m])
      BY <3>2, <3>3
    <3>4. CASE ~ Known(objects[m])
      <4>1. PICK k \in D : objects[m] = Alias(k) /\ (IsReader(k) \/ rank[k] < rank[m])
        BY <3>4 DEF Chained, Known
      <4>2. rank[m] + (i - 1) < L
        BY <1>3, <3>1, <3>4
      <4>3. rank[k] < rank[m] => rank[k] + i < L
        <5>1. rank[k] \in Nat /\ rank[m] \in Nat /\ i \in Nat /\ L \in Nat
          BY <1>1
        <5> HIDE DEF L
        <5>2. QED
          BY <4>2, <5>1
      <4>4. QED
        BY <3>2, <4>1, <4>3
    <3>5. QED
      BY <3>3, <3>4
  <2>4. QED
    BY <1>6, <2>2, <2>3 DEF o
<1> HIDE DEF On
<1>7. On(walk[L], L)
  <2> DEFINE Off == {i \in Nat : i <= L /\ ~ On(walk[i], i)}
  <2>1. ASSUME Off # {}
        PROVE  FALSE
    <3>1. PICK i \in Off : \A j \in Off : i <= j
      <4>1. Off \in SUBSET Nat
        OBVIOUS
      <4> HIDE DEF Off
      <4>2. QED
        BY <2>1, <4>1, LeastElement
    <3>2. i \in Nat /\ i <= L /\ ~ On(walk[i], i)
      OBVIOUS
    <3>3. i # 0
      BY <1>5, <3>2
    <3>4. i - 1 \in Nat /\ i - 1 <= L /\ ~ (i <= i - 1) /\ i \in 1 .. L + 1
      <4> HIDE DEF L
      <4>1. QED
        BY <1>1, <3>2, <3>3
    <3>5. i - 1 \notin Off
      <4> HIDE DEF Off
      <4>1. QED
        BY <3>1, <3>4
    <3>6. QED
      BY <1>6, <3>2, <3>4, <3>5
  <2>2. QED
    BY <1>1, <2>1
<1>8. QED
  <2>1. L + 1 \in 1 .. L + 1 /\ (L + 1) - 1 = L
    <3> HIDE DEF L
    <3>1. QED
      BY <1>1
  <2>2. End(n) = Followed(walk[L])
    BY <1>2, <2>1
  <2>3. CASE Known(walk[L])
    BY <1>4, <2>2, <2>3
  <2>4. CASE ~ Known(walk[L])
    <3>1. PICK m \in D : walk[L] = Alias(m) /\ (IsReader(m) \/ rank[m] + L < L)
      BY <1>7, <2>4 DEF On
    <3>2. ~ (rank[m] + L < L)
      <4>1. rank[m] \in Nat /\ L \in Nat
        BY <1>1
      <4> HIDE DEF L
      <4>2. QED
        BY <4>1
    <3>3. Known(objects[m])
      BY <1>3, <3>1, <3>2
    <3>4. QED
      BY <1>4, <2>2, <3>1, <3>3
  <2>5. QED
    BY <2>3, <2>4
------------------------------------------------------------------------------
(***************************************************************************)
(* The names of a file.                                                    *)
(***************************************************************************)
LEMMA NumbersDiffer ==
  ASSUME NEW p \in Plain, NEW m \in Nat \ {0}, NEW n \in Nat \ {0},
         Numbered(Safe[p], m) = Numbered(Safe[p], n)
  PROVE  m = n
<1> DEFINE b == Safe[p]
           S == {Safe[p][i] : i \in DOMAIN Safe[p]} \cup Nat
<1>1. b \in Seq(S)
  <2>1. b \in Seq({Safe[p][i] : i \in DOMAIN Safe[p]})
    BY NamesAssumption
  <2>2. QED
    BY <2>1
<1> HIDE DEF b
<1>2. \A k \in Nat : /\ Len(Append(b, k)) = Len(b) + 1
                     /\ Append(b, k)[Len(b) + 1] = k
  BY <1>1
<1>3. Len(b) \in Nat
  BY <1>1
<1>4. \A k \in Nat : Append(b, k) # b
  BY <1>2, <1>3
<1>5. CASE m = 1 \/ n = 1
  BY <1>4, <1>5 DEF Numbered, b
<1>6. CASE m # 1 /\ n # 1
  <2>1. Append(b, m) = Append(b, n)
    BY <1>6 DEF Numbered, b
  <2>2. QED
    BY <1>2, <2>1
<1>7. QED
  BY <1>5, <1>6

\* There is a number left for the normalized name of a file.
LEMMA FreeNumber ==
  ASSUME NEW p \in Plain, IsFiniteSet(used), Cardinality(used) < Len(Order)
  PROVE  \E n \in 1 .. Len(Order) : Free(Safe[p], n)
<1> DEFINE L    == Len(Order)
           name == [n \in 1 .. L |-> Numbered(Safe[p], n)]
           Left == {n \in Nat : n \in 1 .. L /\ Numbered(Safe[p], n) \notin used}
<1>1. L \in Nat
  BY OrderAssumption
<1>2. Left # {}
  <2>1. SUFFICES ASSUME Left = {} PROVE FALSE
    OBVIOUS
  <2>2. name \in [1 .. L -> used]
    <3>1. \A n \in 1 .. L : n \in Nat
      OBVIOUS
    <3>2. QED
      BY <2>1, <3>1
  <2>3. \A m, n \in 1 .. L : name[m] = name[n] => m = n
    <3>1. \A n \in 1 .. L : n \in Nat \ {0}
      OBVIOUS
    <3>2. QED
      BY <3>1, NumbersDiffer
  <2>4. name \in Injection(1 .. L, used)
    <3> HIDE DEF name
    <3>1. QED
      BY <2>2, <2>3, Fun_IsInj
  <2>5. Cardinality(1 .. L) <= Cardinality(used)
    <3> HIDE DEF name, L
    <3>1. QED
      BY <2>4, FS_Injection
  <2>6. Cardinality(1 .. L) = L
    <3> HIDE DEF L
    <3>1. QED
      BY <1>1, FS_Interval
  <2>7. Cardinality(used) \in Nat
    BY FS_CardinalityType
  <2> HIDE DEF L
  <2>8. QED
    BY <1>1, <2>5, <2>6, <2>7 DEF L
<1>3. PICK n \in Left : \A m \in Left : n <= m
  <2>1. Left \in SUBSET Nat
    OBVIOUS
  <2> HIDE DEF Left
  <2>2. QED
    BY <1>2, <2>1, LeastElement
<1>4. n \in 1 .. L /\ Numbered(Safe[p], n) \notin used
  OBVIOUS
<1>5. ASSUME NEW m \in 1 .. n - 1
      PROVE  Numbered(Safe[p], m) \in used
  <2>1. m \in Nat /\ m \in 1 .. L /\ ~ (n <= m)
    <3> HIDE DEF L
    <3>1. QED
      BY <1>1, <1>4
  <2>2. m \notin Left
    <3> HIDE DEF Left
    <3>1. QED
      BY <1>3, <2>1
  <2>3. QED
    BY <2>1, <2>2
<1>6. QED
  BY <1>4, <1>5 DEF Free

\* The aliases of the file in hand are names.
LEMMA AliasTypes ==
  ASSUME Types, pc \in Refreshing, queue # <<>>
  PROVE  /\ InHand \in Files
         /\ Len(queue) \in Nat \ {0}
         /\ ExactAlias(InHand) \in Plain /\ ExactAlias(InHand) \in Names
         /\ queue[1] = InHand
<1>1. queue \in Seq(Files)
  BY DEF Types, TypeOK
<1>2. InHand \in Files /\ Len(queue) \in Nat \ {0} /\ queue[1] = InHand
  BY <1>1 DEF InHand
<1>3. QED
  BY <1>2 DEF ExactAlias, Plain, Names

LEMMA SafeAliasTypes ==
  ASSUME Types, Queued, pc = "safe", queue # <<>>
  PROVE  /\ SafeAlias(InHand) \in SafeNames
         /\ SafeNames \subseteq Names
         /\ Len(queue) \in 1 .. Len(Order)
<1>1. IsFiniteSet(used) /\ Cardinality(used) + Len(queue) <= Len(Order)
  BY DEF Queued, Refreshing
<1>2. Len(queue) \in Nat \ {0} /\ ExactAlias(InHand) \in Plain
  BY AliasTypes DEF Refreshing
<1>3. Cardinality(used) \in Nat /\ Len(Order) \in Nat
  BY <1>1, FS_CardinalityType, OrderAssumption
<1>4. Cardinality(used) < Len(Order) /\ Len(queue) \in 1 .. Len(Order)
  BY <1>1, <1>2, <1>3
<1>5. \E n \in 1 .. Len(Order) : Free(Safe[ExactAlias(InHand)], n)
  BY <1>1, <1>2, <1>4, FreeNumber
<1> DEFINE n == CHOOSE n \in 1 .. Len(Order) : Free(Safe[ExactAlias(InHand)], n)
<1>6. n \in 1 .. Len(Order)
  BY <1>5
<1>7. SafeAlias(InHand) = Numbered(Safe[ExactAlias(InHand)], n)
  BY DEF SafeAlias
<1> HIDE DEF n
<1>8. QED
  BY <1>2, <1>4, <1>6, <1>7 DEF SafeNames, Names
------------------------------------------------------------------------------
(***************************************************************************)
(* Opening, closing and crashing, and what the folder does.                *)
(***************************************************************************)
LEMMA Initially == Init => IndInv
<1> SUFFICES ASSUME Init PROVE IndInv
  OBVIOUS
<1>1. TypeOK
  <2>1. queue \in Seq(Files) /\ events \in 0 .. MaxEvents
    BY EventsAssumption DEF Init
  <2>2. disk \in [Files -> {"absent", "readable", "unreadable"}]
        /\ objects \in [Names -> Views \cup Tables \cup {Nothing}]
    BY DEF Init
  <2>3. QED
    BY <2>1, <2>2 DEF Init, TypeOK, Refreshing
<1>2. Types /\ Queued /\ Begun /\ ViewsStand /\ GuardedViews /\ Chains
  BY <1>1 DEF Init, Types, Queued, Begun, ViewsStand, GuardedViews, Chains, Busy, Refreshing
<1>3. QED
  BY <1>2 DEF Init, IndInv, Unsettled

\* A refresh begins with nothing but the files that are there.
LEMMA DiscoverKeeps ==
  ASSUME IndInv, Discover, opening' \in BOOLEAN, readOnly' \in BOOLEAN,
         UNCHANGED <<disk, objects, records, touched, events>>
  PROVE  IndInv'
<1>1. /\ pc' = "safe" /\ used' = {} /\ made' = {} /\ backed' = {} /\ settled' = FALSE
      /\ found' \subseteq Files /\ queue' = Sorted(found') /\ safe' = Nothing
  BY DEF Discover
<1>2. /\ queue' \in Seq(Files) /\ Len(queue') <= Len(Order)
      /\ \A i, j \in 1 .. Len(queue') : queue'[i] = queue'[j] => i = j
  BY <1>1, SortedFiles DEF SortedUpTo
<1>3. Types'
  BY <1>1, <1>2 DEF IndInv, Types, TypeOK, Refreshing, Busy
<1>4. Queued'
  <2>1. IsFiniteSet({}) /\ Cardinality({}) = 0
    BY FS_EmptySet
  <2>2. Len(queue') \in Nat
    BY <1>2
  <2>3. QED
    BY <1>1, <1>2, <2>1, <2>2 DEF Queued
<1>5. Begun' /\ ViewsStand' /\ GuardedViews'
  BY <1>1 DEF Begun, ViewsStand, GuardedViews
<1>6. Chains'
  <2> DEFINE rank0 == [n \in {} |-> 1]
  <2>1. rank0 \in [{} -> 1 .. Len(Order)]
    OBVIOUS
  <2>2. ChainsNow({}, rank0)'
    BY <1>1 DEF ChainsNow, AllIn, Chained
  <2> HIDE DEF rank0
  <2>3. \E rank \in [{} -> 1 .. Len(Order)] : ChainsNow({}, rank)'
    BY <2>1, <2>2
  <2>4. QED
    BY <1>1, <2>3 DEF Chains
<1>7. QED
  BY <1>1, <1>3, <1>4, <1>5, <1>6 DEF IndInv, Unsettled

\* The database outlives the object.
LEMMA GoneKeeps ==
  ASSUME IndInv, Gone, objects' = objects, events' \in 0 .. MaxEvents,
         disk' = disk
  PROVE  IndInv'
<1>1. Types'
  <2>1. queue' \in Seq(Files)
    BY DEF Gone, Forget
  <2>2. QED
    BY <2>1 DEF IndInv, Types, TypeOK, Gone, Forget, Refreshing, Busy
<1>2. QED
  BY <1>1 DEF IndInv, Gone, Queued, Begun, ViewsStand, GuardedViews, Chains, Unsettled, Busy,
     Refreshing

LEMMA EventCounted ==
  ASSUME TypeOK, Event
  PROVE  events' \in 0 .. MaxEvents
BY EventsAssumption DEF TypeOK, Event

\* What the files hold matters to no view.
LEMMA FilesKeep ==
  ASSUME IndInv, disk' \in [Files -> {"absent", "readable", "unreadable"}],
         events' \in 0 .. MaxEvents,
         UNCHANGED <<objects, pc, readOnly, refreshVars, libraryVars, history>>
  PROVE  IndInv'
<1> USE DEF refreshVars, libraryVars, history
<1>1. Types'
  BY DEF IndInv, Types, TypeOK
<1>2. Queued' /\ GuardedViews'
  BY DEF IndInv, Queued, GuardedViews, IsView
<1>3. (ExactAlias(InHand) = ExactAlias(InHand)') /\ Hand' = Hand /\ KnownNow' = KnownNow
  BY DEF ExactAlias, Shared, InHand, Hand, KnownNow, FilesOf
<1>4. \A f, t, e : Stands(f, t, e)' <=> Stands(f, t, e)
  BY DEF Stands
<1>5. Begun' /\ ViewsStand'
  BY <1>3, <1>4 DEF IndInv, Begun, ViewsStand, Apart, InHand
<1>6. \A D, rank : ChainsNow(D, rank)' <=> ChainsNow(D, rank)
  BY <1>3 DEF ChainsNow, AllIn, Chained, IsReader
<1>7. \A D, rank : (AllIn(records, D) /\ Chained(D, rank, FilesOf(records)))'
                     <=> (AllIn(records, D) /\ Chained(D, rank, FilesOf(records)))
  BY DEF AllIn, Chained, IsReader, FilesOf
<1>8. Chains'
  BY <1>6, <1>7 DEF IndInv, Chains
<1>9. QED
  BY <1>1, <1>2, <1>5, <1>8 DEF IndInv, Unsettled

\* What no step of a refresh and no statement touches.
LEMMA OthersKeep ==
  ASSUME IndInv,
         \/ Open \/ Refresh \/ Close \/ Crash \/ UNCHANGED vars
         \/ \E f \in Files : FolderChanges(f)
         \/ \E source \in Names, f \in Files : Export(source, f)
  PROVE  IndInv'
<1>1. TypeOK /\ events \in 0 .. MaxEvents /\ opening \in BOOLEAN /\ readOnly \in BOOLEAN
      /\ disk \in [Files -> {"absent", "readable", "unreadable"}]
  BY DEF IndInv, Types, TypeOK
<1>2. CASE Open
  BY <1>1, <1>2, DiscoverKeeps DEF Open
<1>3. CASE Refresh
  BY <1>1, <1>3, DiscoverKeeps DEF Refresh
<1>4. CASE Close
  BY <1>1, <1>4, GoneKeeps DEF Close
<1>5. CASE Crash
  BY <1>1, <1>5, GoneKeeps, EventCounted DEF Crash
<1>6. CASE UNCHANGED vars
  BY <1>1, <1>6, FilesKeep DEF vars
<1>7. CASE \E f \in Files : FolderChanges(f)
  BY <1>1, <1>7, FilesKeep, EventCounted DEF FolderChanges
<1>8. CASE \E source \in Names, f \in Files : Export(source, f)
  BY <1>1, <1>8, FilesKeep, EventCounted DEF Export
<1>9. QED
  BY <1>2, <1>3, <1>4, <1>5, <1>6, <1>7, <1>8
------------------------------------------------------------------------------
(***************************************************************************)
(* Registering the files, view by view.                                    *)
(***************************************************************************)
\* The normalized view of the file in hand.
LEMMA CreateSafeKeeps ==
  ASSUME IndInv, CreateSafe
  PROVE  IndInv'
<1>1. PICK f, s, e, q : f = InHand /\ s = SafeAlias(InHand) /\ e = ExactAlias(InHand)
                        /\ q = Len(queue)
  OBVIOUS
<1>2. /\ pc = "safe" /\ queue # <<>> /\ safe' = s /\ used' = used \cup {s}
      /\ \/ /\ ~ IsTable(s) /\ objects' = [objects EXCEPT ![s] = Reader(f)]
            /\ pc' = IF e = s THEN "record" ELSE "exact"
         \/ pc' = "failed" /\ objects' = objects
      /\ UNCHANGED <<disk, readOnly, opening, found, queue, made, libraryVars, history, events>>
  BY <1>1 DEF CreateSafe, InHand, Put, Note, CanCreateView
<1>3. /\ f \in Files /\ e \in Names /\ s \in SafeNames /\ s \in Names
      /\ q \in 1 .. Len(Order) /\ Len(Order) \in Nat
  BY <1>1, <1>2, AliasTypes, SafeAliasTypes, OrderAssumption DEF IndInv, Refreshing
<1>4. TypeOK /\ objects \in [Names -> Views \cup Tables \cup {Nothing}]
  BY DEF IndInv, Types, TypeOK
<1>5. /\ InHand' = f /\ ExactAlias(InHand)' = e /\ Hand' = {s, e} /\ Hand = {}
      /\ pc' \in Busy /\ pc \notin Busy /\ pc \in Refreshing /\ pc' \in Refreshing
      /\ KnownNow' = FilesOf(made) \cup {f} /\ KnownNow = FilesOf(made)
  BY <1>1, <1>2 DEF InHand, Hand, ExactAlias, Shared, KnownNow, FilesOf, Busy, Refreshing
<1>6. \/ objects' = objects
      \/ objects' = [objects EXCEPT ![s] = Reader(f)]
  BY <1>2
<1>7. /\ \A n \in Names : n # s => objects'[n] = objects[n]
      /\ pc' # "failed" => objects'[s] = Reader(f)
  BY <1>2, <1>3, <1>4
<1>8. Types'
  <2>1. Reader(f) \in Views
    BY <1>3, Kinds
  <2>2. objects' \in [Names -> Views \cup Tables \cup {Nothing}]
    BY <1>3, <1>4, <1>6, <2>1
  <2>3. pc' \in Refreshing
    BY <1>5
  <2>4. QED
    BY <1>2, <1>3, <1>4, <2>2, <2>3 DEF Types, TypeOK, libraryVars, history
<1>9. Queued'
  <2>1. IsFiniteSet(used) /\ Cardinality(used) + q <= Len(Order)
    BY <1>1, <1>2, <1>5 DEF IndInv, Queued
  <2>2. /\ IsFiniteSet(used') /\ Cardinality(used) \in Nat
        /\ Cardinality(used') = IF s \in used THEN Cardinality(used) ELSE Cardinality(used) + 1
    BY <1>2, <2>1, FS_AddElement, FS_CardinalityType
  <2>3. Cardinality(used') + q <= Len(Order) + 1
    BY <1>3, <2>1, <2>2
  <2>4. pc' # "safe" /\ q = Len(queue')
    BY <1>1, <1>2
  <2>5. QED
    BY <1>2, <1>5, <2>2, <2>3, <2>4 DEF IndInv, Queued
<1>10. Begun'
  BY <1>2, <1>5, <1>7 DEF Begun, Stands
<1>11. ViewsStand'
  <2>1. ASSUME NEW r \in made, r.readable, Apart(r, made), {s, e} \cap AliasesOf(r) = {}
        PROVE  Stands(r.file, r.table, r.exact)'
    <3>1. Stands(r.file, r.table, r.exact)
      BY <1>5, <2>1 DEF IndInv, ViewsStand
    <3>2. r.table \in Names /\ r.exact \in Names /\ r.table # s /\ r.exact # s
      BY <1>4, <2>1 DEF TypeOK, Records, AliasesOf
    <3>3. QED
      BY <1>7, <3>1, <3>2 DEF Stands
  <2>2. pc' # "ready" /\ made' = made
    BY <1>2
  <2>3. QED
    BY <1>5, <2>1, <2>2 DEF ViewsStand, Apart
<1>12. GuardedViews'
  <2>1. \A n \in backed : IsView(n) /\ n \in Names
    BY <1>4, <1>5 DEF IndInv, GuardedViews, TypeOK
  <2>2. Reader(f) \in Views
    BY <1>3, Kinds
  <2>3. \A n \in backed : IsView(n)'
    BY <1>3, <1>4, <1>6, <2>1, <2>2 DEF IsView
  <2>4. QED
    BY <1>2, <2>3 DEF GuardedViews, libraryVars, history
<1>13. Chains'
  <2>0. PICK D \in SUBSET Names : \E rank \in [D -> 1 .. Len(Order)] : ChainsNow(D, rank)
    BY <1>5 DEF IndInv, Chains
  <2>1. PICK rank \in [D -> 1 .. Len(Order)] : ChainsNow(D, rank)
    BY <2>0
  <2>2. /\ AllIn(made, D) /\ Chained(D, rank, FilesOf(made))
        /\ \A n \in D : rank[n] > q
    BY <1>1, <1>2, <1>5, <2>1 DEF ChainsNow
  <2>3. \A n \in D : rank[n] >= q
    BY <1>3, <2>2
  <2>4. CASE pc' = "failed"
    <3>1. objects' = objects /\ made' = made
      BY <1>2, <2>4
    <3>2. AllIn(made, D)' /\ Chained(D, rank, KnownNow)'
      BY <1>5, <2>2, <3>1 DEF AllIn, Chained, IsReader
    <3>3. ChainsNow(D, rank)'
      BY <1>1, <1>2, <2>3, <2>4, <3>2 DEF ChainsNow
    <3>4. QED
      BY <1>5, <2>4, <3>3 DEF Chains
  <2>5. CASE pc' # "failed"
    <3> DEFINE D1    == D \cup {s}
               rank1 == [n \in D1 |-> IF n = s THEN q ELSE rank[n]]
    <3>1. D1 \in SUBSET Names /\ rank1 \in [D1 -> 1 .. Len(Order)]
      BY <1>3, <2>0, <2>1
    <3>2. /\ rank1[s] = q
          /\ \A n \in D \ {s} : rank1[n] = rank[n]
          /\ \A n \in D1 \ {s} : rank1[n] > q
          /\ \A n \in D1 : rank1[n] >= q
      BY <1>3, <2>2, <2>3
    <3>3. ASSUME NEW n \in D1
          PROVE  \/ \E g \in FilesOf(made) \cup {f} : objects'[n] = Reader(g)
                 \/ \E m \in D1 : objects'[n] = Alias(m) /\ (IsReader(m)' \/ rank1[m] < rank1[n])
      <4>1. IsReader(s)'
        BY <1>3, <1>7, <2>5 DEF IsReader
      <4>2. CASE n = s
        BY <1>7, <2>5, <4>2
      <4>3. CASE n # s
        <5>1. n \in D /\ objects'[n] = objects[n] /\ rank1[n] = rank[n]
          BY <1>7, <3>2, <4>3
        <5>2. CASE \E g \in FilesOf(made) : objects[n] = Reader(g)
          BY <5>1, <5>2
        <5>3. CASE \E m \in D : objects[n] = Alias(m) /\ (IsReader(m) \/ rank[m] < rank[n])
          <6>1. PICK m \in D : objects[n] = Alias(m) /\ (IsReader(m) \/ rank[m] < rank[n])
            BY <5>3
          <6>2. m = s \/ (rank1[m] = rank[m] /\ (IsReader(m) => IsReader(m)'))
            BY <1>7, <3>2 DEF IsReader
          <6> HIDE DEF rank1
          <6>3. QED
            BY <4>1, <5>1, <6>1, <6>2
        <5>4. QED
          BY <2>2, <5>1, <5>2, <5>3 DEF Chained
      <4>4. QED
        BY <4>2, <4>3
    <3> HIDE DEF rank1
    <3>4. Chained(D1, rank1, KnownNow)'
      BY <1>5, <3>3 DEF Chained
    <3>5. AllIn(made, D1)'
      BY <1>2, <2>2 DEF AllIn
    <3>6. s \in D1 /\ (e = s => {s, e} \subseteq D1)
      OBVIOUS
    <3> HIDE DEF D1
    <3>7. ChainsNow(D1, rank1)'
      BY <1>1, <1>2, <1>5, <2>5, <3>2, <3>4, <3>5, <3>6 DEF ChainsNow
    <3>8. QED
      BY <1>2, <3>1, <3>7 DEF Chains
  <2>6. QED
    BY <2>4, <2>5
<1>14. QED
  BY <1>2, <1>5, <1>8, <1>9, <1>10, <1>11, <1>12, <1>13 DEF IndInv, Unsettled, history

\* The view of the exact name, which reads the normalized one.
LEMMA CreateExactKeeps ==
  ASSUME IndInv, CreateExact
  PROVE  IndInv'
<1>1. PICK f, s, e, q : f = InHand /\ s = safe /\ e = ExactAlias(InHand) /\ q = Len(queue)
  OBVIOUS
<1>2. /\ pc = "exact"
      /\ \/ ~ IsTable(e) /\ objects' = [objects EXCEPT ![e] = Alias(s)] /\ pc' = "record"
         \/ pc' = "failed" /\ objects' = objects
      /\ UNCHANGED <<disk, readOnly, refreshVars, libraryVars, history, events>>
  BY <1>1 DEF CreateExact, InHand, Put, CanCreateView
<1>3. TypeOK /\ objects \in [Names -> Views \cup Tables \cup {Nothing}]
  BY DEF IndInv, Types, TypeOK
<1>4. /\ InHand' = f /\ ExactAlias(InHand)' = e /\ Hand' = {s, e} /\ Hand = {s, e}
      /\ pc' \in Busy /\ pc \in Busy /\ pc \in Refreshing /\ pc' \in Refreshing
      /\ pc' # "exact" /\ pc' # "safe" /\ pc' # "ready" /\ safe' = s /\ queue' = queue
      /\ KnownNow' = FilesOf(made) \cup {f} /\ KnownNow = FilesOf(made) \cup {f}
  BY <1>1, <1>2 DEF InHand, Hand, ExactAlias, Shared, KnownNow, FilesOf, Busy, Refreshing,
                    refreshVars
<1>5. /\ f \in Files /\ e \in Names /\ s \in SafeNames /\ s \in Names
      /\ q \in Nat \ {0} /\ objects[s] = Reader(f) /\ s # e
  <2>1. queue # <<>> /\ s \in SafeNames
    BY <1>1, <1>2, <1>4 DEF IndInv, Types, TypeOK
  <2>2. f \in Files /\ e \in Names /\ q \in Nat \ {0}
    BY <1>1, <1>4, <2>1, AliasTypes DEF IndInv
  <2>3. QED
    BY <1>1, <1>2, <2>1, <2>2 DEF IndInv, Begun, Names
<1>6. /\ \A n \in Names : n # e => objects'[n] = objects[n]
      /\ pc' = "record" => objects'[e] = Alias(s)
      /\ pc' # "record" => pc' = "failed" /\ objects' = objects
  BY <1>2, <1>3, <1>5
<1>7. Types'
  <2>1. Alias(s) \in Views
    BY <1>5, Kinds
  <2>2. objects' \in [Names -> Views \cup Tables \cup {Nothing}]
    BY <1>2, <1>3, <1>5, <2>1
  <2>3. QED
    BY <1>2, <1>3, <1>4, <1>5, <2>2 DEF IndInv, Types, TypeOK, libraryVars, history, refreshVars
<1>8. Queued'
  BY <1>2, <1>4 DEF IndInv, Queued, refreshVars
<1>9. Begun'
  BY <1>4, <1>5, <1>6 DEF Begun, Stands
<1>10. ViewsStand'
  <2>1. ASSUME NEW r \in made, r.readable, Apart(r, made), {s, e} \cap AliasesOf(r) = {}
        PROVE  Stands(r.file, r.table, r.exact)'
    <3>1. Stands(r.file, r.table, r.exact)
      BY <1>4, <2>1 DEF IndInv, ViewsStand
    <3>2. r.table \in Names /\ r.exact \in Names /\ r.table # e /\ r.exact # e
      BY <1>3, <2>1 DEF TypeOK, Records, AliasesOf
    <3>3. QED
      BY <1>6, <3>1, <3>2 DEF Stands
  <2>2. pc' # "ready" /\ made' = made
    BY <1>2, <1>4 DEF refreshVars
  <2>3. QED
    BY <1>4, <2>1, <2>2 DEF ViewsStand, Apart
<1>11. GuardedViews'
  <2>1. \A n \in backed : IsView(n) /\ n \in Names
    BY <1>3, <1>4 DEF IndInv, GuardedViews, TypeOK
  <2>2. Alias(s) \in Views
    BY <1>5, Kinds
  <2>3. \A n \in backed : IsView(n)'
    BY <1>5, <1>6, <2>1, <2>2 DEF IsView
  <2>4. QED
    BY <1>2, <2>3 DEF GuardedViews, libraryVars, history
<1>12. Chains'
  <2>1. PICK D \in SUBSET Names : \E rank \in [D -> 1 .. Len(Order)] : ChainsNow(D, rank)
    BY <1>4 DEF IndInv, Chains
  <2>2. PICK rank \in [D -> 1 .. Len(Order)] : ChainsNow(D, rank)
    BY <2>1
  <2>3. /\ AllIn(made, D) /\ Chained(D, rank, FilesOf(made) \cup {f}) /\ s \in D
        /\ \A n \in D \ {s} : rank[n] > q
        /\ \A n \in D : rank[n] >= q
    BY <1>1, <1>2, <1>4, <2>2 DEF ChainsNow
  <2>4. CASE pc' = "failed"
    <3>1. objects' = objects /\ made' = made
      BY <1>2, <2>4 DEF refreshVars
    <3>2. AllIn(made, D)' /\ Chained(D, rank, KnownNow)'
      BY <1>4, <2>3, <3>1 DEF AllIn, Chained, IsReader
    <3>3. ChainsNow(D, rank)'
      BY <1>1, <1>4, <2>3, <2>4, <3>2 DEF ChainsNow
    <3>4. QED
      BY <1>4, <3>3 DEF Chains
  <2>5. CASE pc' = "record"
    <3> DEFINE D1    == D \cup {e}
               rank1 == [n \in D1 |-> IF n = e THEN q ELSE rank[n]]
    <3>1. D1 \in SUBSET Names /\ rank1 \in [D1 -> 1 .. Len(Order)]
      <4>1. q \in 1 .. Len(Order)
        <5>1. rank[s] \in 1 .. Len(Order) /\ rank[s] >= q /\ Len(Order) \in Nat
          BY <2>3, OrderAssumption
        <5>2. QED
          BY <1>5, <5>1
      <4>2. QED
        BY <1>5, <4>1
    <3>2. /\ rank1[e] = q
          /\ \A n \in D \ {e} : rank1[n] = rank[n]
          /\ \A n \in D1 : rank1[n] >= q
      BY <1>5, <2>3
    <3>3. ASSUME NEW n \in D1
          PROVE  \/ \E g \in FilesOf(made) \cup {f} : objects'[n] = Reader(g)
                 \/ \E m \in D1 : objects'[n] = Alias(m) /\ (IsReader(m)' \/ rank1[m] < rank1[n])
      <4>1. IsReader(s)'
        BY <1>5, <1>6 DEF IsReader
      <4>2. CASE n = e
        BY <1>6, <2>3, <2>5, <4>1, <4>2
      <4>3. CASE n # e
        <5>1. n \in D /\ objects'[n] = objects[n] /\ rank1[n] = rank[n]
          BY <1>6, <3>2, <4>3
        <5>2. CASE \E g \in FilesOf(made) \cup {f} : objects[n] = Reader(g)
          BY <5>1, <5>2
        <5>3. CASE \E m \in D : objects[n] = Alias(m) /\ (IsReader(m) \/ rank[m] < rank[n])
          <6>1. PICK m \in D : objects[n] = Alias(m) /\ (IsReader(m) \/ rank[m] < rank[n])
            BY <5>3
          <6>2. CASE m = e
            <7>1. n # s
              BY <1>5, <6>1, Kinds
            <7>2. rank1[m] < rank1[n]
              BY <2>3, <3>2, <5>1, <6>2, <7>1
            <7> HIDE DEF rank1
            <7>3. QED
              BY <5>1, <6>1, <7>2
          <6>3. CASE m # e
            <7>1. rank1[m] = rank[m] /\ (IsReader(m) => IsReader(m)')
              BY <1>6, <3>2, <6>3 DEF IsReader
            <7> HIDE DEF rank1
            <7>2. QED
              BY <5>1, <6>1, <7>1
          <6>4. QED
            BY <6>2, <6>3
        <5>4. QED
          BY <2>3, <5>1, <5>2, <5>3 DEF Chained
      <4>4. QED
        BY <4>2, <4>3
    <3> HIDE DEF rank1
    <3>4. Chained(D1, rank1, KnownNow)'
      BY <1>4, <3>3 DEF Chained
    <3>5. AllIn(made, D1)'
      BY <1>2, <2>3 DEF AllIn, refreshVars
    <3>6. {s, e} \subseteq D1
      BY <2>3
    <3> HIDE DEF D1
    <3>7. ChainsNow(D1, rank1)'
      BY <1>1, <1>4, <3>2, <3>4, <3>5, <3>6 DEF ChainsNow
    <3>8. QED
      BY <1>4, <3>1, <3>7 DEF Chains
  <2>6. QED
    BY <1>6, <2>4, <2>5
<1>13. QED
  BY <1>2, <1>4, <1>7, <1>8, <1>9, <1>10, <1>11, <1>12 DEF IndInv, Unsettled, history

\* The record of the file in hand, with which the next one is taken.
LEMMA NextFileKeeps ==
  ASSUME IndInv, pc \in {"record", "failed"},
         NEW readable \in BOOLEAN, readable => pc = "record",
         NextFile(InHand, readable),
         backed' \subseteq backed \cup {safe, ExactAlias(InHand)},
         pc # "record" => backed' = backed,
         UNCHANGED <<disk, objects, readOnly, records, history, events>>
  PROVE  IndInv'
<1>1. PICK f, s, e, q : f = InHand /\ s = safe /\ e = ExactAlias(InHand) /\ q = Len(queue)
  OBVIOUS
<1>2. PICK new : new = Record(f, s, e, readable)
  OBVIOUS
<1>3. /\ made' = made \cup {new} /\ queue' = Tail(queue) /\ pc' = "safe"
      /\ UNCHANGED <<opening, found, used, safe>>
  BY <1>1, <1>2 DEF NextFile
<1>4. TypeOK /\ pc \in Busy /\ pc \in Refreshing /\ pc' \in Refreshing /\ pc' \notin Busy
      /\ pc # "safe" /\ queue # <<>> /\ s \in SafeNames
  BY <1>1, <1>3 DEF IndInv, Types, TypeOK, Busy, Refreshing
<1>5. /\ f \in Files /\ e \in Names /\ s \in Names /\ q \in Nat \ {0} /\ queue[1] = f
  BY <1>1, <1>4, AliasTypes DEF IndInv, Names
<1>6. /\ new \in Records /\ new.file = f /\ new.table = s /\ new.exact = e
      /\ new.readable = readable /\ AliasesOf(new) = {s, e}
  BY <1>2, <1>5 DEF Record, Records, AliasesOf
<1>7. /\ queue \in Seq(Files) /\ queue' \in Seq(Files) /\ Len(queue') = q - 1
      /\ \A i \in 1 .. Len(queue') : queue'[i] = queue[i + 1] /\ i + 1 \in 1 .. q /\ i + 1 # 1
  BY <1>1, <1>3, <1>4, <1>5 DEF TypeOK
<1>8. Hand = {s, e} /\ Hand' = {} /\ KnownNow = FilesOf(made) \cup {f} /\ KnownNow' = FilesOf(made')
  BY <1>1, <1>4 DEF Hand, KnownNow, FilesOf
<1>9. Types'
  <2>1. backed' \subseteq Names
    BY <1>1, <1>4, <1>5 DEF TypeOK
  <2>2. QED
    BY <1>3, <1>4, <1>6, <1>7, <2>1 DEF Types, TypeOK, Busy, history
<1>10. Queued'
  <2>1. /\ \A i, j \in 1 .. q : queue[i] = queue[j] => i = j
        /\ \A r \in made : \A i \in 1 .. q : queue[i] # r.file
        /\ IsFiniteSet(used) /\ Cardinality(used) + q <= Len(Order) + 1
    BY <1>1, <1>4 DEF IndInv, Queued
  <2>2. \A i, j \in 1 .. Len(queue') : queue'[i] = queue'[j] => i = j
    <3>1. ASSUME NEW i \in 1 .. Len(queue'), NEW j \in 1 .. Len(queue'), queue'[i] = queue'[j]
          PROVE  i = j
      <4>1. i + 1 = j + 1
        BY <1>7, <2>1, <3>1
      <4>2. i \in Nat /\ j \in Nat
        BY <3>1
      <4>3. QED
        BY <4>1, <4>2
    <3>2. QED
      BY <3>1
  <2>3. \A r \in made' : \A i \in 1 .. Len(queue') : queue'[i] # r.file
    <3>1. \A i \in 1 .. Len(queue') : queue'[i] # f
      <4>1. 1 \in 1 .. q
        BY <1>5
      <4>2. QED
        BY <1>5, <1>7, <2>1, <4>1
    <3>2. \A r \in made : \A i \in 1 .. Len(queue') : queue'[i] # r.file
      BY <1>7, <2>1
    <3>3. QED
      BY <1>3, <1>6, <3>1, <3>2
  <2>4. Cardinality(used) + Len(queue') <= Len(Order)
    <3>1. Cardinality(used) \in Nat /\ Len(Order) \in Nat
      BY <2>1, FS_CardinalityType, OrderAssumption
    <3>2. QED
      BY <1>5, <1>7, <2>1, <3>1
  <2>5. QED
    BY <1>3, <2>1, <2>2, <2>3, <2>4 DEF Queued
<1>11. Begun'
  BY <1>3 DEF Begun
<1>12. ViewsStand'
  <2>1. ASSUME NEW r \in made', r.readable, Apart(r, made')
        PROVE  Stands(r.file, r.table, r.exact)
    <3>1. CASE r = new
      BY <1>1, <1>6, <2>1, <3>1 DEF IndInv, Begun
    <3>2. CASE r # new
      <4>1. r \in made /\ Apart(r, made) /\ Hand \cap AliasesOf(r) = {}
        BY <1>3, <1>6, <1>8, <2>1, <3>2 DEF Apart
      <4>2. QED
        BY <1>4, <2>1, <4>1 DEF IndInv, ViewsStand
    <3>3. QED
      BY <3>1, <3>2
  <2>2. QED
    BY <1>3, <2>1 DEF ViewsStand, Stands, Apart
<1>13. GuardedViews'
  <2>1. \A n \in backed : IsView(n)
    BY <1>4 DEF IndInv, GuardedViews
  <2>2. pc = "record" => IsView(s) /\ IsView(e)
    BY <1>1, <1>5, Kinds DEF IndInv, Begun, Stands, IsView
  <2>3. \A n \in backed' : IsView(n)'
    BY <1>1, <2>1, <2>2 DEF IsView
  <2>4. QED
    BY <2>3 DEF GuardedViews
<1>14. Chains'
  <2>1. PICK D \in SUBSET Names : \E rank \in [D -> 1 .. Len(Order)] : ChainsNow(D, rank)
    BY <1>4 DEF IndInv, Chains
  <2>2. PICK rank \in [D -> 1 .. Len(Order)] : ChainsNow(D, rank)
    BY <2>1
  <2>3. /\ AllIn(made, D) /\ Chained(D, rank, FilesOf(made) \cup {f})
        /\ pc = "record" => {s, e} \subseteq D
        /\ \A n \in D : rank[n] >= q
    BY <1>1, <1>4, <1>8, <2>2 DEF ChainsNow
  <2>4. AllIn(made, D)'
    BY <1>3, <1>6, <2>3 DEF AllIn
  <2>5. FilesOf(made') = FilesOf(made) \cup {f}
    BY <1>3, <1>6 DEF FilesOf
  <2>6. Chained(D, rank, KnownNow)'
    BY <1>8, <2>3, <2>5 DEF Chained, IsReader
  <2>7. \A n \in D : rank[n] > Len(queue')
    <3>1. \A n \in D : rank[n] \in Nat
      BY OrderAssumption
    <3>2. QED
      BY <1>5, <1>7, <2>3, <3>1
  <2>8. ChainsNow(D, rank)'
    BY <1>3, <1>4, <2>4, <2>6, <2>7 DEF ChainsNow
  <2>9. QED
    BY <1>3, <2>8 DEF Chains
<1>15. QED
  BY <1>4, <1>9, <1>10, <1>11, <1>12, <1>13, <1>14 DEF IndInv, Unsettled, history

\* The file in hand is recorded, or found to be gone; the refresh ends.
LEMMA RecordKeeps ==
  ASSUME IndInv, RecordFile \/ RecordFailure \/ BreakOff \/ Registered
  PROVE  IndInv'
<1>1. TypeOK /\ Types
  BY DEF IndInv, Types
<1>2. CASE RecordFile
  <2>1. CASE disk[InHand] # "absent"
    <3>1. NextFile(InHand, TRUE) /\ backed' = backed \cup {safe, ExactAlias(InHand)}
      BY <1>2, <2>1 DEF RecordFile, InHand
    <3>2. QED
      BY <1>2, <3>1, NextFileKeeps DEF RecordFile
  <2>2. CASE disk[InHand] = "absent"
    <3>1. /\ pc = "record" /\ pc' = "failed" /\ pc \in Busy /\ pc' \in Busy
          /\ pc \in Refreshing /\ pc' \in Refreshing /\ pc' # "safe" /\ pc # "safe"
          /\ UNCHANGED <<disk, objects, readOnly, refreshVars, libraryVars, history, events>>
      BY <1>2, <2>2 DEF RecordFile, InHand, libraryVars, Busy, Refreshing
    <3> USE DEF refreshVars, libraryVars, history
    <3>2. /\ InHand' = InHand /\ Hand' = Hand /\ KnownNow' = KnownNow
      BY <3>1 DEF ExactAlias, Shared, InHand, Hand, KnownNow, FilesOf
    <3>3. Types'
      BY <1>1, <3>1 DEF Types, TypeOK
    <3>4. Queued' /\ Begun' /\ GuardedViews'
      BY <3>1 DEF IndInv, Queued, Begun, GuardedViews, IsView
    <3>5. ViewsStand'
      BY <3>1, <3>2 DEF IndInv, ViewsStand, Stands, Apart
    <3>6. \A D, rank : ChainsNow(D, rank) => ChainsNow(D, rank)'
      BY <3>1, <3>2 DEF ChainsNow, AllIn, Chained, IsReader
    <3>7. Chains'
      BY <3>1, <3>6 DEF IndInv, Chains
    <3>8. QED
      BY <3>1, <3>3, <3>4, <3>5, <3>7 DEF IndInv, Unsettled
  <2>3. QED
    BY <2>1, <2>2
<1>3. CASE RecordFailure
  <2>1. /\ pc = "failed" /\ NextFile(InHand, FALSE)
        /\ UNCHANGED <<disk, objects, readOnly, libraryVars, history, events>>
    BY <1>3 DEF RecordFailure, InHand
  <2>2. QED
    BY <2>1, NextFileKeeps DEF libraryVars
<1>4. CASE BreakOff
  <2>1. CASE opening
    BY <1>1, <1>4, <2>1, GoneKeeps DEF BreakOff, TypeOK
  <2>2. CASE ~ opening
    <3>1. /\ pc = "failed" /\ pc' = "ready" /\ Forget /\ pc \in Refreshing
          /\ UNCHANGED <<disk, objects, events, readOnly, libraryVars, history>>
      BY <1>4, <2>2 DEF BreakOff, Refreshing
    <3>2. queue' \in Seq(Files)
      BY <3>1 DEF Forget
    <3>3. Types'
      BY <1>1, <3>1, <3>2 DEF Types, TypeOK, Forget, Refreshing, Busy, libraryVars, history
    <3>4. ~ settled
      BY <3>1 DEF IndInv, Unsettled
    <3>5. QED
      BY <3>1, <3>3, <3>4 DEF IndInv, Queued, Begun, ViewsStand, GuardedViews, IsView, Chains,
         Unsettled, Refreshing, libraryVars, history
  <2>3. QED
    BY <2>1, <2>2
<1>5. CASE Registered
  <2>1. /\ pc = "safe" /\ queue = <<>> /\ records' = made /\ pc' = "ready" /\ settled' = TRUE
        /\ touched' = {} /\ Forget /\ UNCHANGED <<disk, objects, readOnly, backed, events>>
        /\ pc \in Refreshing /\ pc \notin Busy
    BY <1>5 DEF Registered, Refreshing, Busy
  <2>2. queue' \in Seq(Files)
    BY <2>1 DEF Forget
  <2>3. Types'
    BY <1>1, <2>1, <2>2 DEF Types, TypeOK, Forget, Refreshing, Busy
  <2>4. Queued' /\ Begun' /\ Unsettled'
    BY <2>1 DEF Queued, Begun, Unsettled, Refreshing
  <2>5. ViewsStand'
    BY <2>1 DEF IndInv, ViewsStand, Stands, Apart, Hand, Refreshing
  <2>6. GuardedViews'
    BY <2>1 DEF IndInv, GuardedViews, IsView
  <2>7. Chains'
    <3>1. PICK D \in SUBSET Names : \E rank \in [D -> 1 .. Len(Order)] : ChainsNow(D, rank)
      BY <2>1 DEF IndInv, Chains
    <3>2. PICK rank \in [D -> 1 .. Len(Order)] : ChainsNow(D, rank)
      BY <3>1
    <3>3. AllIn(made, D) /\ Chained(D, rank, FilesOf(made))
      BY <2>1, <3>2 DEF ChainsNow, KnownNow
    <3>4. AllIn(records, D)' /\ Chained(D, rank, FilesOf(records))'
      BY <2>1, <3>3 DEF AllIn, Chained, IsReader, FilesOf
    <3>5. QED
      BY <2>1, <3>4 DEF Chains, Refreshing
  <2>8. QED
    BY <2>3, <2>4, <2>5, <2>6, <2>7 DEF IndInv
<1>6. QED
  BY <1>2, <1>3, <1>4, <1>5
------------------------------------------------------------------------------
(***************************************************************************)
(* Statements change no view of a file but one that is touched.            *)
(***************************************************************************)
LEMMA StatementKeeps ==
  ASSUME IndInv, NEW n \in Names, NEW object \in Objects, Statement(n, object),
         \/ ~ IsView(n) /\ UNCHANGED touched
         \/ touched' = touched \cup {n}
  PROVE  IndInv'
<1>1. /\ pc = "ready" /\ Event /\ objects' = [objects EXCEPT ![n] = object]
      /\ UNCHANGED <<disk, pc, readOnly, refreshVars, libraryVars, settled>>
  BY DEF Statement
<1>2. TypeOK /\ objects \in [Names -> Objects] /\ events' \in 0 .. MaxEvents
  BY <1>1, EventCounted DEF IndInv, Types, TypeOK, Objects
<1>3. \A m \in Names : m # n => objects'[m] = objects[m]
  BY <1>1, <1>2
<1> USE DEF refreshVars, libraryVars
<1>4. Types'
  <2>1. objects' \in [Names -> Objects]
    BY <1>1, <1>2
  <2>2. touched' \subseteq Names
    BY <1>2 DEF TypeOK
  <2>3. QED
    BY <1>1, <1>2, <2>1, <2>2 DEF IndInv, Types, TypeOK, Objects
<1>5. Queued' /\ Begun' /\ Unsettled'
  BY <1>1 DEF IndInv, Queued, Begun, Unsettled, Refreshing
<1>6. ASSUME NEW m \in Names, IsView(m), m \notin touched'
      PROVE  m \notin touched /\ objects'[m] = objects[m]
  BY <1>3, <1>6
<1>7. ViewsStand'
  <2>1. ASSUME settled, NEW r \in records, r.readable, Apart(r, records),
               AliasesOf(r) \cap touched' = {}
        PROVE  Stands(r.file, r.table, r.exact)'
    <3>1. r.file \in Files /\ r.table \in Names /\ r.exact \in Names
      BY <1>2, <2>1 DEF TypeOK, Records
    <3>2. AliasesOf(r) \cap touched = {} /\ r.table \notin touched' /\ r.exact \notin touched'
      BY <2>1 DEF AliasesOf
    <3>3. Stands(r.file, r.table, r.exact)
      BY <1>1, <2>1, <3>2 DEF IndInv, ViewsStand
    <3>4. IsView(r.table) /\ IsView(r.exact)
      BY <3>1, <3>3, Kinds DEF Stands, IsView
    <3>5. objects'[r.table] = objects[r.table] /\ objects'[r.exact] = objects[r.exact]
      BY <1>6, <3>1, <3>2, <3>4
    <3>6. QED
      BY <3>3, <3>5 DEF Stands
  <2>2. QED
    BY <1>1, <2>1 DEF ViewsStand, Apart, Refreshing
<1>8. GuardedViews'
  <2>1. \A m \in backed \ touched' : m \in Names /\ m \notin touched /\ IsView(m)
    BY <1>2 DEF IndInv, GuardedViews, TypeOK
  <2>2. \A m \in backed \ touched' : IsView(m)'
    BY <1>6, <2>1 DEF IsView
  <2>3. QED
    BY <1>1, <2>2 DEF GuardedViews, Refreshing
<1>9. Chains'
  <2>1. ASSUME settled, touched' = {}
        PROVE  \E D \in SUBSET Names : \E rank \in [D -> 1 .. Len(Order)] :
                 AllIn(records, D)' /\ Chained(D, rank, FilesOf(records))'
    <3>1. touched = {}
      BY <2>1
    <3>2. PICK D \in SUBSET Names : \E rank \in [D -> 1 .. Len(Order)] :
            AllIn(records, D) /\ Chained(D, rank, FilesOf(records))
      BY <1>1, <2>1, <3>1 DEF IndInv, Chains
    <3>3. PICK rank \in [D -> 1 .. Len(Order)] :
            AllIn(records, D) /\ Chained(D, rank, FilesOf(records))
      BY <3>2
    <3>4. ASSUME NEW m \in D
          PROVE  objects'[m] = objects[m]
      <4>1. FilesOf(records) \subseteq Files
        BY <1>2 DEF FilesOf, TypeOK, Records
      <4>2. IsView(m)
        BY <3>3, <4>1, Kinds DEF Chained, IsView
      <4>3. QED
        BY <1>6, <2>1, <4>2
    <3>5. AllIn(records, D)' /\ Chained(D, rank, FilesOf(records))'
      BY <1>1, <3>3, <3>4 DEF AllIn, Chained, IsReader, FilesOf
    <3>6. QED
      BY <3>5
  <2>2. QED
    BY <1>1, <2>1 DEF Chains, Refreshing
<1>10. QED
  BY <1>4, <1>5, <1>7, <1>8, <1>9 DEF IndInv

LEMMA StatementsKeep ==
  ASSUME IndInv,
         \/ \E n \in Names : Dml(n) \/ DropTable(n) \/ DropView(n)
         \/ \E n \in Targets, source \in Names, replace \in BOOLEAN :
              CreateTable(n, source, replace) \/ Materialize(n, source, replace)
         \/ \E n \in Targets, f \in Files : ReplaceView(n, f)
  PROVE  IndInv'
<1>1. TypeOK
  BY DEF IndInv, Types
<1>2. Targets \subseteq Names
  BY <1>1 DEF Targets, Names, TypeOK
<1>3. \A m : IsTable(m) \/ objects[m] = Nothing => ~ IsView(m)
  BY Kinds DEF IsTable, IsView
<1>4. ASSUME NEW n \in Names, Dml(n)
      PROVE  IndInv'
  <2>1. Table(Edited) \in Objects
    BY Kinds DEF Objects, Contents
  <2>2. QED
    BY <1>3, <1>4, <2>1, StatementKeeps DEF Dml
<1>5. ASSUME NEW n \in Names, DropTable(n)
      PROVE  IndInv'
  <2>1. Nothing \in Objects
    BY DEF Objects
  <2>2. QED
    BY <1>3, <1>5, <2>1, StatementKeeps DEF DropTable
<1>6. ASSUME NEW n \in Names, DropView(n)
      PROVE  IndInv'
  <2>1. Nothing \in Objects
    BY DEF Objects
  <2>2. QED
    BY <1>6, <2>1, StatementKeeps DEF DropView
<1>7. ASSUME NEW n \in Names, NEW source \in Names, NEW replace \in BOOLEAN,
             CreateTable(n, source, replace)
      PROVE  IndInv'
  <2>1. Shows(source) \in Contents
    BY <1>1, <1>7, ShowsContents DEF CreateTable
  <2>2. Table(Shows(source)) \in Objects
    BY <2>1, Kinds DEF Objects
  <2>3. ~ IsView(n)
    BY <1>3, <1>7 DEF CreateTable, CanCreateTable
  <2>4. QED
    BY <1>7, <2>2, <2>3, StatementKeeps DEF CreateTable
<1>8. ASSUME NEW n \in Names, NEW f \in Files, ReplaceView(n, f)
      PROVE  IndInv'
  <2>1. Reader(f) \in Objects
    BY DEF Objects, Views
  <2>2. QED
    BY <1>8, <2>1, StatementKeeps DEF ReplaceView
<1>9. QED
  BY <1>2, <1>4, <1>5, <1>6, <1>7, <1>8 DEF Materialize
------------------------------------------------------------------------------
(***************************************************************************)
(* The theorems.                                                           *)
(***************************************************************************)
LEMMA EveryStep == IndInv /\ [Next]_vars => IndInv'
<1> SUFFICES ASSUME IndInv, [Next]_vars PROVE IndInv'
  OBVIOUS
<1>1. CASE Register
  BY <1>1, CreateSafeKeeps, CreateExactKeeps, RecordKeeps DEF Register
<1>2. CASE Statements
  BY <1>2, StatementsKeep, OthersKeep DEF Statements
<1>3. CASE ~ Register /\ ~ Statements
  BY <1>3, OthersKeep DEF Next
<1>4. QED
  BY <1>1, <1>2, <1>3

\* In every state of the library its views are chains to files that the refresh
\* found, those of the files whose names no other file has been given are in
\* place, and names never run out.
THEOREM Invariant == Spec => []IndInv
BY Initially, EveryStep, PTL DEF Spec

\* The guard refuses statements about views of files only, and not about a
\* managed table, also after a refresh that was broken off.
THEOREM GuardedAreViews == Spec => []GuardIsSound
<1>1. IndInv => GuardIsSound
  BY DEF IndInv, Types, GuardedViews, GuardIsSound, GuardsOnlyAliases
<1>2. QED
  BY Invariant, <1>1, PTL

\* A name whose view reads a file shows that file.
LEMMA ReaderShows ==
  ASSUME NEW n, NEW f \in Files, End(n) = Reader(f)
  PROVE  Shows(n) = f /\ End(n) \in Views
<1>1. Reader(f).kind = "reader" /\ Reader(f).from = f /\ Reader(f) \in Views /\ Reader(f) # Nothing
  BY Kinds
<1>2. QED
  BY <1>1 DEF Shows

\* After a refresh, a readable file that shares its aliases with no other one is
\* what both of them show, whatever earlier refreshes and the caller's tables
\* have left in the database and however deep its views read one another.
THEOREM AliasesShowFiles == Spec => []AliasShowsFile
<1>1. ASSUME IndInv
      PROVE  AliasShowsFile
  <2>1. ASSUME pc = "ready", settled, NEW r \in records, r.readable, Distinct(r),
               AliasesOf(r) \cap touched = {}, NEW n \in AliasesOf(r)
        PROVE  Shows(n) = r.file
    <3>1. TypeOK /\ r.file \in Files /\ r.table \in Names /\ r.exact \in Names
      BY <1>1, <2>1 DEF IndInv, Types, TypeOK, Records
    <3>2. Stands(r.file, r.table, r.exact)
      BY <1>1, <2>1 DEF IndInv, ViewsStand, Distinct, Apart
    <3> DEFINE D     == AliasesOf(r)
               known == {r.file}
               rank  == [m \in D |-> 1]
    <3>3. 1 \in 1 .. Len(Order)
      BY <3>1, OrderAssumption DEF Files
    <3>4. D \in SUBSET Names /\ rank \in [D -> 1 .. Len(Order)] /\ known \in SUBSET Files
      BY <3>1, <3>3 DEF AliasesOf
    <3>5. Chained(D, rank, known)
      BY <3>1, <3>2 DEF Chained, Stands, IsReader, AliasesOf
    <3>6. n \in D
      BY <2>1
    <3> HIDE DEF D, rank, known
    <3>7. \E f \in known : End(n) = Reader(f)
      BY <3>1, <3>4, <3>5, <3>6, ChainEnds
    <3>8. QED
      BY <3>1, <3>7, ReaderShows DEF known
  <2>2. QED
    BY <2>1 DEF AliasShowsFile
<1>2. QED
  BY Invariant, <1>1, PTL

\* After a refresh every alias of a readable file, given to another one as well
\* or not, shows a file that the refresh listed.
THEOREM ListedAreShown == Spec => []ListedFilesShown
<1>1. ASSUME IndInv
      PROVE  ListedFilesShown
  <2>1. ASSUME pc = "ready", settled, touched = {}, NEW r \in records, r.readable,
               NEW n \in AliasesOf(r)
        PROVE  End(n) \in Views /\ Shows(n) \in FilesOf(records)
    <3>1. TypeOK /\ FilesOf(records) \in SUBSET Files
      BY <1>1 DEF IndInv, Types, TypeOK, Records, FilesOf
    <3>2. PICK D \in SUBSET Names : \E rank \in [D -> 1 .. Len(Order)] :
            AllIn(records, D) /\ Chained(D, rank, FilesOf(records))
      BY <1>1, <2>1 DEF IndInv, Chains
    <3>3. PICK rank \in [D -> 1 .. Len(Order)] :
            AllIn(records, D) /\ Chained(D, rank, FilesOf(records))
      BY <3>2
    <3>4. n \in D
      BY <2>1, <3>3 DEF AllIn
    <3>5. PICK f \in FilesOf(records) : End(n) = Reader(f)
      <4> DEFINE known == FilesOf(records)
      <4>1. known \in SUBSET Files /\ Chained(D, rank, known)
        BY <3>1, <3>3
      <4> HIDE DEF known
      <4>2. \E f \in known : End(n) = Reader(f)
        BY <3>1, <3>4, <4>1, ChainEnds
      <4>3. QED
        BY <4>2 DEF known
    <3>6. f \in Files
      BY <3>1
    <3>7. QED
      BY <3>5, <3>6, ReaderShows
  <2>2. QED
    BY <2>1 DEF ListedFilesShown, FilesOf
<1>2. QED
  BY Invariant, <1>1, PTL

\* Opening and refreshing change no managed table, though a file of its name has
\* turned up, and a statement changes only its own.
THEOREM TablesAreKept == Spec => TablesKept
<1> DEFINE Kept == \A n \in Names : IsTable(n) /\ objects'[n] # objects[n] =>
                     /\ pc = "ready"
                     /\ \A m \in Names \ {n} : objects'[m] = objects[m]
<1>1. ASSUME IndInv, Next
      PROVE  Kept
  <2>1. objects \in [Names -> Views \cup Tables \cup {Nothing}]
    BY <1>1 DEF IndInv, Types, TypeOK
  <2>2. CASE CreateSafe
    <3>1. objects' = objects \/ \E s, o : ~ IsTable(s) /\ objects' = [objects EXCEPT ![s] = o]
      BY <2>2 DEF CreateSafe, Put, CanCreateView
    <3>2. QED
      BY <2>1, <3>1
  <2>3. CASE CreateExact
    <3>1. objects' = objects \/ \E s, o : ~ IsTable(s) /\ objects' = [objects EXCEPT ![s] = o]
      BY <2>3 DEF CreateExact, Put, CanCreateView
    <3>2. QED
      BY <2>1, <3>1
  <2>4. ASSUME NEW n, NEW object, Statement(n, object)
        PROVE  Kept
    BY <2>1, <2>4 DEF Statement
  <2>5. CASE Statements
    <3>1. objects' = objects \/ \E n, object : Statement(n, object)
      BY <2>5 DEF Statements, Dml, DropTable, DropView, ReplaceView, CreateTable, Materialize,
         Export
    <3>2. QED
      BY <2>4, <3>1
  <2>6. CASE Next /\ ~ (CreateSafe \/ CreateExact \/ Statements)
    <3>1. objects' = objects
      BY <2>6 DEF Next, Register, Open, Refresh, RecordFile, RecordFailure, BreakOff, Registered,
         Close, Crash, FolderChanges
    <3>2. QED
      BY <3>1
  <2>7. QED
    BY <1>1, <2>2, <2>3, <2>5, <2>6
<1>2. IndInv /\ [Next]_vars => [Kept]_vars
  BY <1>1
<1>3. QED
  BY Invariant, <1>2, PTL DEF Spec, TablesKept
==============================================================================
