------------------------- MODULE QueryService_proofs -------------------------
(***************************************************************************)
(* Theorems about QueryService, for any number of retries, any sizes of    *)
(* the table and all texts.                                                *)
(***************************************************************************)
EXTENDS QueryService, FiniteSetTheorems, SequenceTheorems, WellFoundedInduction, TLAPS

(***************************************************************************)
(* Induction up to a number, for sets instead of predicates, and recursive *)
(* functions.                                                              *)
(***************************************************************************)
LEMMA UpTo ==
  ASSUME NEW n \in Nat, NEW P, 0 \in P, \A i \in 1 .. n : i - 1 \in P => i \in P
  PROVE  \A i \in 0 .. n : i \in P
<1> DEFINE R == {ss \in Nat \X Nat : ss[1] < ss[2]}
           S == {i \in 0 .. n : i \notin P}
<1>1. ASSUME S # {}
      PROVE  FALSE
  <2>1. IsWellFoundedOn(R, Nat) /\ S \in SUBSET Nat
    BY NatLessThanWellFounded DEF OpToRel
  <2>2. PICK m \in S : \A i \in S : ~ (<<i, m>> \in R)
    <3> HIDE DEF R, S
    <3>1. QED
      BY <1>1, <2>1, WFMin
  <2>3. m \in 1 .. n /\ m \notin P
    OBVIOUS
  <2>4. m - 1 \in S
    BY <2>3
  <2>5. <<m - 1, m>> \in R
    BY <2>3
  <2>6. QED
    BY <2>2, <2>4, <2>5
<1>2. QED
  BY <1>1

StaysIn(step, S) == \A i \in Nat : \A x \in S : step[i][x] \in S

Follows(f, step, a, S, n) ==
  /\ f \in [0 .. n -> S]
  /\ f[0] = a
  /\ \A i \in 1 .. n : f[i] = step[i][f[i - 1]]

LEMMA Iterated ==
  ASSUME NEW S, NEW a \in S, NEW step, StaysIn(step, S), NEW n \in Nat
  PROVE  \E f : Follows(f, step, a, S, n)
<1> DEFINE P == {k \in 0 .. n : \E f : Follows(f, step, a, S, k)}
<1>1. 0 \in P
  <2>1. Follows([i \in 0 .. 0 |-> a], step, a, S, 0)
    BY DEF Follows
  <2>2. QED
    BY <2>1
<1>2. ASSUME NEW k \in 1 .. n, k - 1 \in P
      PROVE  k \in P
  <2>1. PICK g : Follows(g, step, a, S, k - 1)
    BY <1>2
  <2> DEFINE f == [i \in 0 .. k |-> IF i = k THEN step[k][g[k - 1]] ELSE g[i]]
  <2>2. step[k][g[k - 1]] \in S
    BY <2>1 DEF Follows, StaysIn
  <2>3. f \in [0 .. k -> S] /\ f[0] = a
    BY <2>1, <2>2 DEF Follows
  <2>4. ASSUME NEW i \in 1 .. k
        PROVE  f[i] = step[i][f[i - 1]]
    <3>1. CASE i = k
      BY <3>1
    <3>2. CASE i # k
      BY <2>1, <3>2 DEF Follows
    <3>3. QED
      BY <3>1, <3>2
  <2> HIDE DEF f
  <2>5. Follows(f, step, a, S, k)
    BY <2>3, <2>4 DEF Follows
  <2>6. QED
    BY <2>5
<1>3. n \in P
  <2> HIDE DEF P
  <2>1. QED
    BY <1>1, <1>2, UpTo
<1>4. QED
  BY <1>3
------------------------------------------------------------------------------
(***************************************************************************)
(* Scans.                                                                  *)
(***************************************************************************)
ModeNames == {"code", "line", "block", "literal", "qliteral"}

Texts == Seq(Lexemes)

LEMMA Steps ==
  ASSUME NEW m \in ModeNames, NEW t
  PROVE  OracleStep(m, t) \in ModeNames
BY DEF ModeNames, OracleStep, Opens

LEMMA Lengths ==
  ASSUME NEW t \in Texts
  PROVE  Len(t) \in Nat /\ DOMAIN t = 1 .. Len(t) /\ \A i \in 1 .. Len(t) : t[i] \in Lexemes
BY DEF Texts

\* What OracleModes computes.
LEMMA OracleScan ==
  ASSUME NEW t \in Texts
  PROVE  /\ OracleModes(t) \in [0 .. Len(t) -> ModeNames]
         /\ OracleModes(t)[0] = "code"
         /\ \A i \in 1 .. Len(t) : OracleModes(t)[i] = OracleStep(OracleModes(t)[i - 1], t[i])
<1> DEFINE n == Len(t)
           step == [i \in Nat |-> [m \in ModeNames |-> OracleStep(m, t[i])]]
           Rule(g) == [i \in 0 .. n |-> IF i = 0 THEN "code" ELSE OracleStep(g[i - 1], t[i])]
           mode == CHOOSE g : g = Rule(g)
<1>1. n \in Nat
  BY Lengths
<1>2. OracleModes(t) = mode
  BY DEF OracleModes
<1>3. PICK f : Follows(f, step, "code", ModeNames, n)
  <2>1. "code" \in ModeNames /\ StaysIn(step, ModeNames)
    BY Steps DEF StaysIn, ModeNames
  <2> HIDE DEF step
  <2>2. QED
    BY <1>1, <2>1, Iterated
<1>4. f = Rule(f)
  <2>1. ASSUME NEW i \in 1 .. n
        PROVE  f[i] = OracleStep(f[i - 1], t[i])
    <3>1. f[i - 1] \in ModeNames /\ f[i] = step[i][f[i - 1]]
      <4> HIDE DEF step
      <4>1. QED
        BY <1>1, <1>3 DEF Follows
    <3>2. QED
      BY <3>1
  <2>2. QED
    BY <1>1, <1>3, <2>1 DEF Follows
<1>5. mode = Rule(mode)
  <2> HIDE DEF Rule
  <2>1. QED
    BY <1>4
<1> HIDE DEF mode
<1>6. mode[0] = "code" /\ \A i \in 1 .. n : mode[i] = OracleStep(mode[i - 1], t[i])
  BY <1>1, <1>5
<1>7. \A i \in 0 .. n : mode[i] \in ModeNames
  <2> DEFINE P == {i \in 0 .. n : mode[i] \in ModeNames}
  <2>1. 0 \in P
    BY <1>1, <1>6 DEF ModeNames
  <2>2. \A i \in 1 .. n : i - 1 \in P => i \in P
    BY <1>6, Steps
  <2> HIDE DEF P
  <2>3. \A i \in 0 .. n : i \in P
    BY <1>1, <2>1, <2>2, UpTo
  <2>4. QED
    BY <2>3 DEF P
<1>8. mode \in [0 .. n -> ModeNames]
  BY <1>5, <1>7
<1>9. QED
  BY <1>2, <1>6, <1>8

\* n lexemes of t after a, and of u after b, are the same, and in the same modes.
Alike(t, a, u, b, n) ==
  a + n <= Len(t) /\ b + n <= Len(u) /\ \A i \in 1 .. n : t[a + i] = u[b + i]

AlikeInMode(t, a, u, b, n) ==
  \A i \in 0 .. n : OracleModes(t)[a + i] = OracleModes(u)[b + i]

LEMMA SameModes ==
  ASSUME NEW t \in Texts, NEW u \in Texts, NEW a \in Nat, NEW b \in Nat, NEW n \in Nat,
         Alike(t, a, u, b, n), OracleModes(t)[a] = OracleModes(u)[b]
  PROVE  AlikeInMode(t, a, u, b, n)
<1> DEFINE P == {i \in 0 .. n : OracleModes(t)[a + i] = OracleModes(u)[b + i]}
<1>1. 0 \in P
  OBVIOUS
<1>2. ASSUME NEW i \in 1 .. n, i - 1 \in P
      PROVE  i \in P
  <2>1. OracleModes(t)[a + i] = OracleStep(OracleModes(t)[a + i - 1], t[a + i])
    BY OracleScan, Lengths DEF Alike
  <2>2. OracleModes(u)[b + i] = OracleStep(OracleModes(u)[b + i - 1], u[b + i])
    BY OracleScan, Lengths DEF Alike
  <2>3. a + i - 1 = a + (i - 1) /\ b + i - 1 = b + (i - 1)
    OBVIOUS
  <2>4. QED
    BY <1>2, <2>1, <2>2, <2>3 DEF Alike
<1>3. QED
  <2> HIDE DEF P
  <2>1. \A i \in 0 .. n : i \in P
    BY <1>1, <1>2, UpTo
  <2>2. QED
    BY <2>1 DEF P, AlikeInMode

\* Without nested comments the planner scans a text as Oracle does.
LEMMA PlannerScan ==
  ASSUME NEW t \in Texts, ~ NestsComments(t)
  PROVE  Modes(t) = OracleModes(t)
<1> DEFINE n == Len(t)
           O == OracleModes(t)
           Rule(g) == [i \in 0 .. n |-> IF i = 0 THEN [mode |-> "code", nested |-> 0]
                                        ELSE ScanStep(g[i - 1], t[i])]
           m == CHOOSE g : g = Rule(g)
           f == [i \in 0 .. n |-> [mode |-> O[i], nested |-> 0]]
<1>1. n \in Nat /\ DOMAIN t = 1 .. n
  BY Lengths
<1>2. /\ O \in [0 .. n -> ModeNames] /\ O[0] = "code"
      /\ \A i \in 1 .. n : O[i] = OracleStep(O[i - 1], t[i])
  BY OracleScan
<1>3. ASSUME NEW i \in 1 .. n
      PROVE  ScanStep([mode |-> O[i - 1], nested |-> 0], t[i]) = [mode |-> O[i], nested |-> 0]
  <2>1. ~ (O[i - 1] = "block" /\ t[i] = "/*")
    BY <1>1 DEF NestsComments
  <2> HIDE DEF O
  <2>2. QED
    BY <1>2, <2>1 DEF ScanStep
<1>4. f = Rule(f)
  <2>1. \A i \in 1 .. n : f[i - 1] = [mode |-> O[i - 1], nested |-> 0]
    BY <1>1
  <2> HIDE DEF O
  <2>2. QED
    BY <1>1, <1>2, <1>3, <2>1
<1>5. Scanned(t) = m
  BY DEF Scanned
<1>6. m = Rule(m)
  <2> HIDE DEF Rule, f
  <2>1. QED
    BY <1>4
<1> HIDE DEF m, O
<1>7. \A i \in 0 .. n : m[i] = [mode |-> O[i], nested |-> 0]
  <2> DEFINE P == {i \in 0 .. n : m[i] = [mode |-> O[i], nested |-> 0]}
  <2>1. 0 \in P
    BY <1>1, <1>2, <1>6
  <2>2. ASSUME NEW i \in 1 .. n, i - 1 \in P
        PROVE  i \in P
    <3>1. m[i] = ScanStep(m[i - 1], t[i])
      BY <1>1, <1>6
    <3>2. m[i - 1] = [mode |-> O[i - 1], nested |-> 0]
      BY <2>2
    <3>3. QED
      BY <1>1, <1>3, <3>1, <3>2
  <2> HIDE DEF P
  <2>3. \A i \in 0 .. n : i \in P
    BY <1>1, <2>1, <2>2, UpTo
  <2>4. QED
    BY <2>3 DEF P
<1>8. Modes(t) = [i \in 0 .. n |-> m[i].mode]
  BY <1>5 DEF Modes
<1>9. [i \in 0 .. n |-> m[i].mode] = [i \in 0 .. n |-> O[i]]
  <2>1. ASSUME NEW i \in 0 .. n
        PROVE  m[i].mode = O[i]
    <3>1. m[i] = [mode |-> O[i], nested |-> 0]
      BY <1>7
    <3> HIDE DEF n
    <3>2. QED
      BY <3>1
  <2>2. QED
    BY <2>1
<1>10. O = [i \in 0 .. n |-> O[i]]
  BY <1>2
<1>11. QED
  BY <1>8, <1>9, <1>10 DEF O

\* The brackets that are open after one more lexeme.
DepthStep(d, t, at, i) ==
  IF i \in at /\ t[i] = "(" THEN d + 1
  ELSE IF i \in at /\ t[i] = ")" /\ d > 0 THEN d - 1 ELSE d

LEMMA DepthScan ==
  ASSUME NEW t \in Texts, NEW at
  PROVE  /\ Depth(t, at) \in [0 .. Len(t) -> Nat]
         /\ Depth(t, at)[0] = 0
         /\ \A i \in 1 .. Len(t) : Depth(t, at)[i] = DepthStep(Depth(t, at)[i - 1], t, at, i)
<1> DEFINE n == Len(t)
           step == [i \in Nat |-> [d \in Nat |-> DepthStep(d, t, at, i)]]
           Rule(g) == [i \in 0 .. n |->
                         IF i = 0 THEN 0
                         ELSE IF i \in at /\ t[i] = "(" THEN g[i - 1] + 1
                         ELSE IF i \in at /\ t[i] = ")" /\ g[i - 1] > 0 THEN g[i - 1] - 1
                         ELSE g[i - 1]]
           depth == CHOOSE g : g = Rule(g)
<1>1. n \in Nat
  BY Lengths
<1>2. Depth(t, at) = depth
  BY DEF Depth
<1>3. \A d \in Nat, i \in Nat : DepthStep(d, t, at, i) \in Nat
  BY DEF DepthStep
<1>4. PICK f : Follows(f, step, 0, Nat, n)
  <2>1. StaysIn(step, Nat)
    BY <1>3 DEF StaysIn
  <2> HIDE DEF step
  <2>2. QED
    BY <1>1, <2>1, Iterated
<1>5. f = Rule(f)
  <2>1. ASSUME NEW i \in 1 .. n
        PROVE  f[i] = DepthStep(f[i - 1], t, at, i)
    <3>1. f[i - 1] \in Nat /\ f[i] = step[i][f[i - 1]]
      <4> HIDE DEF step
      <4>1. QED
        BY <1>1, <1>4 DEF Follows
    <3>2. QED
      BY <3>1
  <2>2. f \in [0 .. n -> Nat] /\ f[0] = 0
    BY <1>4 DEF Follows
  <2>3. QED
    BY <1>1, <2>1, <2>2 DEF DepthStep
<1>6. depth = Rule(depth)
  <2> HIDE DEF Rule
  <2>1. QED
    BY <1>5
<1> HIDE DEF depth
<1>7. depth[0] = 0 /\ \A i \in 1 .. n : depth[i] = DepthStep(depth[i - 1], t, at, i)
  BY <1>1, <1>6 DEF DepthStep
<1>8. \A i \in 0 .. n : depth[i] \in Nat
  <2> DEFINE P == {i \in 0 .. n : depth[i] \in Nat}
  <2>1. 0 \in P
    BY <1>1, <1>7
  <2>2. ASSUME NEW i \in 1 .. n, i - 1 \in P
        PROVE  i \in P
    <3>1. depth[i - 1] \in Nat /\ depth[i] = DepthStep(depth[i - 1], t, at, i)
      BY <1>7, <2>2
    <3>2. i \in Nat /\ i \in 0 .. n
      BY <1>1
    <3>3. depth[i] \in Nat
      BY <1>3, <3>1, <3>2
    <3>4. QED
      BY <3>2, <3>3
  <2> HIDE DEF P
  <2>3. \A i \in 0 .. n : i \in P
    BY <1>1, <2>1, <2>2, UpTo
  <2>4. QED
    BY <2>3 DEF P
<1>9. depth \in [0 .. n -> Nat]
  BY <1>6, <1>8
<1>10. QED
  BY <1>2, <1>7, <1>9

LEMMA SameDepth ==
  ASSUME NEW t \in Texts, NEW u \in Texts, NEW at, NEW bt, NEW n \in Nat,
         n <= Len(t), n <= Len(u),
         \A i \in 1 .. n : (i \in at <=> i \in bt) /\ (i \in at => t[i] = u[i])
  PROVE  \A i \in 0 .. n : Depth(t, at)[i] = Depth(u, bt)[i]
<1> DEFINE P == {i \in 0 .. n : Depth(t, at)[i] = Depth(u, bt)[i]}
<1>1. 0 \in P
  BY DepthScan
<1>2. ASSUME NEW i \in 1 .. n, i - 1 \in P
      PROVE  i \in P
  <2>1. /\ Depth(t, at)[i] = DepthStep(Depth(t, at)[i - 1], t, at, i)
        /\ Depth(u, bt)[i] = DepthStep(Depth(u, bt)[i - 1], u, bt, i)
    BY DepthScan, Lengths
  <2>2. QED
    BY <1>2, <2>1 DEF DepthStep
<1>3. QED
  <2> HIDE DEF P
  <2>1. \A i \in 0 .. n : i \in P
    BY <1>1, <1>2, UpTo
  <2>2. QED
    BY <2>1 DEF P
------------------------------------------------------------------------------
(***************************************************************************)
(* Positions.                                                              *)
(***************************************************************************)
LEMMA FirstAndLast ==
  ASSUME NEW n \in Nat, NEW S \in SUBSET (1 .. n), S # {}
  PROVE  /\ Min(S) \in S /\ \A i \in S : Min(S) <= i
         /\ Max(S) \in S /\ \A i \in S : i <= Max(S)
<1>1. \E m \in S : \A i \in S : m <= i
  <2> DEFINE P == {k \in 0 .. n : (\E i \in S : i <= k) => \E m \in S : \A i \in S : m <= i}
  <2>1. 0 \in P
    OBVIOUS
  <2>2. ASSUME NEW k \in 1 .. n, k - 1 \in P
        PROVE  k \in P
    <3>1. CASE \E i \in S : i <= k - 1
      BY <2>2, <3>1
    <3>2. CASE \A i \in S : ~ (i <= k - 1)
      <4>1. \A i \in S : k <= i
        BY <3>2
      <4>2. QED
        BY <4>1
    <3>3. QED
      BY <3>1, <3>2
  <2> HIDE DEF P
  <2>3. \A k \in 0 .. n : k \in P
    BY <2>1, <2>2, UpTo
  <2>4. n \in P
    BY <2>3
  <2>5. \A i \in S : i <= n
    OBVIOUS
  <2>6. \E i \in S : i <= n
    BY <2>5
  <2>7. QED
    BY <2>4, <2>5, <2>6 DEF P
<1>2. \E m \in S : \A i \in S : m >= i
  <2> DEFINE P == {k \in 0 .. n : (\E i \in S : i <= k) =>
                                    \E m \in S : \A i \in S : i <= k => m >= i}
  <2>1. 0 \in P
    OBVIOUS
  <2>2. ASSUME NEW k \in 1 .. n, k - 1 \in P
        PROVE  k \in P
    <3>1. CASE k \in S
      BY <3>1
    <3>2. CASE k \notin S
      <4>1. \A i \in S : i <= k <=> i <= k - 1
        BY <3>2
      <4>2. QED
        BY <2>2, <4>1
    <3>3. QED
      BY <3>1, <3>2
  <2> HIDE DEF P
  <2>3. \A k \in 0 .. n : k \in P
    BY <2>1, <2>2, UpTo
  <2>4. n \in P
    BY <2>3
  <2>5. \A i \in S : i <= n
    OBVIOUS
  <2>6. \E i \in S : i <= n
    BY <2>5
  <2>7. QED
    BY <2>4, <2>5, <2>6 DEF P
<1>3. Min(S) \in S /\ \A i \in S : Min(S) <= i
  BY <1>1 DEF Min
<1>4. Max(S) \in S /\ \A i \in S : Max(S) >= i
  BY <1>2 DEF Max
<1>5. QED
  BY <1>3, <1>4

\* What Oracle sees of a text.
Sees(t) == Visible(t, OracleModes(t))

LEMMA SeesPositions ==
  ASSUME NEW t \in Texts
  PROVE  /\ Sees(t) \in SUBSET (1 .. Len(t))
         /\ \A i \in 1 .. Len(t) :
              i \in Sees(t) <=> OracleModes(t)[i - 1] = "code" /\ t[i] \notin Hidden
BY Lengths DEF Sees, Visible

\* The texts begin with the same n lexemes.
Agree(t, u, n) == n <= Len(t) /\ n <= Len(u) /\ \A i \in 1 .. n : t[i] = u[i]

LEMMA SameBeginning ==
  ASSUME NEW t \in Texts, NEW u \in Texts, NEW n \in Nat, Agree(t, u, n)
  PROVE  /\ \A i \in 0 .. n : OracleModes(u)[i] = OracleModes(t)[i]
         /\ \A i \in 1 .. n : i \in Sees(u) <=> i \in Sees(t)
<1>1. \A i \in 0 .. n : OracleModes(t)[0 + i] = OracleModes(u)[0 + i]
  <2>1. 0 \in Nat /\ Alike(t, 0, u, 0, n)
    BY DEF Agree, Alike
  <2>2. OracleModes(t)[0] = OracleModes(u)[0]
    BY OracleScan
  <2>3. QED
    BY <2>1, <2>2, SameModes DEF AlikeInMode
<1>2. \A i \in 0 .. n : OracleModes(u)[i] = OracleModes(t)[i]
  BY <1>1
<1>3. ASSUME NEW i \in 1 .. n
      PROVE  i \in Sees(u) <=> i \in Sees(t)
  <2>1. i \in 1 .. Len(t) /\ i \in 1 .. Len(u) /\ t[i] = u[i]
    BY Lengths DEF Agree
  <2>2. OracleModes(u)[i - 1] = OracleModes(t)[i - 1]
    BY <1>2
  <2>3. QED
    BY <2>1, <2>2, SeesPositions
<1>4. QED
  BY <1>2, <1>3

LEMMA IsText ==
  ASSUME NEW n \in Nat, NEW u \in [1 .. n -> Lexemes]
  PROVE  u \in Texts /\ Len(u) = n
<1>1. u \in Texts
  BY SeqDef DEF Texts
<1>2. Len(u) \in Nat /\ DOMAIN u = 1 .. Len(u)
  BY <1>1, Lengths
<1>3. 1 .. Len(u) = 1 .. n
  BY <1>2
<1>4. QED
  BY <1>1, <1>2, <1>3

\* u is t without its lexeme at k.
IsWithout(u, t, k) ==
  /\ u \in Texts /\ Len(u) = Len(t) - 1
  /\ \A i \in 1 .. k - 1 : u[i] = t[i]
  /\ \A i \in k .. Len(u) : u[i] = t[i + 1]

LEMMA OneOut ==
  ASSUME NEW t \in Texts, NEW k \in 1 .. Len(t)
  PROVE  IsWithout([i \in 1 .. Len(t) - 1 |-> IF i < k THEN t[i] ELSE t[i + 1]], t, k)
<1> DEFINE n == Len(t)
           u == [i \in 1 .. n - 1 |-> IF i < k THEN t[i] ELSE t[i + 1]]
<1>1. n \in Nat /\ n - 1 \in Nat /\ \A i \in 1 .. n : t[i] \in Lexemes
  BY Lengths
<1>2. u \in [1 .. n - 1 -> Lexemes]
  BY <1>1
<1>3. u \in Texts /\ Len(u) = n - 1
  <2> HIDE DEF u
  <2>1. QED
    BY <1>1, <1>2, IsText
<1>4. \A i \in 1 .. n - 1 : u[i] = IF i < k THEN t[i] ELSE t[i + 1]
  OBVIOUS
<1> HIDE DEF u
<1>5. QED
  BY <1>1, <1>3, <1>4 DEF IsWithout, u

\* A semicolon at the end of what Oracle sees can be left out: what comes after it
\* is hidden as before.
LEMMA SemicolonOut ==
  ASSUME NEW t \in Texts, NEW k \in Sees(t), \A i \in Sees(t) : i <= k, t[k] = "semicolon",
         NEW u, IsWithout(u, t, k)
  PROVE  /\ \A i \in 0 .. k - 1 : OracleModes(u)[i] = OracleModes(t)[i]
         /\ \A i \in k - 1 .. Len(u) : OracleModes(u)[i] = OracleModes(t)[i + 1]
         /\ Sees(u) = Sees(t) \ {k}
         /\ NestsComments(u) => NestsComments(t)
<1> DEFINE n == Len(t)
           O == OracleModes(t)
           N == OracleModes(u)
<1>1. n \in Nat /\ DOMAIN t = 1 .. n /\ \A i \in 1 .. n : t[i] \in Lexemes
  BY Lengths
<1>2. k \in Sees(t) /\ \A i \in Sees(t) : i <= k
  OBVIOUS
<1>3. k \in 1 .. n /\ O[k - 1] = "code"
  BY <1>2, SeesPositions
<1>5. u \in Texts /\ Len(u) = n - 1
  BY DEF IsWithout
<1>6. \A i \in 1 .. k - 1 : u[i] = t[i]
  BY DEF IsWithout
<1>7. \A i \in k .. Len(u) : u[i] = t[i + 1]
  BY DEF IsWithout
<1>8. \A i \in 0 .. k - 1 : N[i] = O[i]
  <2>1. Agree(t, u, k - 1) /\ k - 1 \in Nat
    BY <1>1, <1>3, <1>5, <1>6 DEF Agree
  <2>2. QED
    BY <1>5, <2>1, SameBeginning
<1>9. \A i \in k - 1 .. Len(u) : N[i] = O[i + 1]
  <2>1. O[k] = "code" /\ N[k - 1] = "code"
    <3>1. O[k] = OracleStep(O[k - 1], t[k])
      BY <1>3, OracleScan
    <3>2. QED
      BY <1>3, <1>8, <3>1 DEF OracleStep, Opens
  <2>2. \A i \in 0 .. n - k : O[k + i] = N[(k - 1) + i]
    <3> DEFINE b == k - 1
               m == n - k
    <3>1. k \in Nat /\ b \in Nat /\ m \in Nat /\ Alike(t, k, u, b, m)
      <4>1. ASSUME NEW i \in 1 .. m
            PROVE  t[k + i] = u[b + i]
        <5>1. b + i \in k .. Len(u) /\ (b + i) + 1 = k + i
          BY <1>1, <1>3, <1>5
        <5>2. QED
          BY <1>7, <5>1
      <4>2. QED
        BY <1>1, <1>3, <1>5, <4>1 DEF Alike
    <3>2. O[k] = N[b]
      BY <2>1
    <3> HIDE DEF b, m
    <3>3. \A i \in 0 .. m : O[k + i] = N[b + i]
      <4>1. u \in Texts
        BY <1>5
      <4>2. QED
        BY <3>1, <3>2, <4>1, SameModes DEF AlikeInMode
    <3>4. QED
      BY <3>3 DEF b, m
  <2>3. ASSUME NEW i \in k - 1 .. Len(u)
        PROVE  N[i] = O[i + 1]
    <3>1. i - (k - 1) \in 0 .. n - k
      BY <1>1, <1>3, <1>5
    <3>2. k + (i - (k - 1)) = i + 1 /\ (k - 1) + (i - (k - 1)) = i
      BY <1>3
    <3>3. QED
      BY <2>2, <3>1, <3>2
  <2>4. QED
    BY <2>3
<1> HIDE DEF n, O, N
<1>10. ASSUME NEW i \in 1 .. Len(u)
       PROVE  i \in Sees(u) <=> i \in Sees(t) /\ i < k
  <2>1. i \in Sees(u) <=> N[i - 1] = "code" /\ u[i] \notin Hidden
    BY <1>5, SeesPositions DEF N
  <2>2. CASE i < k
    <3>1. i \in Sees(t) <=> O[i - 1] = "code" /\ t[i] \notin Hidden
      BY <1>5, SeesPositions DEF O, n
    <3>2. i - 1 \in 0 .. k - 1 /\ i \in 1 .. k - 1
      BY <1>3, <1>5, <2>2
    <3>3. QED
      BY <1>6, <1>8, <2>1, <2>2, <3>1, <3>2
  <2>3. CASE ~ (i < k)
    <3>1. i + 1 \in 1 .. n /\ i \in k .. Len(u) /\ i - 1 \in k - 1 .. Len(u) /\ (i - 1) + 1 = i
      BY <1>1, <1>3, <1>5, <2>3
    <3>2. N[i - 1] = O[i] /\ u[i] = t[i + 1]
      BY <1>7, <1>9, <3>1
    <3>3. i + 1 \notin Sees(t)
      BY <1>2, <1>3, <2>3, <3>1
    <3>4. ~ (O[i] = "code" /\ t[i + 1] \notin Hidden)
      <4>1. (i + 1) - 1 = i
        BY <3>1
      <4>2. i + 1 \in 1 .. Len(t)
        BY <3>1 DEF n
      <4>3. QED
        BY <3>3, <4>1, <4>2, SeesPositions DEF O
    <3>5. QED
      BY <2>1, <2>3, <3>2, <3>4
  <2>4. QED
    BY <2>2, <2>3
<1>11. Sees(u) = Sees(t) \ {k}
  <2>1. Sees(u) \in SUBSET (1 .. Len(u)) /\ Sees(t) \in SUBSET (1 .. n)
    BY <1>5, SeesPositions DEF n
  <2>2. \A i \in Sees(t) \ {k} : i < k /\ i \in 1 .. Len(u)
    BY <1>1, <1>2, <1>3, <1>5, <2>1
  <2>3. \A i \in Sees(u) : i \in Sees(t) /\ i # k
    BY <1>3, <1>10, <2>1
  <2>4. QED
    BY <1>10, <2>2, <2>3
<1>12. ASSUME NestsComments(u)
       PROVE  NestsComments(t)
  <2>1. PICK i \in 1 .. Len(u) : N[i - 1] = "block" /\ u[i] = "/*"
    BY <1>12 DEF NestsComments, N
  <2>2. CASE i < k
    <3>1. i - 1 \in 0 .. k - 1 /\ i \in 1 .. k - 1 /\ i \in 1 .. Len(t)
      BY <1>1, <1>3, <1>5, <2>2 DEF n
    <3>2. O[i - 1] = "block" /\ t[i] = "/*"
      BY <1>6, <1>8, <2>1, <3>1
    <3>3. QED
      BY <3>1, <3>2 DEF NestsComments, O
  <2>3. CASE ~ (i < k)
    <3>1. /\ i + 1 \in 1 .. Len(t) /\ i \in k .. Len(u) /\ i - 1 \in k - 1 .. Len(u)
          /\ (i - 1) + 1 = i /\ (i + 1) - 1 = i
      BY <1>1, <1>3, <1>5, <2>3 DEF n
    <3>2. O[(i + 1) - 1] = "block" /\ t[i + 1] = "/*"
      BY <1>7, <1>9, <2>1, <3>1
    <3>3. QED
      BY <3>1, <3>2 DEF NestsComments, O
  <2>4. QED
    BY <2>2, <2>3
<1>13. QED
  BY <1>8, <1>9, <1>11, <1>12 DEF n, O, N

\* What Intended makes of a text.
Ends(t, k) == k \in Sees(t) /\ (\A i \in Sees(t) : i <= k) /\ t[k] = "semicolon"

LEMMA IntendedText ==
  ASSUME NEW t \in Texts
  PROVE  \/ Intended(t) = t /\ \A k : ~ Ends(t, k)
         \/ \E k : Ends(t, k) /\ IsWithout(Intended(t), t, k)
<1> DEFINE at == Sees(t)
           k  == Max(at)
<1>1. at \in SUBSET (1 .. Len(t)) /\ Len(t) \in Nat
  BY SeesPositions, Lengths
<1>2. Intended(t) = IF at # {} /\ t[k] = "semicolon"
                    THEN [i \in 1 .. Len(t) - 1 |-> IF i < k THEN t[i] ELSE t[i + 1]]
                    ELSE t
  BY DEF Intended, WithoutSemicolon, Sees
<1>3. at # {} => k \in at /\ \A i \in at : i <= k
  <2> HIDE DEF at
  <2>1. QED
    BY <1>1, FirstAndLast
<1> HIDE DEF at, k
<1>4. CASE at # {} /\ t[k] = "semicolon"
  <2>1. Ends(t, k) /\ k \in 1 .. Len(t)
    BY <1>1, <1>3, <1>4 DEF Ends, at
  <2>2. IsWithout([i \in 1 .. Len(t) - 1 |-> IF i < k THEN t[i] ELSE t[i + 1]], t, k)
    BY <2>1, OneOut
  <2>3. IsWithout(Intended(t), t, k)
    BY <1>2, <1>4, <2>2
  <2>4. QED
    BY <2>1, <2>3
<1>5. CASE ~ (at # {} /\ t[k] = "semicolon")
  <2>1. Intended(t) = t
    BY <1>2, <1>5
  <2>2. ASSUME NEW j, Ends(t, j)
        PROVE  FALSE
    <3>1. j = k
      BY <1>1, <1>3, <2>2 DEF Ends, at
    <3>2. QED
      BY <1>5, <2>2, <3>1 DEF Ends, at
  <2>3. QED
    BY <2>1, <2>2
<1>6. QED
  BY <1>4, <1>5
------------------------------------------------------------------------------
(***************************************************************************)
(* Queries.                                                                *)
(***************************************************************************)
Tops(t) == TopLevel(t, Sees(t))

Brackets(t, i, b) == {j \in Sees(t) : j <= i /\ t[j] = b}

Level(t, i) == Cardinality(Brackets(t, i, "(")) - Cardinality(Brackets(t, i, ")"))

BeginsQuery(t, s) == s \in Tops(t) /\ t[s] = "select" /\ \A j \in Sees(t) : s <= j

Shape(t) ==
  /\ OracleModes(t)[Len(t)] \in {"code", "line"}
  /\ \A i \in Sees(t) : t[i] \in Clauses \cup {"(", ")"}
  /\ \A i \in 1 .. Len(t) : Level(t, i) >= 0
  /\ Level(t, Len(t)) = 0
  /\ \E s : BeginsQuery(t, s)
  /\ \A i, j \in Tops(t) : i < j => Rank[t[i]] < Rank[t[j]]
  /\ \A i \in Sees(t) : t[i] = "lock" => i \in Tops(t)

LEMMA Counts ==
  ASSUME NEW t \in Texts, NEW i \in Nat, NEW b
  PROVE  IsFiniteSet(Brackets(t, i, b)) /\ Cardinality(Brackets(t, i, b)) \in Nat
<1>1. IsFiniteSet(1 .. Len(t))
  BY Lengths, FS_Interval
<1>2. Brackets(t, i, b) \in SUBSET (1 .. Len(t))
  BY SeesPositions DEF Brackets
<1>3. QED
  BY <1>1, <1>2, FS_Subset, FS_CardinalityType

\* What a lexeme changes of the number of open brackets.
LevelChange(t, i) ==
  IF i \in Sees(t) /\ t[i] = "(" THEN 1 ELSE IF i \in Sees(t) /\ t[i] = ")" THEN -1 ELSE 0

\* The number of open brackets, lexeme by lexeme.
LEMMA Levels ==
  ASSUME NEW t \in Texts
  PROVE  /\ \A i \in Nat : (\A j \in Sees(t) : ~ (j <= i)) => Level(t, i) = 0
         /\ \A i \in Nat : Level(t, i) \in Int
         /\ \A i \in Nat : i # 0 => Level(t, i) = Level(t, i - 1) + LevelChange(t, i)
<1>1. \A j \in Sees(t) : j \in Nat
  BY Lengths, SeesPositions
<1>2. \A i \in Nat : \A b : /\ IsFiniteSet(Brackets(t, i, b))
                            /\ Cardinality(Brackets(t, i, b)) \in Nat
  BY Counts
<1>3. ASSUME NEW i \in Nat, \A j \in Sees(t) : ~ (j <= i)
      PROVE  Level(t, i) = 0
  <2>1. \A b : Brackets(t, i, b) = {}
    BY <1>3 DEF Brackets
  <2>2. \A b : Cardinality(Brackets(t, i, b)) = 0
    BY <2>1, FS_EmptySet
  <2>3. QED
    BY <2>2 DEF Level
<1>4. ASSUME NEW i \in Nat, i # 0
      PROVE  Level(t, i) = Level(t, i - 1) + LevelChange(t, i)
  <2>1. i - 1 \in Nat
    BY <1>4
  <2>2. ASSUME NEW b, ~ (i \in Sees(t) /\ t[i] = b)
        PROVE  Cardinality(Brackets(t, i, b)) = Cardinality(Brackets(t, i - 1, b))
    <3>1. \A j \in Sees(t) : t[j] = b => (j <= i <=> j <= i - 1)
      BY <1>1, <2>1, <2>2
    <3>2. Brackets(t, i, b) = Brackets(t, i - 1, b)
      BY <3>1 DEF Brackets
    <3>3. QED
      BY <3>2
  <2>3. ASSUME NEW b, i \in Sees(t), t[i] = b
        PROVE  Cardinality(Brackets(t, i, b)) = Cardinality(Brackets(t, i - 1, b)) + 1
    <3>1. Brackets(t, i, b) = Brackets(t, i - 1, b) \cup {i}
      <4>1. \A j \in Sees(t) : j <= i <=> j <= i - 1 \/ j = i
        BY <1>1, <2>1
      <4>2. QED
        BY <2>3, <4>1 DEF Brackets
    <3>2. i \notin Brackets(t, i - 1, b)
      BY <2>1 DEF Brackets
    <3>3. QED
      BY <1>2, <2>1, <3>1, <3>2, FS_AddElement
  <2>4. /\ Cardinality(Brackets(t, i, "(")) \in Nat /\ Cardinality(Brackets(t, i, ")")) \in Nat
        /\ Cardinality(Brackets(t, i - 1, "(")) \in Nat
        /\ Cardinality(Brackets(t, i - 1, ")")) \in Nat
    BY <1>2, <2>1
  <2>5. CASE i \in Sees(t) /\ t[i] = "("
    <3>1. /\ Cardinality(Brackets(t, i, "(")) = Cardinality(Brackets(t, i - 1, "(")) + 1
          /\ Cardinality(Brackets(t, i, ")")) = Cardinality(Brackets(t, i - 1, ")"))
      BY <2>2, <2>3, <2>5
    <3>2. QED
      BY <2>4, <2>5, <3>1 DEF Level, LevelChange
  <2>6. CASE i \in Sees(t) /\ t[i] = ")"
    <3>1. /\ Cardinality(Brackets(t, i, ")")) = Cardinality(Brackets(t, i - 1, ")")) + 1
          /\ Cardinality(Brackets(t, i, "(")) = Cardinality(Brackets(t, i - 1, "("))
      BY <2>2, <2>3, <2>6
    <3>2. QED
      BY <2>4, <2>6, <3>1 DEF Level, LevelChange
  <2>7. CASE ~ (i \in Sees(t) /\ t[i] \in {"(", ")"})
    <3>1. /\ Cardinality(Brackets(t, i, "(")) = Cardinality(Brackets(t, i - 1, "("))
          /\ Cardinality(Brackets(t, i, ")")) = Cardinality(Brackets(t, i - 1, ")"))
      BY <2>2, <2>7
    <3>2. QED
      BY <2>4, <2>7, <3>1 DEF Level, LevelChange
  <2>8. QED
    BY <2>5, <2>6, <2>7
<1>5. \A i \in Nat : Level(t, i) \in Int
  BY <1>2 DEF Level
<1>6. QED
  BY <1>3, <1>4, <1>5

LEMMA QueryShape ==
  ASSUME NEW t \in Texts
  PROVE  IsQuery(t) <=> Shape(t)
<1>1. DOMAIN t = 1 .. Len(t) /\ Len(t) \in Nat
  BY Lengths
<1>2. \A i \in 1 .. Len(t) :
        /\ Cardinality({j \in Sees(t) : j <= i /\ t[j] = "("}) = Cardinality(Brackets(t, i, "("))
        /\ Cardinality({j \in Sees(t) : j <= i /\ t[j] = ")"}) = Cardinality(Brackets(t, i, ")"))
  BY DEF Brackets
<1>3. Balanced(t, Sees(t)) <=>
        /\ \A i \in 1 .. Len(t) : Cardinality(Brackets(t, i, ")")) <= Cardinality(Brackets(t, i, "("))
        /\ Cardinality(Brackets(t, Len(t), ")")) = Cardinality(Brackets(t, Len(t), "("))
  BY <1>1 DEF Balanced, Brackets
<1>4. Balanced(t, Sees(t)) <=> /\ \A i \in 1 .. Len(t) : Level(t, i) >= 0
                               /\ Level(t, Len(t)) = 0
  <2>1. \A i \in Nat : /\ Cardinality(Brackets(t, i, "(")) \in Nat
                       /\ Cardinality(Brackets(t, i, ")")) \in Nat
    BY Counts
  <2>2. \A i \in Nat : Level(t, i) >= 0 <=>
                         Cardinality(Brackets(t, i, ")")) <= Cardinality(Brackets(t, i, "("))
    BY <2>1 DEF Level
  <2>3. Level(t, Len(t)) = 0 <=>
          Cardinality(Brackets(t, Len(t), ")")) = Cardinality(Brackets(t, Len(t), "("))
    <3> DEFINE p == Cardinality(Brackets(t, Len(t), "("))
               q == Cardinality(Brackets(t, Len(t), ")"))
    <3>1. p \in Nat /\ q \in Nat /\ Level(t, Len(t)) = p - q
      BY <1>1, <2>1 DEF Level
    <3> HIDE DEF p, q
    <3>2. p - q = 0 <=> q = p
      BY <3>1
    <3>3. QED
      BY <3>1, <3>2 DEF p, q
  <2>4. \A i \in 1 .. Len(t) : i \in Nat
    OBVIOUS
  <2>5. QED
    BY <1>3, <2>2, <2>3, <2>4
<1>5. IsQuery(t) <=>
        /\ OracleModes(t)[Len(t)] \in {"code", "line"}
        /\ \A i \in Sees(t) : t[i] \in Clauses \cup {"(", ")"}
        /\ Balanced(t, Sees(t))
        /\ \E i \in Tops(t) : t[i] = "select" /\ \A j \in Sees(t) : i <= j
        /\ \A i, j \in Tops(t) : i < j => Rank[t[i]] < Rank[t[j]]
        /\ \A i \in Sees(t) : t[i] = "lock" => i \in Tops(t)
  BY DEF IsQuery, Sees, Tops
<1>6. QED
  BY <1>4, <1>5 DEF Shape, BeginsQuery

\* As brackets are balanced, the depth at a lexeme is the number of open ones.
LEMMA DepthIsLevel ==
  ASSUME NEW t \in Texts, \A i \in 1 .. Len(t) : Level(t, i) >= 0
  PROVE  \A i \in 0 .. Len(t) : Depth(t, Sees(t))[i] = Level(t, i)
<1> DEFINE n == Len(t)
           D == Depth(t, Sees(t))
           P == {i \in 0 .. n : D[i] = Level(t, i)}
<1>1. n \in Nat /\ Sees(t) \in SUBSET (1 .. n)
  BY Lengths, SeesPositions
<1>2. /\ D \in [0 .. n -> Nat] /\ D[0] = 0
      /\ \A i \in 1 .. n : D[i] = DepthStep(D[i - 1], t, Sees(t), i)
  BY DepthScan
<1> HIDE DEF D, n
<1>3. 0 \in P
  <2>1. \A j \in Sees(t) : ~ (j <= 0)
    BY <1>1
  <2>2. QED
    BY <1>1, <1>2, <2>1, Levels
<1>4. ASSUME NEW i \in 1 .. n, i - 1 \in P
      PROVE  i \in P
  <2>1. /\ i \in Nat /\ i # 0 /\ i \in 0 .. n
        /\ D[i - 1] = Level(t, i - 1) /\ D[i - 1] \in Nat
    BY <1>1, <1>2, <1>4
  <2>2. D[i] = DepthStep(D[i - 1], t, Sees(t), i)
    BY <1>2
  <2>3. Level(t, i) >= 0 /\ Level(t, i) = Level(t, i - 1) + LevelChange(t, i)
    BY <2>1, Levels DEF n
  <2>4. D[i] = Level(t, i)
    BY <2>1, <2>2, <2>3 DEF DepthStep, LevelChange
  <2>5. QED
    BY <2>1, <2>4
<1>5. QED
  <2> HIDE DEF P
  <2>1. \A i \in 0 .. n : i \in P
    BY <1>1, <1>3, <1>4, UpTo
  <2>2. QED
    BY <2>1 DEF P, D, n

LEMMA TopPositions ==
  ASSUME NEW t \in Texts, NEW i
  PROVE  i \in Tops(t) <=>
           i \in Sees(t) /\ Depth(t, Sees(t))[i] = 0 /\ t[i] \notin {"(", ")"}
BY DEF Tops, TopLevel

LEMMA SameTops ==
  ASSUME NEW t \in Texts, NEW u \in Texts, NEW n \in Nat, Agree(t, u, n)
  PROVE  \A i \in 1 .. n : i \in Tops(u) <=> i \in Tops(t)
<1>1. \A i \in 1 .. n : i \in Sees(u) <=> i \in Sees(t)
  BY SameBeginning
<1>2. \A i \in 1 .. n : t[i] = u[i]
  BY DEF Agree
<1>3. \A i \in 0 .. n : Depth(t, Sees(t))[i] = Depth(u, Sees(u))[i]
  <2>1. n <= Len(t) /\ n <= Len(u)
    BY DEF Agree
  <2>2. \A i \in 1 .. n : (i \in Sees(t) <=> i \in Sees(u)) /\ (i \in Sees(t) => t[i] = u[i])
    BY <1>1, <1>2
  <2>3. QED
    BY <2>1, <2>2, SameDepth
<1>4. QED
  BY <1>1, <1>2, <1>3, TopPositions

\* What is hidden may be added to a query at its end, and what comes after a
\* lexeme at which no bracket is open may be cut off.
LEMMA QueryPart ==
  ASSUME NEW t \in Texts, NEW u \in Texts, NEW n \in Nat, Agree(t, u, n), Shape(t),
         \A i \in Sees(u) : i <= n,
         OracleModes(u)[Len(u)] \in {"code", "line"},
         Level(t, n) = 0,
         NEW s \in 1 .. n, BeginsQuery(t, s)
  PROVE  /\ Shape(u)
         /\ \A i : i \in Tops(u) <=> i \in Tops(t) /\ i <= n
         /\ \A i \in Tops(u) : u[i] = t[i]
         /\ BeginsQuery(u, s)
         /\ TakesLocks(u) => TakesLocks(t)
<1>1. /\ n <= Len(t) /\ n <= Len(u) /\ Len(t) \in Nat /\ Len(u) \in Nat
      /\ \A i \in 1 .. n : t[i] = u[i]
  BY Lengths DEF Agree
<1>2. Sees(t) \in SUBSET (1 .. Len(t)) /\ Sees(u) \in SUBSET (1 .. Len(u))
  BY SeesPositions
<1>3. \A i \in Sees(u) : i \in 1 .. n
  BY <1>2
<1>4. \A i : i \in Sees(u) <=> i \in Sees(t) /\ i <= n
  <2>1. \A i \in 1 .. n : i \in Sees(u) <=> i \in Sees(t)
    BY SameBeginning
  <2>2. \A i \in Sees(t) : i <= n => i \in 1 .. n
    BY <1>2
  <2>3. QED
    BY <1>3, <2>1, <2>2
<1>5. \A i : i \in Tops(u) <=> i \in Tops(t) /\ i <= n
  <2>1. \A i \in 1 .. n : i \in Tops(u) <=> i \in Tops(t)
    BY SameTops
  <2>2. \A i : (i \in Tops(u) => i \in Sees(u)) /\ (i \in Tops(t) => i \in Sees(t))
    BY TopPositions
  <2>3. QED
    BY <1>2, <1>3, <1>4, <2>1, <2>2
<1>6. \A i \in Sees(u) : u[i] = t[i]
  BY <1>1, <1>3
<1>7. \A i \in Tops(u) : u[i] = t[i] /\ i \in Sees(u)
  BY <1>6, TopPositions
<1>8. BeginsQuery(u, s)
  BY <1>4, <1>5, <1>7 DEF BeginsQuery
<1>9. \A i \in 1 .. Len(u) : \A b : Brackets(u, i, b) = Brackets(t, IF i <= n THEN i ELSE n, b)
  <2>1. ASSUME NEW i \in 1 .. Len(u), NEW b
        PROVE  Brackets(u, i, b) = Brackets(t, IF i <= n THEN i ELSE n, b)
    <3>1. CASE i <= n
      <4>1. \A j : j \in Sees(u) /\ j <= i <=> j \in Sees(t) /\ j <= i
        BY <1>1, <1>2, <1>4, <3>1
      <4>2. QED
        BY <1>6, <3>1, <4>1, <1>4 DEF Brackets
    <3>2. CASE ~ (i <= n)
      <4>1. \A j : j \in Sees(u) /\ j <= i <=> j \in Sees(t) /\ j <= n
        BY <1>1, <1>2, <1>3, <1>4, <3>2
      <4>2. QED
        BY <1>6, <3>2, <4>1, <1>4 DEF Brackets
    <3>3. QED
      BY <3>1, <3>2
  <2>2. QED
    BY <2>1
<1>10. ASSUME NEW i \in 1 .. Len(u)
       PROVE  Level(u, i) >= 0 /\ (i = Len(u) => Level(u, i) = 0)
  <2>1. Level(u, i) = Level(t, IF i <= n THEN i ELSE n)
    BY <1>9 DEF Level
  <2>2. CASE i <= n /\ i # n
    <3>1. i \in 1 .. Len(t)
      BY <1>1, <2>2
    <3>2. QED
      BY <1>1, <2>1, <2>2, <3>1 DEF Shape
  <2>3. CASE ~ (i <= n /\ i # n)
    <3>1. Level(u, i) = Level(t, n)
      BY <1>1, <2>1, <2>3
    <3>2. QED
      BY <3>1
  <2>4. QED
    BY <2>2, <2>3
<1>11. Len(u) \in 1 .. Len(u)
  BY <1>1
<1>12. \A i \in Sees(u) : u[i] \in Clauses \cup {"(", ")"}
  BY <1>4, <1>6 DEF Shape
<1>13. \A i, j \in Tops(u) : i < j => Rank[u[i]] < Rank[u[j]]
  BY <1>5, <1>7 DEF Shape
<1>14. \A i \in Sees(u) : u[i] = "lock" => i \in Tops(u)
  BY <1>4, <1>5, <1>6 DEF Shape
<1>15. Shape(u)
  BY <1>8, <1>10, <1>11, <1>12, <1>13, <1>14 DEF Shape
<1>16. TakesLocks(u) => TakesLocks(t)
  BY <1>4, <1>6 DEF TakesLocks, Sees
<1>17. QED
  BY <1>5, <1>7, <1>8, <1>15, <1>16

LEMMA Wrapped ==
  ASSUME NEW t \in Texts, NEW v, v = InBrackets(t), NEW u, u = Inner(v)
  PROVE  /\ v \in Texts /\ Len(v) = Len(t) + 3 /\ v[1] = "("
         /\ u \in Texts /\ Len(u) = Len(t) + 1 /\ u[Len(t) + 1] = "nl"
         /\ Agree(t, u, Len(t))
         /\ \A i \in 1 .. Len(u) : v[1 + i] = u[i]
<1> DEFINE n == Len(t)
           a == <<"(">>
           b == <<"nl", ")">>
           c == a \o t
<1>1. n \in Nat /\ \A i \in 1 .. n : t[i] \in Lexemes
  BY Lengths
<1>2. /\ a \in Texts /\ Len(a) = 1 /\ a[1] = "("
      /\ b \in Texts /\ Len(b) = 2 /\ b[1] = "nl" /\ b[2] = ")"
  BY DEF Texts, Lexemes, Hidden
<1> HIDE DEF a, b
<1>3. /\ c \in Texts /\ Len(c) = n + 1
      /\ c[1] = "(" /\ \A i \in 1 .. n : c[1 + i] = t[i]
  <2>1. /\ c \in Texts /\ Len(c) = Len(a) + n
        /\ \A i \in 1 .. Len(a) + n : c[i] = IF i <= Len(a) THEN a[i] ELSE t[i - Len(a)]
    BY <1>2, ConcatProperties DEF Texts
  <2>2. \A i \in 1 .. n : 1 + i \in 1 .. 1 + n /\ ~ (1 + i <= 1) /\ (1 + i) - 1 = i
    BY <1>1
  <2> HIDE DEF c, n
  <2>3. c[1] = "("
    BY <1>1, <1>2, <2>1
  <2>4. \A i \in 1 .. n : c[1 + i] = t[i]
    BY <1>2, <2>1, <2>2
  <2>5. QED
    BY <1>1, <1>2, <2>1, <2>3, <2>4
<1>4. v = c \o b
  BY DEF InBrackets, a, b
<1> HIDE DEF c
<1>5. /\ v \in Texts /\ Len(v) = n + 3
      /\ \A i \in 1 .. n + 3 : v[i] = IF i <= n + 1 THEN c[i] ELSE b[i - (n + 1)]
  <2> DEFINE w == c \o b
  <2>1. c \in Seq(Lexemes) /\ b \in Seq(Lexemes)
    BY <1>2, <1>3 DEF Texts
  <2>2. /\ w \in Seq(Lexemes) /\ Len(w) = Len(c) + Len(b)
        /\ \A i \in 1 .. Len(c) + Len(b) : w[i] = IF i <= Len(c) THEN c[i] ELSE b[i - Len(c)]
    BY <2>1, ConcatProperties
  <2>3. Len(c) + Len(b) = n + 3
    BY <1>1, <1>2, <1>3
  <2> HIDE DEF w
  <2>4. v = w
    BY <1>4 DEF w
  <2>5. QED
    BY <1>3, <2>2, <2>3, <2>4 DEF Texts
<1>6. u = SubSeq(v, 2, n + 2)
  <2>1. Len(v) - 1 = n + 2
    BY <1>1, <1>5
  <2>2. QED
    BY <2>1 DEF Inner
<1>7. u \in Texts /\ Len(u) = n + 1 /\ \A i \in 1 .. n + 1 : u[i] = v[1 + i]
  <2>1. u \in Seq(Lexemes) /\ Len(u) = n + 1 /\ \A i \in 1 .. n + 1 : u[i] = v[2 + i - 1]
    BY <1>1, <1>5, <1>6 DEF Texts
  <2>2. \A i \in 1 .. n + 1 : 2 + i - 1 = 1 + i
    OBVIOUS
  <2>3. QED
    BY <2>1, <2>2 DEF Texts
<1> HIDE DEF n
<1>8. v[1] = "("
  BY <1>1, <1>3, <1>5
<1>9. \A i \in 1 .. n : t[i] = u[i]
  BY <1>1, <1>3, <1>5, <1>7
<1>10. u[n + 1] = "nl"
  BY <1>1, <1>2, <1>5, <1>7
<1>11. Agree(t, u, n)
  BY <1>1, <1>7, <1>9 DEF Agree, n
<1>12. QED
  BY <1>5, <1>7, <1>8, <1>10, <1>11 DEF n

Has(t, x) == \E i \in Tops(t) : t[i] = x

LEMMA RowsByClauses ==
  ASSUME NEW t, NEW u, \A x \in {"fetch", "limit", "rownum"} : Has(t, x) <=> Has(u, x)
  PROVE  \A n : RowsOf(t, n) = RowsOf(u, n)
<1> DEFINE Numbered(y, n) == IF Has(y, "rownum") /\ RowNum < n THEN RowNum ELSE n
           Limit(y, n) == IF Has(y, "limit") /\ MaxRows < Numbered(y, n)
                          THEN MaxRows ELSE Numbered(y, n)
           Rows(y, n) == IF Has(y, "fetch") /\ First < Limit(y, n) THEN First ELSE Limit(y, n)
<1>1. \A y, n : RowsOf(y, n) = Rows(y, n)
  BY DEF RowsOf, Has, Tops, Sees
<1>2. /\ Has(t, "fetch") <=> Has(u, "fetch")
      /\ Has(t, "limit") <=> Has(u, "limit")
      /\ Has(t, "rownum") <=> Has(u, "rownum")
  OBVIOUS
<1>3. ASSUME NEW n
      PROVE  Rows(t, n) = Rows(u, n)
  <2>1. Numbered(t, n) = Numbered(u, n)
    BY <1>2
  <2> HIDE DEF Numbered
  <2>2. Limit(t, n) = Limit(u, n)
    BY <1>2, <2>1
  <2> HIDE DEF Limit
  <2>3. QED
    BY <1>2, <2>2
<1> HIDE DEF Rows
<1>4. QED
  BY <1>1, <1>3

\* A query in the brackets of a wrapper is run, and its rows are as before.
LEMMA RunsInBrackets ==
  ASSUME NEW t \in Texts, Shape(t), NEW w \in {"count", "limit"}
  PROVE  /\ ~ TakesLocks(t) => Runs(Statement(w, InBrackets(t)))
         /\ \A n : RowsOf(Inner(InBrackets(t)), n) = RowsOf(t, n)
<1> DEFINE v == InBrackets(t)
           u == Inner(v)
           n == Len(t)
<1>1. /\ v \in Texts /\ Len(v) = n + 3 /\ v[1] = "("
      /\ u \in Texts /\ Len(u) = n + 1 /\ u[n + 1] = "nl" /\ Agree(t, u, n)
      /\ \A i \in 1 .. Len(u) : v[1 + i] = u[i]
  BY Wrapped
<1>2. n \in Nat /\ Sees(u) \in SUBSET (1 .. Len(u))
  BY <1>1, Lengths, SeesPositions
<1> HIDE DEF u, v, n
<1>3. OracleModes(u)[n + 1] = "code" /\ \A i \in Sees(u) : i <= n
  <2>1. OracleModes(u)[n] \in {"code", "line"}
    <3>1. OracleModes(u)[n] = OracleModes(t)[n]
      BY <1>1, <1>2, SameBeginning
    <3>2. QED
      BY <3>1 DEF Shape, n
  <2>2. OracleModes(u)[n + 1] = OracleStep(OracleModes(u)[n], "nl")
    <3>1. n + 1 \in 1 .. Len(u) /\ (n + 1) - 1 = n
      BY <1>1, <1>2
    <3>2. QED
      BY <1>1, <3>1, OracleScan
  <2>3. OracleModes(u)[n + 1] = "code"
    BY <2>1, <2>2 DEF OracleStep, Opens, Closes
  <2>4. n + 1 \notin Sees(u)
    <3>1. "nl" \in Hidden /\ n + 1 \in 1 .. Len(u)
      BY <1>1, <1>2 DEF Hidden
    <3>2. QED
      BY <1>1, <3>1, SeesPositions
  <2>5. QED
    BY <1>1, <1>2, <2>3, <2>4
<1>4. PICK s : BeginsQuery(t, s)
  BY DEF Shape
<1>5. s \in 1 .. n
  BY <1>4, SeesPositions, TopPositions DEF BeginsQuery, n
<1>6. /\ Shape(u)
      /\ \A i : i \in Tops(u) <=> i \in Tops(t) /\ i <= n
      /\ \A i \in Tops(u) : u[i] = t[i]
      /\ TakesLocks(u) => TakesLocks(t)
  <2>1. Level(t, n) = 0
    BY DEF Shape, n
  <2>2. OracleModes(u)[Len(u)] \in {"code", "line"}
    BY <1>1, <1>3
  <2>3. QED
    BY <1>1, <1>2, <1>3, <1>4, <1>5, <2>1, <2>2, QueryPart
<1>7. OracleModes(v)[Len(v) - 1] = "code"
  <2>1. OracleModes(v)[1] = "code"
    <3>1. 1 \in 1 .. Len(v) /\ 1 - 1 = 0
      BY <1>1, <1>2
    <3>2. OracleModes(v)[1] = OracleStep("code", "(")
      BY <1>1, <3>1, OracleScan
    <3>3. QED
      BY <3>2 DEF OracleStep, Opens
  <2>2. AlikeInMode(v, 1, u, 0, Len(u))
    <3>1. Alike(v, 1, u, 0, Len(u)) /\ 1 \in Nat /\ 0 \in Nat /\ Len(u) \in Nat
      BY <1>1, <1>2 DEF Alike
    <3>2. OracleModes(v)[1] = OracleModes(u)[0]
      BY <1>1, <2>1, OracleScan
    <3>3. QED
      BY <1>1, <3>1, <3>2, SameModes
  <2>3. OracleModes(v)[1 + Len(u)] = OracleModes(u)[0 + Len(u)]
    BY <1>1, <1>2, <2>2 DEF AlikeInMode
  <2>4. 1 + Len(u) = Len(v) - 1 /\ 0 + Len(u) = n + 1
    BY <1>1, <1>2
  <2>5. QED
    BY <1>3, <2>3, <2>4
<1>8. ~ TakesLocks(t) => Runs(Statement(w, v))
  <2>1. IsQuery(u) /\ (~ TakesLocks(t) => ~ TakesLocks(u))
    BY <1>1, <1>6, QueryShape
  <2>2. Statement(w, v).wrapper = w /\ Statement(w, v).text = v
    BY DEF Statement
  <2>3. Runs(Statement(w, v)) <=> /\ IsQuery(Inner(v)) /\ ~ TakesLocks(Inner(v))
                                  /\ OracleModes(v)[Len(v) - 1] = "code"
    BY <2>2 DEF Runs
  <2>4. QED
    BY <1>7, <2>1, <2>3 DEF u
<1>9. \A x : Has(t, x) <=> Has(u, x)
  <2>1. \A i \in Tops(t) : i <= n
    BY <1>2, SeesPositions, TopPositions DEF n
  <2>2. QED
    BY <1>6, <2>1 DEF Has
<1>10. QED
  BY <1>8, <1>9, RowsByClauses DEF u, v

\* Outside brackets a query has its clauses, which the planner finds.
LEMMA Tokens ==
  ASSUME NEW q \in Texts, Shape(q), ~ NestsComments(q)
  PROVE  /\ \A i \in Tops(q) : q[i] \in Clauses /\ i \in Sees(q) /\ i \in 1 .. Len(q)
         /\ Seen(q) = Sees(q)
         /\ TopTokens(q) = Tops(q)
<1>1. Seen(q) = Sees(q)
  BY PlannerScan DEF Seen, Sees
<1>2. \A i \in Tops(q) : q[i] \in Clauses /\ i \in Sees(q) /\ i \in 1 .. Len(q)
  BY TopPositions, SeesPositions DEF Shape
<1>3. TopTokens(q) = {i \in Tops(q) : q[i] \in Words \cup {"semicolon"}}
  BY <1>1 DEF TopTokens, Tops
<1>4. Clauses \subseteq Words
  BY DEF Words
<1>5. TopTokens(q) = Tops(q)
  BY <1>2, <1>3, <1>4
<1>6. QED
  BY <1>1, <1>2, <1>5

LEMMA Ranks ==
  /\ Rank["limit"] = 4 /\ Rank["rownum"] = 4 /\ Rank["select"] = 1 /\ Rank["fetch"] = 6
  /\ \A t \in Orders : Rank[t] = 5
BY DEF Rank, Clauses, Sources, Orders

\* What ends a query.
LEMMA LastWord ==
  ASSUME NEW q \in Texts, Shape(q)
  PROVE  \E k \in Tops(q) : /\ \A i \in Tops(q) : i <= k
                            /\ EndsInClause(q) <=> q[k] \in Dangling
<1>1. Tops(q) \in SUBSET (1 .. Len(q)) /\ Len(q) \in Nat /\ Tops(q) # {}
  BY Lengths, TopPositions, SeesPositions DEF Shape, BeginsQuery
<1>2. {i \in Tops(q) : q[i] \in Words} = Tops(q)
  BY TopPositions DEF Shape, Words
<1>3. EndsInClause(q) <=> q[Max(Tops(q))] \in Dangling
  BY <1>1, <1>2 DEF EndsInClause, Tops, Sees
<1>4. Max(Tops(q)) \in Tops(q) /\ \A i \in Tops(q) : i <= Max(Tops(q))
  BY <1>1, FirstAndLast
<1>5. QED
  BY <1>3, <1>4

\* Without its last ORDER BY outside brackets a query is one, with the same rows
\* when no row limit came after it.
LEMMA OrderOut ==
  ASSUME NEW q \in Texts, Shape(q), ~ NestsComments(q)
  PROVE  /\ WithoutOrder(q) \in Texts /\ Shape(WithoutOrder(q))
         /\ TakesLocks(WithoutOrder(q)) => TakesLocks(q)
         /\ ~ CutsLimit(q) => \A n : RowsOf(WithoutOrder(q), n) = RowsOf(q, n)
<1> DEFINE is == OrderPositions(q)
           k  == Max(is)
           w  == SubSeq(q, 1, k - 1)
<1>1. /\ \A i \in Tops(q) : i \in Sees(q) /\ i \in 1 .. Len(q)
      /\ TopTokens(q) = Tops(q)
  BY Tokens
<1>2. is = {i \in Tops(q) : q[i] \in Orders}
  BY <1>1 DEF OrderPositions
<1>3. CASE is = {}
  BY <1>3 DEF WithoutOrder
<1>4. CASE is # {}
  <2>1. Len(q) \in Nat /\ is \in SUBSET (1 .. Len(q))
    BY <1>1, <1>2, Lengths
  <2>2. k \in is /\ \A i \in is : i <= k
    <3> HIDE DEF is
    <3>1. QED
      BY <1>4, <2>1, FirstAndLast
  <2>3. WithoutOrder(q) = w
    BY <1>4 DEF WithoutOrder
  <2>4. k \in Tops(q) /\ q[k] \in Orders /\ k \in Sees(q) /\ k \in 1 .. Len(q)
    BY <1>1, <1>2, <2>2
  <2> HIDE DEF is, k
  <2>5. w \in Texts /\ Len(w) = k - 1 /\ \A i \in 1 .. k - 1 : w[i] = q[i]
    <3>1. w \in Seq(Lexemes) /\ Len(w) = k - 1 /\ \A i \in 1 .. k - 1 : w[i] = q[1 + i - 1]
      BY <2>1, <2>4 DEF Texts
    <3>2. \A i \in 1 .. k - 1 : 1 + i - 1 = i
      BY <2>4
    <3>3. QED
      BY <3>1, <3>2 DEF Texts
  <2> HIDE DEF w
  <2>6. k - 1 \in Nat /\ Agree(q, w, k - 1)
    BY <2>1, <2>4, <2>5 DEF Agree
  <2>7. PICK s : BeginsQuery(q, s)
    BY DEF Shape
  <2>8. s \in 1 .. k - 1
    <3>1. s <= k /\ s \in 1 .. Len(q) /\ q[s] = "select"
      BY <1>1, <2>4, <2>7 DEF BeginsQuery
    <3>2. s # k
      BY <2>4, <3>1 DEF Orders
    <3>3. QED
      BY <2>1, <2>4, <3>1, <3>2
  <2>9. Level(q, k - 1) = 0
    <3>1. Depth(q, Sees(q))[k] = 0
      BY <2>4, TopPositions
    <3>2. Depth(q, Sees(q))[k] = DepthStep(Depth(q, Sees(q))[k - 1], q, Sees(q), k)
      BY <2>4, DepthScan
    <3>3. Depth(q, Sees(q))[k - 1] = 0
      BY <2>4, <3>1, <3>2 DEF DepthStep, Orders
    <3>4. k - 1 \in 0 .. Len(q)
      BY <2>1, <2>4
    <3>5. QED
      BY <3>3, <3>4, DepthIsLevel DEF Shape
  <2>10. OracleModes(w)[Len(w)] \in {"code", "line"}
    <3>1. OracleModes(q)[k - 1] = "code"
      BY <2>4, SeesPositions
    <3>2. OracleModes(w)[k - 1] = OracleModes(q)[k - 1]
      BY <2>5, <2>6, SameBeginning
    <3>3. QED
      BY <2>5, <3>1, <3>2
  <2>11. \A i \in Sees(w) : i <= k - 1
    BY <2>5, SeesPositions
  <2>12. /\ Shape(w)
         /\ \A i : i \in Tops(w) <=> i \in Tops(q) /\ i <= k - 1
         /\ \A i \in Tops(w) : w[i] = q[i]
         /\ TakesLocks(w) => TakesLocks(q)
    BY <2>5, <2>6, <2>7, <2>8, <2>9, <2>10, <2>11, QueryPart
  <2>13. ASSUME ~ CutsLimit(q), NEW x \in {"fetch", "limit", "rownum"}, Has(q, x)
         PROVE  Has(w, x)
    <3>1. PICK i \in Tops(q) : q[i] = x
      BY <2>13 DEF Has
    <3>2. i \in 1 .. Len(q) /\ i # k
      BY <1>1, <2>4, <3>1 DEF Orders
    <3>3. ~ (k < i)
      <4>1. CASE x = "fetch"
        <5>1. k \in OrderPositions(q) /\ i \in TopTokens(q)
          BY <1>1, <2>2, <3>1 DEF is
        <5>2. QED
          BY <2>13, <3>1, <4>1, <5>1 DEF CutsLimit
      <4>2. CASE x \in {"limit", "rownum"}
        <5>1. Rank[q[i]] = 4 /\ Rank[q[k]] = 5
          BY <2>4, <3>1, <4>2, Ranks
        <5>2. k < i => Rank[q[k]] < Rank[q[i]]
          BY <2>4, <3>1 DEF Shape
        <5>3. QED
          BY <5>1, <5>2
      <4>3. QED
        BY <4>1, <4>2
    <3>4. i <= k - 1
      BY <2>4, <3>2, <3>3
    <3>5. QED
      BY <2>12, <3>1, <3>4 DEF Has
  <2>14. \A x : Has(w, x) => Has(q, x)
    BY <2>12 DEF Has
  <2>15. ~ CutsLimit(q) => \A n : RowsOf(w, n) = RowsOf(q, n)
    BY <2>13, <2>14, RowsByClauses
  <2>16. QED
    BY <2>3, <2>5, <2>12, <2>15
<1>5. QED
  BY <1>3, <1>4

\* The query that is meant by a text.
LEMMA IntendedQuery ==
  ASSUME NEW t \in Texts, IsQuery(Intended(t)), ~ NestsComments(t)
  PROVE  /\ Intended(t) \in Texts /\ Shape(Intended(t)) /\ ~ NestsComments(Intended(t))
         /\ Trimmed(t) = Intended(t)
         /\ Modes(t)[Len(t)] \in {"code", "line"}
         /\ \A i \in 1 .. Len(Intended(t)) : \E j \in 1 .. Len(t) : t[j] = Intended(t)[i]
<1> DEFINE q == Intended(t)
<1>1. Modes(t) = OracleModes(t)
  BY PlannerScan
<1>2. Trimmed(t) = q
  BY <1>1 DEF Trimmed, Intended, Seen
<1> HIDE DEF q
<1>3. CASE q = t /\ \A k : ~ Ends(t, k)
  <2>1. Shape(t)
    BY <1>3, QueryShape DEF q
  <2>2. QED
    BY <1>1, <1>2, <1>3, <2>1 DEF Shape, q
<1>4. ASSUME NEW k, Ends(t, k), IsWithout(q, t, k)
      PROVE  /\ q \in Texts /\ Shape(q) /\ ~ NestsComments(q)
             /\ Modes(t)[Len(t)] \in {"code", "line"}
             /\ \A i \in 1 .. Len(q) : \E j \in 1 .. Len(t) : t[j] = q[i]
  <2>1. q \in Texts /\ Len(q) = Len(t) - 1 /\ Len(t) \in Nat /\ k \in 1 .. Len(t)
    BY <1>4, Lengths, SeesPositions DEF IsWithout, Ends
  <2>2. Shape(q)
    BY <2>1, QueryShape DEF q
  <2>3. /\ \A i \in k - 1 .. Len(q) : OracleModes(q)[i] = OracleModes(t)[i + 1]
        /\ NestsComments(q) => NestsComments(t)
    BY <1>4, SemicolonOut DEF Ends
  <2>4. OracleModes(q)[Len(q)] = OracleModes(t)[Len(t)]
    <3>1. Len(q) \in k - 1 .. Len(q) /\ Len(q) + 1 = Len(t)
      BY <2>1
    <3>2. QED
      BY <2>3, <3>1
  <2>5. ASSUME NEW i \in 1 .. Len(q)
        PROVE  \E j \in 1 .. Len(t) : t[j] = q[i]
    <3>1. CASE i < k
      <4>1. i \in 1 .. k - 1 /\ i \in 1 .. Len(t)
        BY <2>1, <3>1
      <4>2. QED
        BY <1>4, <4>1 DEF IsWithout
    <3>2. CASE ~ (i < k)
      <4>1. i \in k .. Len(q) /\ i + 1 \in 1 .. Len(t)
        BY <2>1, <3>2
      <4>2. QED
        BY <1>4, <4>1 DEF IsWithout
    <3>3. QED
      BY <3>1, <3>2
  <2>6. QED
    BY <1>1, <2>1, <2>2, <2>3, <2>4, <2>5 DEF Shape
<1>5. QED
  BY <1>2, <1>3, <1>4, IntendedText DEF q

LEMMA QueriesAccepted ==
  ASSUME NEW t \in Texts, IsQuery(Intended(t)), ~ NestsComments(t)
  PROVE  /\ Accepts(t) <=> ~ EndsInClause(Intended(t))
         /\ Accepts(t) /\ ~ TakesLocks(Intended(t)) => Runs(CountQuery(t))
<1> DEFINE q == Intended(t)
<1>1. /\ q \in Texts /\ Shape(q) /\ ~ NestsComments(q) /\ Trimmed(t) = q
      /\ Modes(t)[Len(t)] \in {"code", "line"}
  BY IntendedQuery
<1> HIDE DEF q
<1>2. /\ \A i \in Tops(q) : q[i] \in Clauses /\ i \in Sees(q) /\ i \in 1 .. Len(q)
      /\ TopTokens(q) = Tops(q)
  BY <1>1, Tokens
<1>3. PICK s : BeginsQuery(q, s)
  BY <1>1 DEF Shape
<1>4. Tops(q) \in SUBSET (1 .. Len(q)) /\ Len(q) \in Nat /\ Tops(q) # {}
  BY <1>1, <1>2, <1>3, Lengths DEF BeginsQuery
<1>5. /\ Min(Tops(q)) \in Tops(q) /\ \A i \in Tops(q) : Min(Tops(q)) <= i
      /\ Max(Tops(q)) \in Tops(q) /\ \A i \in Tops(q) : i <= Max(Tops(q))
  BY <1>4, FirstAndLast
<1>6. Min(Tops(q)) = s
  <2>1. s \in Tops(q) /\ \A i \in Tops(q) : s <= i
    BY <1>2, <1>3 DEF BeginsQuery
  <2>2. QED
    BY <1>4, <1>5, <2>1
<1>7. Accepts(t) <=> ~ EndsInClause(q)
  <2>1. q[Min(Tops(q))] = "select"
    BY <1>3, <1>6 DEF BeginsQuery
  <2>2. \A i \in Tops(q) : q[i] # "semicolon"
    BY <1>2 DEF Clauses, Sources, Orders
  <2>3. Accepts(t) <=> q[Max(Tops(q))] \notin Dangling
    BY <1>1, <1>2, <1>4, <2>1, <2>2 DEF Accepts
  <2>4. PICK k \in Tops(q) : /\ \A i \in Tops(q) : i <= k
                             /\ EndsInClause(q) <=> q[k] \in Dangling
    BY <1>1, LastWord
  <2>5. k = Max(Tops(q))
    BY <1>4, <1>5, <2>4
  <2>6. QED
    BY <2>3, <2>4, <2>5
<1>8. ASSUME Accepts(t), ~ TakesLocks(q)
      PROVE  Runs(CountQuery(t))
  <2>1. CountQuery(t) = Statement("count", InBrackets(WithoutOrder(q)))
    BY <1>1, <1>8 DEF CountQuery
  <2>2. /\ WithoutOrder(q) \in Texts /\ Shape(WithoutOrder(q))
        /\ ~ TakesLocks(WithoutOrder(q))
    BY <1>1, <1>8, OrderOut
  <2>3. QED
    BY <2>1, <2>2, RunsInBrackets
<1>9. QED
  BY <1>7, <1>8 DEF q

LEMMA CountsRows ==
  ASSUME NEW t \in Texts, IsQuery(Intended(t)), ~ NestsComments(t), ~ CutsLimit(Intended(t)),
         Accepts(t), NEW n
  PROVE  Value(CountQuery(t), n) = RowsOf(Intended(t), n)
<1> DEFINE q == Intended(t)
           w == WithoutOrder(q)
<1>1. q \in Texts /\ Shape(q) /\ ~ NestsComments(q) /\ Trimmed(t) = q
  BY IntendedQuery
<1>2. w \in Texts /\ Shape(w) /\ RowsOf(w, n) = RowsOf(q, n)
  BY <1>1, OrderOut
<1>3. CountQuery(t) = Statement("count", InBrackets(w))
  BY <1>1 DEF CountQuery
<1> HIDE DEF w
<1>4. RowsOf(Inner(InBrackets(w)), n) = RowsOf(w, n)
  BY <1>2, RunsInBrackets
<1>5. QED
  BY <1>2, <1>3, <1>4 DEF Value, Statement

\* The query of a table alone.
LEMMA TableQuery == Accepts(<<"select">>)
<1> DEFINE t == <<"select">>
<1>1. t \in Texts /\ Len(t) = 1 /\ t[1] = "select"
  BY DEF Texts, Lexemes, Words, Clauses, Sources
<1> HIDE DEF t
<1>2. OracleModes(t)[0] = "code" /\ OracleModes(t)[1] = "code"
  <2>1. 1 \in 1 .. Len(t) /\ 1 - 1 = 0
    BY <1>1
  <2>2. OracleModes(t)[0] = "code" /\ OracleModes(t)[1] = OracleStep(OracleModes(t)[0], t[1])
    BY <1>1, <2>1, OracleScan
  <2>3. QED
    BY <1>1, <2>2 DEF OracleStep, Opens
<1>3. ~ NestsComments(t)
  BY <1>1 DEF NestsComments
<1>4. Sees(t) = {1}
  <2>1. 1 \in 1 .. Len(t) /\ 1 - 1 = 0 /\ "select" \notin Hidden
    BY <1>1 DEF Hidden, Quotes
  <2>2. 1 \in Sees(t) /\ Sees(t) \in SUBSET (1 .. 1)
    BY <1>1, <1>2, <2>1, SeesPositions
  <2>3. QED
    BY <2>2
<1>5. \A i \in Nat : Level(t, i) = 0
  <2>1. \A i \in Nat, x \in {"(", ")"} : Brackets(t, i, x) = {}
    BY <1>1, <1>4 DEF Brackets
  <2>2. \A i \in Nat, x \in {"(", ")"} : Cardinality(Brackets(t, i, x)) = 0
    BY <2>1, FS_EmptySet
  <2>3. QED
    BY <2>2 DEF Level
<1>6. Tops(t) = {1}
  <2>1. \A i \in 1 .. Len(t) : Level(t, i) >= 0
    BY <1>5
  <2>2. 1 \in 0 .. Len(t) /\ Depth(t, Sees(t))[1] = 0
    BY <1>1, <1>5, <2>1, DepthIsLevel
  <2>3. \A i : i \in Tops(t) <=> i = 1
    BY <1>1, <1>4, <2>2, TopPositions
  <2>4. QED
    BY <2>3
<1>7. Shape(t)
  <2>1. BeginsQuery(t, 1)
    BY <1>1, <1>4, <1>6 DEF BeginsQuery
  <2>2. Level(t, Len(t)) = 0 /\ \A i \in 1 .. Len(t) : Level(t, i) >= 0
    BY <1>1, <1>5
  <2>3. \A i \in Sees(t) : t[i] \in Clauses \cup {"(", ")"}
    BY <1>1, <1>4 DEF Clauses, Sources
  <2>4. QED
    BY <1>1, <1>2, <1>4, <1>6, <2>1, <2>2, <2>3 DEF Shape
<1>8. Intended(t) = t
  <2>1. \A k : ~ Ends(t, k)
    BY <1>1, <1>4 DEF Ends
  <2>2. QED
    BY <1>1, <2>1, IntendedText
<1>9. ~ EndsInClause(t)
  <2>1. PICK k \in Tops(t) : EndsInClause(t) <=> t[k] \in Dangling
    BY <1>1, <1>7, LastWord
  <2>2. QED
    BY <1>1, <1>6, <2>1 DEF Dangling
<1>10. QED
  BY <1>1, <1>3, <1>7, <1>8, <1>9, QueryShape, QueriesAccepted DEF t

\* To a query of the table alone, a limit of its own is appended.
LEMMA LimitAppended ==
  ASSUME NEW q \in Texts, Shape(q), ~ NestsComments(q), Simple(q),
         NEW u, u = q \o <<"nl", "limit">>
  PROVE  /\ u \in Texts /\ Shape(u)
         /\ \A x : Has(u, x) <=> x \in {"select", "limit"}
<1> DEFINE n == Len(q)
           b == <<"nl", "limit">>
<1>1. n \in Nat
  BY Lengths
<1>2. b \in Texts /\ Len(b) = 2 /\ b[1] = "nl" /\ b[2] = "limit"
  BY DEF Texts, Lexemes, Hidden, Words, Clauses, Sources, Orders
<1> HIDE DEF b
<1>3. /\ u \in Texts /\ Len(u) = n + 2
      /\ \A i \in 1 .. n : u[i] = q[i]
      /\ u[n + 1] = "nl" /\ u[n + 2] = "limit"
  <2> DEFINE w == q \o b
  <2>1. q \in Seq(Lexemes) /\ b \in Seq(Lexemes)
    BY <1>2 DEF Texts
  <2>2. /\ w \in Seq(Lexemes) /\ Len(w) = n + Len(b)
        /\ \A i \in 1 .. n + Len(b) : w[i] = IF i <= n THEN q[i] ELSE b[i - n]
    BY <2>1, ConcatProperties
  <2>3. u = w
    BY DEF b
  <2> HIDE DEF w, n
  <2>4. /\ n + 1 \in 1 .. n + 2 /\ ~ (n + 1 <= n) /\ (n + 1) - n = 1
        /\ n + 2 \in 1 .. n + 2 /\ ~ (n + 2 <= n) /\ (n + 2) - n = 2
        /\ \A i \in 1 .. n : i \in 1 .. n + 2 /\ i <= n
    BY <1>1
  <2>5. QED
    BY <1>1, <1>2, <2>2, <2>3, <2>4 DEF Texts
<1>4. PICK s \in 1 .. n : Sees(q) = {s} /\ q[s] = "select"
  BY SeesPositions, Tokens DEF Simple
<1>5. Agree(q, u, n)
  BY <1>1, <1>3 DEF Agree
<1> DEFINE O == OracleModes(u)
<1>6. O[n] \in {"code", "line"} /\ \A i \in 1 .. n : i \in Sees(u) <=> i = s
  <2>1. OracleModes(q)[n] = O[n] /\ \A i \in 1 .. n : i \in Sees(u) <=> i \in Sees(q)
    BY <1>1, <1>3, <1>5, SameBeginning
  <2>2. QED
    BY <1>4, <2>1 DEF Shape
<1>7. O[n + 1] = "code" /\ O[n + 2] = "code"
  <2>1. O[n + 1] = OracleStep(O[n], "nl")
    <3>1. n + 1 \in 1 .. Len(u) /\ (n + 1) - 1 = n
      BY <1>1, <1>3
    <3>2. QED
      BY <1>3, <3>1, OracleScan
  <2>2. O[n + 2] = OracleStep(O[n + 1], "limit")
    <3>1. n + 2 \in 1 .. Len(u) /\ (n + 2) - 1 = n + 1
      BY <1>1, <1>3
    <3>2. QED
      BY <1>3, <3>1, OracleScan
  <2>3. O[n + 1] = "code"
    BY <1>6, <2>1 DEF OracleStep, Opens, Closes
  <2>4. QED
    BY <2>2, <2>3 DEF OracleStep, Opens
<1>8. Sees(u) = {s, n + 2}
  <2>1. n + 1 \notin Sees(u)
    <3>1. "nl" \in Hidden /\ n + 1 \in 1 .. Len(u)
      BY <1>1, <1>3 DEF Hidden
    <3>2. QED
      BY <1>3, <3>1, SeesPositions
  <2>2. n + 2 \in Sees(u)
    <3>1. "limit" \notin Hidden /\ n + 2 \in 1 .. Len(u) /\ (n + 2) - 1 = n + 1
      BY <1>1, <1>3 DEF Hidden, Quotes
    <3>2. QED
      BY <1>3, <1>7, <3>1, SeesPositions
  <2>3. \A i \in Sees(u) : i \in 1 .. n \/ i = n + 1 \/ i = n + 2
    <3>1. Sees(u) \in SUBSET (1 .. Len(u)) /\ Len(u) = n + 2
      BY <1>3, SeesPositions
    <3> HIDE DEF n
    <3>2. QED
      BY <1>1, <3>1
  <2>4. QED
    BY <1>4, <1>6, <2>1, <2>2, <2>3
<1>9. u[s] = "select" /\ u[n + 2] = "limit" /\ s < n + 2
  BY <1>1, <1>3, <1>4
<1> HIDE DEF n
<1>10. \A i \in Nat : Level(u, i) = 0
  <2>1. ASSUME NEW i \in Nat, NEW x \in {"(", ")"}
        PROVE  Brackets(u, i, x) = {}
    BY <1>8, <1>9 DEF Brackets
  <2>2. \A i \in Nat, x \in {"(", ")"} : Cardinality(Brackets(u, i, x)) = 0
    BY <2>1, FS_EmptySet
  <2>3. QED
    BY <2>2 DEF Level
<1>11. Tops(u) = {s, n + 2}
  <2>1. \A i \in 1 .. Len(u) : Level(u, i) >= 0
    BY <1>10
  <2>2. \A i \in 0 .. Len(u) : Depth(u, Sees(u))[i] = 0
    <3>1. \A i \in 0 .. Len(u) : Depth(u, Sees(u))[i] = Level(u, i)
      BY <1>3, <2>1, DepthIsLevel
    <3>2. QED
      BY <1>10, <3>1
  <2>3. s \in 0 .. Len(u) /\ n + 2 \in 0 .. Len(u)
    BY <1>1, <1>3, <1>4
  <2>4. \A i : i \in Tops(u) <=> i \in {s, n + 2}
    BY <1>3, <1>8, <1>9, <2>2, <2>3, TopPositions
  <2>5. QED
    BY <2>4
<1>12. Shape(u)
  <2>1. O[Len(u)] \in {"code", "line"}
    BY <1>3, <1>7
  <2>2. \A i \in Sees(u) : u[i] \in Clauses \cup {"(", ")"}
    BY <1>8, <1>9 DEF Clauses, Sources
  <2>3. Level(u, Len(u)) = 0 /\ \A i \in 1 .. Len(u) : Level(u, i) >= 0
    BY <1>1, <1>3, <1>10
  <2>4. BeginsQuery(u, s)
    <3>1. s \in Nat /\ s <= n + 2
      BY <1>1, <1>4
    <3>2. \A j \in Sees(u) : s <= j
      BY <1>8, <3>1
    <3>3. s \in Tops(u)
      BY <1>11
    <3>4. QED
      BY <1>9, <3>2, <3>3 DEF BeginsQuery
  <2>5. \A i, j \in Tops(u) : i < j => Rank[u[i]] < Rank[u[j]]
    <3>1. ASSUME NEW i \in Tops(u), NEW j \in Tops(u), i < j
          PROVE  Rank[u[i]] < Rank[u[j]]
      <4>1. i = s /\ j = n + 2
        BY <1>1, <1>4, <1>9, <1>11, <3>1
      <4>2. Rank[u[i]] = 1 /\ Rank[u[j]] = 4
        BY <1>9, <4>1, Ranks
      <4>3. QED
        BY <4>2
    <3>2. QED
      BY <3>1
  <2>6. \A i \in Sees(u) : u[i] # "lock"
    BY <1>8, <1>9
  <2>7. QED
    BY <2>1, <2>2, <2>3, <2>4, <2>5, <2>6 DEF Shape
<1>13. \A x : Has(u, x) <=> x \in {"select", "limit"}
  BY <1>9, <1>11 DEF Has
<1>14. QED
  BY <1>3, <1>12, <1>13

\* The rows of a query by its limits.
LEMMA RowsOfLimits ==
  ASSUME NEW t, NEW n \in Nat
  PROVE  /\ RowsOf(t, n) \in Nat
         /\ ~ Has(t, "fetch") /\ ~ Has(t, "rownum") /\ ~ Has(t, "limit") => RowsOf(t, n) = n
         /\ ~ Has(t, "fetch") /\ ~ Has(t, "rownum") /\ Has(t, "limit") =>
              RowsOf(t, n) = Least(MaxRows, n)
<1> DEFINE numbered == IF Has(t, "rownum") /\ RowNum < n THEN RowNum ELSE n
           limited  == IF Has(t, "limit") /\ MaxRows < numbered THEN MaxRows ELSE numbered
<1>1. RowsOf(t, n) = IF Has(t, "fetch") /\ First < limited THEN First ELSE limited
  BY DEF RowsOf, Has, Tops, Sees
<1>2. MaxRows \in Nat /\ RowNum \in Nat /\ First \in Nat
  BY LimitsAssumption
<1>3. numbered \in Nat
  BY <1>2
<1>4. limited \in Nat
  <2> HIDE DEF numbered
  <2>1. QED
    BY <1>2, <1>3
<1>5. ~ Has(t, "rownum") => numbered = n
  OBVIOUS
<1> HIDE DEF numbered
<1>6. ~ Has(t, "limit") => limited = numbered
  OBVIOUS
<1>7. Has(t, "limit") => limited = Least(MaxRows, numbered)
  BY <1>2, <1>3 DEF Least
<1> HIDE DEF limited
<1>8. QED
  BY <1>1, <1>2, <1>4, <1>5, <1>6, <1>7

\* The limit of a query that has none is the least of two numbers.
LEMMA OneLimit ==
  ASSUME NEW m \in Nat, NEW n \in Nat
  PROVE  /\ (IF m < n THEN m ELSE n) = Least(m, n)
         /\ Least(m, Least(m, n)) = Least(m, n)
BY DEF Least

LEMMA LimitsRows ==
  ASSUME NEW t \in Texts, IsQuery(Intended(t)), ~ NestsComments(t),
         NEW q, q = Intended(t), NEW made, made = LimitQuery(t)
  PROVE  /\ made = Refusal <=> EndsInClause(q)
         /\ made # Refusal /\ ~ TakesLocks(q) => Runs(made)
         /\ Runs(made) => \A n \in Nat :
              Value(made, n) = IF Has(q, "rownum") \/ Has(q, "fetch") THEN RowsOf(q, n)
                               ELSE Least(MaxRows, RowsOf(q, n))
<1>1. q \in Texts /\ Shape(q) /\ ~ NestsComments(q) /\ Trimmed(t) = q
  BY IntendedQuery
<1>2. TopTokens(q) = Tops(q) /\ MaxRows \in Nat
  BY <1>1, Tokens, LimitsAssumption
<1>3. Accepts(t) <=> ~ EndsInClause(q)
  BY QueriesAccepted
<1>4. Limited(q) <=> Has(q, "limit") \/ Has(q, "rownum") \/ Has(q, "fetch")
  BY <1>2 DEF Limited, Has
<1>5. ASSUME NEW w \in {"none", "limit"}, NEW u
      PROVE  Statement(w, u) # Refusal
  <2>1. Statement(w, u).wrapper = w /\ Refusal.wrapper = "refused"
    BY DEF Statement, Refusal
  <2>2. QED
    BY <2>1
<1>6. CASE ~ Accepts(t)
  <2>1. made = Refusal
    BY <1>6 DEF LimitQuery
  <2>2. ~ Runs(Refusal)
    BY DEF Runs, Refusal, Statement
  <2>3. QED
    BY <1>3, <1>6, <2>1, <2>2
<1>7. CASE Accepts(t) /\ Limited(q)
  <2>1. made = Statement("none", q)
    BY <1>1, <1>7 DEF LimitQuery
  <2>2. made # Refusal
    BY <1>5, <2>1
  <2>3. Runs(made)
    BY <1>1, <2>1, QueryShape DEF Runs, Statement
  <2>4. ASSUME NEW n \in Nat
        PROVE  Value(made, n) = IF Has(q, "rownum") \/ Has(q, "fetch") THEN RowsOf(q, n)
                                ELSE Least(MaxRows, RowsOf(q, n))
    <3>1. Value(made, n) = RowsOf(q, n)
      BY <2>1 DEF Value, Statement
    <3>2. CASE Has(q, "rownum") \/ Has(q, "fetch")
      BY <3>1, <3>2
    <3>3. CASE ~ Has(q, "rownum") /\ ~ Has(q, "fetch")
      <4>1. RowsOf(q, n) = Least(MaxRows, n)
        BY <1>4, <1>7, <3>3, RowsOfLimits
      <4>2. QED
        BY <1>2, <3>1, <3>3, <4>1, OneLimit
    <3>4. QED
      BY <3>2, <3>3
  <2>5. QED
    BY <1>3, <1>7, <2>2, <2>3, <2>4
<1>8. CASE Accepts(t) /\ ~ Limited(q) /\ Simple(q)
  <2> DEFINE u == q \o <<"nl", "limit">>
  <2>1. made = Statement("none", u)
    BY <1>1, <1>8 DEF LimitQuery
  <2>2. u \in Texts /\ Shape(u) /\ \A x : Has(u, x) <=> x \in {"select", "limit"}
    BY <1>1, <1>8, LimitAppended
  <2> HIDE DEF u
  <2>3. made # Refusal
    BY <1>5, <2>1
  <2>4. Runs(made)
    BY <2>1, <2>2, QueryShape DEF Runs, Statement
  <2>5. ASSUME NEW n \in Nat
        PROVE  Value(made, n) = Least(MaxRows, RowsOf(q, n))
    <3>1. RowsOf(q, n) = n
      BY <1>4, <1>8, RowsOfLimits
    <3>2. RowsOf(u, n) = Least(MaxRows, n)
      BY <2>2, RowsOfLimits
    <3>3. QED
      BY <2>1, <3>1, <3>2 DEF Value, Statement
  <2>6. QED
    BY <1>3, <1>4, <1>8, <2>3, <2>4, <2>5
<1>9. CASE Accepts(t) /\ ~ Limited(q) /\ ~ Simple(q)
  <2>1. made = Statement("limit", InBrackets(q))
    BY <1>1, <1>9 DEF LimitQuery
  <2>2. /\ ~ TakesLocks(q) => Runs(made)
        /\ \A n : RowsOf(Inner(InBrackets(q)), n) = RowsOf(q, n)
    BY <1>1, <2>1, RunsInBrackets
  <2>3. made # Refusal
    BY <1>5, <2>1
  <2>4. ASSUME NEW n \in Nat
        PROVE  Value(made, n) = Least(MaxRows, RowsOf(q, n))
    <3>1. Value(made, n) = IF MaxRows < RowsOf(q, n) THEN MaxRows ELSE RowsOf(q, n)
      BY <2>1, <2>2 DEF Value, Statement
    <3>2. RowsOf(q, n) \in Nat
      BY RowsOfLimits
    <3>3. QED
      BY <1>2, <3>1, <3>2, OneLimit
  <2>5. QED
    BY <1>3, <1>4, <1>9, <2>2, <2>3, <2>4
<1>10. QED
  BY <1>6, <1>7, <1>8, <1>9
------------------------------------------------------------------------------
(***************************************************************************)
(* The scan for tables.                                                    *)
(***************************************************************************)
LEMMA ContextSteps ==
  ASSUME NEW m \in ModeNames, NEW t, NEW i
  PROVE  ContextStep(m, t, i) \in ModeNames
<1> DEFINE later(ts) == \E j \in i + 1 .. Len(t) : t[j] \in ts
<1>1. CASE m # "code"
  BY <1>1 DEF ContextStep, ModeNames
<1>2. CASE m = "code" /\ t[i] = "--"
  BY <1>2 DEF ContextStep, ModeNames
<1>3. CASE m = "code" /\ t[i] = "/*"
  BY <1>3 DEF ContextStep, ModeNames, Quotes
<1>4. CASE m = "code" /\ t[i] \notin {"--", "/*"}
  BY <1>4 DEF ContextStep, ModeNames
<1>5. QED
  BY <1>1, <1>2, <1>3, <1>4

\* What ContextModes computes.
LEMMA ContextScan ==
  ASSUME NEW t \in Texts
  PROVE  /\ ContextModes(t)[0] = "code"
         /\ \A i \in 1 .. Len(t) : ContextModes(t)[i] = ContextStep(ContextModes(t)[i - 1], t, i)
<1> DEFINE n == Len(t)
           step == [i \in Nat |-> [m \in ModeNames |-> ContextStep(m, t, i)]]
           Rule(g) == [i \in 0 .. n |-> IF i = 0 THEN "code" ELSE ContextStep(g[i - 1], t, i)]
           mode == CHOOSE g : g = Rule(g)
<1>1. n \in Nat
  BY Lengths
<1>2. ContextModes(t) = mode
  BY DEF ContextModes
<1>3. PICK f : Follows(f, step, "code", ModeNames, n)
  <2>1. "code" \in ModeNames /\ StaysIn(step, ModeNames)
    BY ContextSteps DEF StaysIn, ModeNames
  <2> HIDE DEF step
  <2>2. QED
    BY <1>1, <2>1, Iterated
<1>4. f = Rule(f)
  <2>1. ASSUME NEW i \in 1 .. n
        PROVE  f[i] = ContextStep(f[i - 1], t, i)
    <3>1. f[i - 1] \in ModeNames /\ f[i] = step[i][f[i - 1]]
      <4> HIDE DEF step
      <4>1. QED
        BY <1>1, <1>3 DEF Follows
    <3>2. QED
      BY <3>1
  <2>2. QED
    BY <1>1, <1>3, <2>1 DEF Follows
<1>5. mode = Rule(mode)
  <2> HIDE DEF Rule
  <2>1. QED
    BY <1>4
<1> HIDE DEF mode
<1>6. mode[0] = "code" /\ \A i \in 1 .. n : mode[i] = ContextStep(mode[i - 1], t, i)
  BY <1>1, <1>5
<1>7. QED
  BY <1>2, <1>6

\* The scan is in Oracle's mode; or Oracle is in one that nothing ends.
AsOracle(t, i) ==
  ContextModes(t)[i] = IF OracleModes(t)[i] = "qliteral" THEN "literal" ELSE OracleModes(t)[i]

Unended(t, i) ==
  /\ OracleModes(t)[i] \in {"block", "literal", "qliteral"}
  /\ \A j \in i + 1 .. Len(t) : ~ Closes(OracleModes(t)[i], t[j])

LEMMA UnendedStep ==
  ASSUME NEW t \in Texts, NEW i \in 1 .. Len(t), Unended(t, i - 1)
  PROVE  Unended(t, i)
<1>1. Len(t) \in Nat /\ i \in (i - 1) + 1 .. Len(t)
  BY Lengths
<1>2. ~ Closes(OracleModes(t)[i - 1], t[i])
  BY <1>1 DEF Unended
<1>3. OracleModes(t)[i] = OracleModes(t)[i - 1]
  BY <1>2, OracleScan DEF OracleStep, Unended
<1>4. \A j \in i + 1 .. Len(t) : j \in (i - 1) + 1 .. Len(t)
  BY <1>1
<1>5. QED
  BY <1>3, <1>4 DEF Unended

LEMMA AsOracleStep ==
  ASSUME NEW t \in Texts, ~ QuotesInLiteral(t), NEW i \in 1 .. Len(t), AsOracle(t, i - 1)
  PROVE  AsOracle(t, i) \/ Unended(t, i)
<1> DEFINE O == OracleModes(t)
           C == ContextModes(t)
           x == t[i]
           later(ts) == \E j \in i + 1 .. Len(t) : t[j] \in ts
<1>1. /\ O[i] = OracleStep(O[i - 1], x) /\ O[i - 1] \in ModeNames
      /\ C[i] = ContextStep(C[i - 1], t, i)
  BY OracleScan, ContextScan, Lengths
<1>2. C[i - 1] = IF O[i - 1] = "qliteral" THEN "literal" ELSE O[i - 1]
  BY DEF AsOracle
<1>3. AsOracle(t, i) <=> C[i] = IF O[i] = "qliteral" THEN "literal" ELSE O[i]
  BY DEF AsOracle
<1>4. Unended(t, i) <=> /\ O[i] \in {"block", "literal", "qliteral"}
                        /\ \A j \in i + 1 .. Len(t) : ~ Closes(O[i], t[j])
  BY DEF Unended
<1>5. O[i - 1] = "qliteral" => x \notin Quotes \ {"]'"}
  BY Lengths DEF QuotesInLiteral
<1> HIDE DEF O, C
<1>6. CASE O[i - 1] \in {"line", "block", "literal"}
  BY <1>1, <1>2, <1>3, <1>6 DEF OracleStep, ContextStep
<1>7. CASE O[i - 1] = "qliteral"
  <2>1. C[i - 1] = "literal"
    BY <1>2, <1>7
  <2>2. C[i] = IF Closes("literal", x) THEN "code" ELSE "literal"
    BY <1>1, <2>1 DEF ContextStep
  <2>3. O[i] = IF Closes("qliteral", x) THEN "code" ELSE "qliteral"
    BY <1>1, <1>7 DEF OracleStep
  <2>4. Closes("literal", x) <=> Closes("qliteral", x)
    BY <1>5, <1>7 DEF Closes, Quotes
  <2>5. QED
    BY <1>3, <2>2, <2>3, <2>4
<1>8. CASE O[i - 1] = "code"
  <2>1. C[i - 1] = "code" /\ O[i] = Opens(x)
    BY <1>1, <1>2, <1>8 DEF OracleStep
  <2>2. CASE x = "--"
    <3>1. O[i] = "line"
      BY <2>1, <2>2 DEF Opens
    <3>2. C[i] = "line"
      BY <1>1, <2>1, <2>2 DEF ContextStep, Quotes
    <3>3. QED
      BY <1>3, <3>1, <3>2
  <2>3. CASE x = "/*"
    <3>1. O[i] = "block"
      BY <2>1, <2>3 DEF Opens
    <3>2. CASE later({"*/"})
      <4>1. C[i] = "block"
        BY <1>1, <2>1, <2>3, <3>2 DEF ContextStep, Quotes
      <4>2. QED
        BY <1>3, <3>1, <4>1
    <3>3. CASE ~ later({"*/"})
      BY <1>4, <3>1, <3>3 DEF Closes
    <3>4. QED
      BY <3>2, <3>3
  <2>4. CASE x \in Quotes \ {"''"}
    <3>1. O[i] \in {"literal", "qliteral"} /\ x \notin {"--", "/*"}
      BY <2>1, <2>4 DEF Opens, Quotes
    <3>2. CASE later(Quotes \ {"''"})
      <4>1. C[i] = "literal"
        BY <1>1, <2>1, <2>4, <3>1, <3>2 DEF ContextStep
      <4>2. QED
        BY <1>3, <3>1, <4>1
    <3>3. CASE ~ later(Quotes \ {"''"})
      <4>1. \A j \in i + 1 .. Len(t) : ~ Closes(O[i], t[j])
        BY <3>1, <3>3 DEF Closes, Quotes
      <4>2. QED
        BY <1>4, <3>1, <4>1
    <3>4. QED
      BY <3>2, <3>3
  <2>5. CASE x \notin {"--", "/*"} \cup (Quotes \ {"''"})
    <3>1. O[i] = "code"
      BY <2>1, <2>5 DEF Opens, Quotes
    <3>2. C[i] = "code"
      BY <1>1, <2>1, <2>5 DEF ContextStep
    <3>3. QED
      BY <1>3, <3>1, <3>2
  <2>6. QED
    BY <2>2, <2>3, <2>4, <2>5
<1>9. QED
  BY <1>1, <1>6, <1>7, <1>8 DEF ModeNames

\* The scan for tables finds what Oracle reads of the tables that it looks for, and
\* no more in a text that ends what it begins.
LEMMA TablesFound ==
  ASSUME NEW t \in Texts, ~ QuotesInLiteral(t)
  PROVE  /\ TablesOf(t) \ Unlooked \subseteq ReferencedTables(t)
         /\ OracleModes(t)[Len(t)] \in {"code", "line"} =>
              ReferencedTables(t) = TablesOf(t) \ Unlooked
<1> DEFINE n == Len(t)
           P == {i \in 0 .. n : AsOracle(t, i) \/ Unended(t, i)}
           L == {i \in 0 .. n : Unended(t, i) => Unended(t, n)}
<1>1. n \in Nat /\ DOMAIN t = 1 .. n
  BY Lengths
<1>2. \A i \in 0 .. n : AsOracle(t, i) \/ Unended(t, i)
  <2>1. 0 \in P
    BY <1>1, OracleScan, ContextScan DEF AsOracle
  <2>2. \A i \in 1 .. n : i - 1 \in P => i \in P
    BY AsOracleStep, UnendedStep
  <2> HIDE DEF P, n
  <2>3. \A i \in 0 .. n : i \in P
    BY <1>1, <2>1, <2>2, UpTo
  <2>4. QED
    BY <2>3 DEF P
<1>3. \A i \in 0 .. n : Unended(t, i) => Unended(t, n)
  <2>1. ASSUME NEW i \in 0 .. n, Unended(t, i)
        PROVE  Unended(t, n)
    <3> DEFINE R == {k \in 0 .. n : i <= k => Unended(t, k)}
    <3>1. 0 \in R
      BY <1>1, <2>1
    <3>2. ASSUME NEW k \in 1 .. n, k - 1 \in R
          PROVE  k \in R
      <4>1. CASE i <= k - 1
        <5>1. Unended(t, k - 1)
          BY <3>2, <4>1
        <5>2. QED
          BY <5>1, UnendedStep
      <4>2. CASE i = k
        BY <2>1, <4>2
      <4>3. CASE ~ (i <= k)
        BY <4>3
      <4>4. QED
        BY <1>1, <4>1, <4>2, <4>3
    <3> HIDE DEF R, n
    <3>3. \A k \in 0 .. n : k \in R
      BY <1>1, <3>1, <3>2, UpTo
    <3>4. QED
      BY <1>1, <3>3 DEF R
  <2>2. QED
    BY <2>1
<1>4. ASSUME NEW i \in 1 .. n
      PROVE  /\ OracleModes(t)[i - 1] = "code" => ContextModes(t)[i - 1] = "code"
             /\ ~ Unended(t, n) /\ ContextModes(t)[i - 1] = "code" => OracleModes(t)[i - 1] = "code"
  <2>1. i - 1 \in 0 .. n
    BY <1>1
  <2>2. OracleModes(t)[i - 1] = "code" => ~ Unended(t, i - 1)
    BY DEF Unended
  <2>3. ~ Unended(t, n) => ~ Unended(t, i - 1)
    BY <1>3, <2>1
  <2>4. QED
    BY <1>2, <2>1, <2>2, <2>3 DEF AsOracle
<1>5. TablesOf(t) \ Unlooked \subseteq ReferencedTables(t)
  BY <1>1, <1>4 DEF TablesOf, ReferencedTables, Visible, Sources, Unlooked
<1>6. ASSUME OracleModes(t)[n] \in {"code", "line"}
      PROVE  ReferencedTables(t) \subseteq TablesOf(t) \ Unlooked
  <2>1. ~ Unended(t, n)
    BY <1>6 DEF Unended
  <2>2. QED
    BY <1>1, <1>4, <2>1 DEF TablesOf, ReferencedTables, Visible, Sources, Unlooked
<1>7. QED
  BY <1>5, <1>6

LEMMA InsideText ==
  ASSUME NEW t \in Texts, NEW c \in Candidates(t)
  PROVE  Inside(t, c) \in Texts /\ c[1] \in 0 .. Len(t)
<1>1. Len(t) \in Nat /\ DOMAIN t = 1 .. Len(t)
  BY Lengths
<1>2. c[1] \in 0 .. Len(t) /\ c[2] \in 1 .. Len(t) + 1
  BY <1>1 DEF Candidates, Marks
<1>3. t \in Seq(Lexemes) /\ c[1] + 1 \in 1 .. Len(t) + 1 /\ c[2] - 1 \in 0 .. Len(t)
  BY <1>1, <1>2 DEF Texts
<1>4. SubSeq(t, c[1] + 1, c[2] - 1) \in Seq(Lexemes)
  BY <1>3
<1>5. QED
  BY <1>2, <1>4 DEF Texts, Inside

\* What is extracted from a text is one.
LEMMA ExtractedText ==
  ASSUME NEW t \in Texts
  PROVE  Extract(t) \in Texts
<1> DEFINE usable == {b \in Candidates(t) : Starts(Inside(t, b)) # {}}
           b     == CHOOSE c \in usable : \A d \in usable : c[1] <= d[1]
           block == Inside(t, b)
           sql   == SubSeq(block, Min(Starts(block)), Len(block))
<1>1. Len(t) \in Nat /\ DOMAIN t = 1 .. Len(t)
  BY Lengths
<1>2. \A c \in Candidates(t) : c[1] \in 0 .. Len(t) /\ Inside(t, c) \in Texts
  BY InsideText
<1>4. Extract(t) = IF usable = {} THEN <<>>
                   ELSE IF sql[Len(sql)] = "fence" THEN SubSeq(sql, 1, Len(sql) - 1) ELSE sql
  BY DEF Extract
<1>5. CASE usable = {}
  BY <1>4, <1>5 DEF Texts
<1>6. CASE usable # {}
  <2>1. \E c \in usable : \A d \in usable : c[1] <= d[1]
    <3> DEFINE begins == {c[1] + 1 : c \in usable}
    <3>1. begins \in SUBSET (1 .. Len(t) + 1) /\ begins # {} /\ Len(t) + 1 \in Nat
      BY <1>1, <1>2, <1>6
    <3>2. Min(begins) \in begins /\ \A i \in begins : Min(begins) <= i
      <4> HIDE DEF begins
      <4>1. QED
        BY <3>1, FirstAndLast
    <3>3. PICK c \in usable : c[1] + 1 = Min(begins)
      BY <3>2
    <3>4. \A d \in usable : c[1] + 1 <= d[1] + 1 /\ c[1] \in Nat /\ d[1] \in Nat
      BY <1>2, <3>2, <3>3
    <3>5. QED
      BY <3>4
  <2>2. b \in usable
    BY <2>1
  <2>3. block \in Texts /\ Starts(block) # {}
    BY <1>2, <2>2
  <2> HIDE DEF usable, b, block
  <2>4. Starts(block) \in SUBSET (1 .. Len(block)) /\ Len(block) \in Nat
    BY <2>3, Lengths DEF Starts
  <2>5. Min(Starts(block)) \in 1 .. Len(block)
    BY <2>3, <2>4, FirstAndLast
  <2>6. sql \in Seq(Lexemes) /\ Len(sql) \in Nat
    BY <2>3, <2>4, <2>5 DEF Texts
  <2> HIDE DEF sql
  <2>7. SubSeq(sql, 1, Len(sql) - 1) \in Seq(Lexemes)
    BY <2>6
  <2>8. QED
    BY <1>4, <1>6, <2>6, <2>7 DEF Texts
<1>7. QED
  BY <1>5, <1>6

\* After the semicolon of a query Oracle sees nothing.
LEMMA OneStatement ==
  ASSUME NEW t \in Texts, IsQuery(Intended(t))
  PROVE  ~ Several(t)
<1> DEFINE q == Intended(t)
<1>1. Masked(t) = Sees(t)
  BY DEF Masked, Sees
<1>2. "semicolon" \notin Clauses \cup {"(", ")"}
  BY DEF Clauses, Sources, Orders
<1> HIDE DEF q
<1>3. CASE q = t
  <2>1. Shape(t)
    BY <1>3, QueryShape DEF q
  <2>2. QED
    BY <1>1, <1>2, <2>1 DEF Several, Shape
<1>4. ASSUME NEW k, Ends(t, k), IsWithout(q, t, k)
      PROVE  ~ Several(t)
  <2>1. q \in Texts /\ k \in 1 .. Len(t) /\ Sees(t) \in SUBSET (1 .. Len(t)) /\ Len(t) \in Nat
    BY <1>4, Lengths, SeesPositions DEF IsWithout, Ends
  <2>2. Shape(q) /\ Sees(q) = Sees(t) \ {k}
    BY <1>4, <2>1, QueryShape, SemicolonOut DEF q, Ends
  <2>3. ASSUME NEW i \in Sees(t), NEW j \in Sees(t), t[i] = "semicolon", i < j
        PROVE  FALSE
    <3>1. j <= k /\ i \in 1 .. k - 1 /\ i # k
      BY <1>4, <2>1, <2>3 DEF Ends
    <3>2. i \in Sees(q) /\ q[i] = "semicolon"
      BY <1>4, <2>2, <2>3, <3>1 DEF IsWithout
    <3>3. QED
      BY <1>2, <2>2, <3>2 DEF Shape
  <2>4. QED
    BY <1>1, <2>3 DEF Several
<1>5. QED
  BY <1>3, <1>4, IntendedText DEF q

\* s is the part of t after its first b lexemes, or a beginning of that.
IsPart(s, t, b) ==
  /\ s \in Texts /\ b \in Nat /\ b + Len(s) <= Len(t)
  /\ \A i \in 1 .. Len(s) : s[i] = t[b + i]

LEMMA PartOf ==
  ASSUME NEW t \in Texts, NEW b \in Nat, NEW n \in Nat, b + n <= Len(t)
  PROVE  IsPart(SubSeq(t, b + 1, b + n), t, b) /\ Len(SubSeq(t, b + 1, b + n)) = n
<1>1. t \in Seq(Lexemes) /\ Len(t) \in Nat
  BY Lengths DEF Texts
<1>2. SubSeq(t, b + 1, b + n) \in Seq(Lexemes)
  BY <1>1
<1>3. Len(SubSeq(t, b + 1, b + n)) = n
  BY <1>1
<1>4. ASSUME NEW i \in 1 .. n
      PROVE  SubSeq(t, b + 1, b + n)[i] = t[b + i]
  <2>1. SubSeq(t, b + 1, b + n)[i] = t[(b + 1) + i - 1] /\ (b + 1) + i - 1 = b + i
    BY <1>1
  <2>2. QED
    BY <2>1
<1>5. QED
  BY <1>2, <1>3, <1>4 DEF IsPart, Texts

\* From a lexeme on before which Oracle reads code, the rest is seen as before.
LEMMA PartSeen ==
  ASSUME NEW t \in Texts, NEW b, NEW s, IsPart(s, t, b), OracleModes(t)[b] = "code"
  PROVE  /\ \A i \in 0 .. Len(s) : OracleModes(s)[i] = OracleModes(t)[b + i]
         /\ \A i \in 1 .. Len(s) : i \in Sees(s) <=> b + i \in Sees(t)
         /\ NestsComments(s) => NestsComments(t)
<1>1. /\ s \in Texts /\ b \in Nat /\ Len(s) \in Nat /\ Len(t) \in Nat /\ b + Len(s) <= Len(t)
      /\ \A i \in 1 .. Len(s) : s[i] = t[b + i]
  BY Lengths DEF IsPart
<1>2. \A i \in 0 .. Len(s) : OracleModes(s)[i] = OracleModes(t)[b + i]
  <2>1. 0 \in Nat /\ Alike(t, b, s, 0, Len(s))
    BY <1>1 DEF Alike
  <2>2. OracleModes(s)[0] = OracleModes(t)[b]
    BY <1>1, OracleScan
  <2>3. AlikeInMode(t, b, s, 0, Len(s))
    BY <1>1, <2>1, <2>2, SameModes
  <2>4. \A i \in 0 .. Len(s) : 0 + i = i
    OBVIOUS
  <2>5. QED
    BY <2>3, <2>4 DEF AlikeInMode
<1>3. ASSUME NEW i \in 1 .. Len(s)
      PROVE  /\ OracleModes(s)[i - 1] = OracleModes(t)[(b + i) - 1]
             /\ b + i \in 1 .. Len(t) /\ s[i] = t[b + i]
  <2>1. i - 1 \in 0 .. Len(s) /\ b + (i - 1) = (b + i) - 1 /\ b + i \in 1 .. Len(t)
    BY <1>1
  <2>2. QED
    BY <1>1, <1>2, <2>1
<1>4. \A i \in 1 .. Len(s) : i \in Sees(s) <=> b + i \in Sees(t)
  BY <1>1, <1>3, SeesPositions
<1>5. NestsComments(s) => NestsComments(t)
  BY <1>3 DEF NestsComments
<1>6. QED
  BY <1>2, <1>4, <1>5

\* A part of a query that has all of it that Oracle sees is a query with the same end.
LEMMA QueryOfPart ==
  ASSUME NEW t \in Texts, NEW b, NEW s, IsPart(s, t, b), OracleModes(t)[b] = "code",
         \A i \in Sees(t) : b < i /\ i <= b + Len(s),
         OracleModes(t)[b + Len(s)] \in {"code", "line"},
         Shape(t)
  PROVE  Shape(s) /\ (EndsInClause(s) <=> EndsInClause(t))
<1> DEFINE n == Len(s)
<1>1. /\ s \in Texts /\ b \in Nat /\ n \in Nat /\ Len(t) \in Nat /\ b + n <= Len(t)
      /\ \A i \in 1 .. n : s[i] = t[b + i]
  BY Lengths DEF IsPart
<1>2. /\ \A i \in 0 .. n : OracleModes(s)[i] = OracleModes(t)[b + i]
      /\ \A i \in 1 .. n : i \in Sees(s) <=> b + i \in Sees(t)
  BY PartSeen
<1>3. Sees(s) \in SUBSET (1 .. n) /\ Sees(t) \in SUBSET (1 .. Len(t))
  BY <1>1, SeesPositions
<1>4. \A i \in Sees(t) : i - b \in Sees(s) /\ i - b \in 1 .. n /\ b + (i - b) = i
  <2>1. ASSUME NEW i \in Sees(t)
        PROVE  i - b \in 1 .. n /\ b + (i - b) = i
    <3>1. b < i /\ i <= b + n /\ i \in Nat
      BY <1>3
    <3> HIDE DEF n
    <3>2. QED
      BY <1>1, <3>1
  <2>2. QED
    BY <1>2, <2>1
<1>5. \A i \in 0 .. n : Level(s, i) = Level(t, b + i)
  <2> DEFINE P == {i \in 0 .. n : Level(s, i) = Level(t, b + i)}
  <2>1. 0 \in P
    <3>1. \A j \in Sees(s) : ~ (j <= 0)
      BY <1>3
    <3>2. \A j \in Sees(t) : ~ (j <= b)
      BY <1>1, <1>3
    <3>3. Level(s, 0) = 0 /\ Level(t, b) = 0
      BY <1>1, <3>1, <3>2, Levels
    <3>4. QED
      BY <1>1, <3>3
  <2>2. ASSUME NEW i \in 1 .. n, i - 1 \in P
        PROVE  i \in P
    <3>1. /\ i \in Nat /\ i # 0 /\ b + i \in Nat /\ b + i # 0 /\ b + (i - 1) = (b + i) - 1
          /\ i \in 0 .. n
      BY <1>1
    <3>2. LevelChange(s, i) = LevelChange(t, b + i)
      BY <1>1, <1>2 DEF LevelChange
    <3>3. /\ Level(s, i) = Level(s, i - 1) + LevelChange(s, i)
          /\ Level(t, b + i) = Level(t, (b + i) - 1) + LevelChange(t, b + i)
      BY <1>1, <3>1, Levels
    <3>4. Level(s, i - 1) = Level(t, (b + i) - 1)
      BY <2>2, <3>1
    <3>5. Level(s, i) = Level(t, b + i)
      BY <3>2, <3>3, <3>4
    <3>6. QED
      BY <3>1, <3>5
  <2> HIDE DEF P
  <2>3. \A i \in 0 .. n : i \in P
    BY <1>1, <2>1, <2>2, UpTo
  <2>4. QED
    BY <2>3 DEF P
<1> HIDE DEF n
<1>6. \A i \in 1 .. n : Level(s, i) >= 0
  <2>1. ASSUME NEW i \in 1 .. n
        PROVE  Level(s, i) >= 0
    <3>1. i \in 0 .. n /\ b + i \in 1 .. Len(t)
      BY <1>1
    <3>2. QED
      BY <1>5, <3>1 DEF Shape
  <2>2. QED
    BY <2>1
<1>7. \A i \in 1 .. n : i \in Tops(s) <=> b + i \in Tops(t)
  <2>1. ASSUME NEW i \in 1 .. n
        PROVE  i \in Tops(s) <=> b + i \in Tops(t)
    <3>1. i \in 0 .. n /\ b + i \in 0 .. Len(t)
      BY <1>1
    <3>2. Depth(s, Sees(s))[i] = Level(s, i)
      BY <1>1, <1>6, <3>1, DepthIsLevel DEF n
    <3>3. Depth(t, Sees(t))[b + i] = Level(t, b + i)
      BY <3>1, DepthIsLevel DEF Shape
    <3>4. QED
      BY <1>1, <1>2, <1>5, <3>1, <3>2, <3>3, TopPositions
  <2>2. QED
    BY <2>1
<1>8. \A i \in Tops(s) : i \in 1 .. n /\ b + i \in Tops(t) /\ s[i] = t[b + i]
  BY <1>1, <1>3, <1>7, TopPositions
<1>9. OracleModes(s)[n] \in {"code", "line"}
  BY <1>1, <1>2 DEF n
<1>10. \A i \in Sees(s) : s[i] \in Clauses \cup {"(", ")"}
  <2>1. \A i \in Sees(s) : b + i \in Sees(t) /\ s[i] = t[b + i]
    BY <1>1, <1>2, <1>3
  <2>2. QED
    BY <2>1 DEF Shape
<1>11. Level(s, n) = 0
  <2>1. n \in 0 .. n
    BY <1>1
  <2>2. CASE n = 0
    BY <1>1, <1>3, <2>2, Levels
  <2> DEFINE Q == {i \in 0 .. Len(t) - (b + n) : Level(t, (b + n) + i) = Level(t, b + n)}
  <2>3. 0 \in Q
    BY <1>1
  <2>4. ASSUME NEW i \in 1 .. Len(t) - (b + n), i - 1 \in Q
        PROVE  i \in Q
    <3>1. /\ (b + n) + i \in Nat /\ (b + n) + i # 0 /\ (b + n) + (i - 1) = ((b + n) + i) - 1
          /\ i \in 0 .. Len(t) - (b + n)
      BY <1>1
    <3>2. (b + n) + i \notin Sees(t)
      BY <1>1 DEF n
    <3>3. Level(t, (b + n) + i) = Level(t, ((b + n) + i) - 1) + 0
      BY <3>1, <3>2, Levels DEF LevelChange
    <3>4. /\ Level(t, ((b + n) + i) - 1) = Level(t, b + n)
          /\ Level(t, b + n) \in Int
      BY <1>1, <2>4, <3>1, Levels
    <3>5. QED
      BY <3>1, <3>3, <3>4
  <2> HIDE DEF Q
  <2>5. \A i \in 0 .. Len(t) - (b + n) : i \in Q
    <3>1. Len(t) - (b + n) \in Nat
      BY <1>1
    <3>2. QED
      BY <2>3, <2>4, <3>1, UpTo
  <2>6. Level(t, Len(t)) = Level(t, b + n)
    <3>1. Len(t) - (b + n) \in 0 .. Len(t) - (b + n) /\ (b + n) + (Len(t) - (b + n)) = Len(t)
      BY <1>1
    <3>2. QED
      BY <2>5, <3>1 DEF Q
  <2>7. QED
    BY <1>5, <2>1, <2>6 DEF Shape
<1>12. \E k : BeginsQuery(s, k)
  <2>1. PICK k : BeginsQuery(t, k)
    BY DEF Shape
  <2>2. k \in Sees(t) /\ k \in Tops(t)
    BY <2>1, TopPositions DEF BeginsQuery
  <2>3. k - b \in 1 .. n /\ b + (k - b) = k
    BY <1>4, <2>2
  <2>4. k - b \in Tops(s) /\ s[k - b] = "select"
    BY <1>1, <1>7, <2>1, <2>2, <2>3 DEF BeginsQuery
  <2>5. ASSUME NEW j \in Sees(s)
        PROVE  k - b <= j
    <3>1. j \in 1 .. n /\ b + j \in Sees(t)
      BY <1>2, <1>3
    <3>2. k <= b + j /\ k \in Nat
      BY <1>3, <2>1, <2>2, <3>1 DEF BeginsQuery
    <3>3. QED
      BY <1>1, <3>1, <3>2
  <2>6. QED
    BY <2>4, <2>5 DEF BeginsQuery
<1>13. \A i, j \in Tops(s) : i < j => Rank[s[i]] < Rank[s[j]]
  <2>1. ASSUME NEW i \in Tops(s), NEW j \in Tops(s), i < j
        PROVE  Rank[s[i]] < Rank[s[j]]
    <3>1. b + i < b + j /\ b + i \in Tops(t) /\ b + j \in Tops(t) /\ s[i] = t[b + i] /\ s[j] = t[b + j]
      BY <1>1, <1>8, <2>1
    <3>2. QED
      BY <3>1 DEF Shape
  <2>2. QED
    BY <2>1
<1>14. \A i \in Sees(s) : s[i] = "lock" => i \in Tops(s)
  <2>1. \A i \in Sees(s) : i \in 1 .. n /\ b + i \in Sees(t) /\ s[i] = t[b + i]
    BY <1>1, <1>2, <1>3
  <2>2. QED
    BY <1>7, <2>1 DEF Shape
<1>15. Shape(s)
  BY <1>6, <1>9, <1>10, <1>11, <1>12, <1>13, <1>14 DEF Shape, n
<1>16. EndsInClause(s) <=> EndsInClause(t)
  <2>1. PICK k \in Tops(s) : /\ \A i \in Tops(s) : i <= k
                             /\ EndsInClause(s) <=> s[k] \in Dangling
    BY <1>1, <1>15, LastWord
  <2>2. PICK m \in Tops(t) : /\ \A i \in Tops(t) : i <= m
                             /\ EndsInClause(t) <=> t[m] \in Dangling
    BY LastWord
  <2>3. k \in 1 .. n /\ b + k \in Tops(t) /\ s[k] = t[b + k]
    BY <1>8
  <2>4. m \in Sees(t) /\ m \in 1 .. Len(t)
    BY <1>3, TopPositions
  <2>5. m - b \in 1 .. n /\ b + (m - b) = m
    BY <1>4, <2>4
  <2>6. m - b \in Tops(s)
    BY <1>7, <2>5
  <2>7. m - b <= k /\ b + k <= m
    BY <2>1, <2>2, <2>3, <2>6
  <2>8. m = b + k
    BY <1>1, <2>3, <2>4, <2>7
  <2>9. QED
    BY <2>1, <2>2, <2>3, <2>8
<1>17. QED
  BY <1>15, <1>16

\* What Oracle sees of a text with a query: clauses, of which the first begins it,
\* brackets, and the semicolon after it.
LEMMA SeenOfQuery ==
  ASSUME NEW t \in Texts, IsQuery(Intended(t))
  PROVE  /\ \A i \in Sees(t) : t[i] \in Clauses \cup {"(", ")", "semicolon"}
         /\ \E k \in Sees(t) : t[k] = "select" /\ \A j \in Sees(t) : k <= j
         /\ OracleModes(t)[Len(t)] \in {"code", "line"}
<1> DEFINE q == Intended(t)
<1> HIDE DEF q
<1>1. CASE q = t
  <2>1. Shape(t)
    BY <1>1, QueryShape DEF q
  <2>2. PICK k : BeginsQuery(t, k)
    BY <2>1 DEF Shape
  <2>3. k \in Sees(t) /\ t[k] = "select" /\ \A j \in Sees(t) : k <= j
    BY <2>2, TopPositions DEF BeginsQuery
  <2>4. QED
    BY <2>1, <2>3 DEF Shape
<1>2. ASSUME NEW m, Ends(t, m), IsWithout(q, t, m)
      PROVE  /\ \A i \in Sees(t) : t[i] \in Clauses \cup {"(", ")", "semicolon"}
             /\ \E k \in Sees(t) : t[k] = "select" /\ \A j \in Sees(t) : k <= j
             /\ OracleModes(t)[Len(t)] \in {"code", "line"}
  <2>1. /\ q \in Texts /\ Len(q) = Len(t) - 1 /\ Len(t) \in Nat /\ m \in 1 .. Len(t)
        /\ Sees(t) \in SUBSET (1 .. Len(t))
    BY <1>2, Lengths, SeesPositions DEF IsWithout, Ends
  <2>2. Shape(q)
    BY <2>1, QueryShape DEF q
  <2>3. /\ Sees(q) = Sees(t) \ {m}
        /\ \A i \in m - 1 .. Len(q) : OracleModes(q)[i] = OracleModes(t)[i + 1]
    BY <1>2, SemicolonOut DEF Ends
  <2>4. \A i \in Sees(q) : i \in 1 .. m - 1 /\ q[i] = t[i]
    BY <1>2, <2>1, <2>3 DEF Ends, IsWithout
  <2>5. \A i \in Sees(t) : i \in Sees(q) \/ t[i] = "semicolon"
    BY <1>2, <2>3 DEF Ends
  <2>6. PICK k : BeginsQuery(q, k)
    BY <2>2 DEF Shape
  <2>7. k \in Sees(q) /\ q[k] = "select" /\ \A j \in Sees(q) : k <= j
    BY <2>1, <2>6, TopPositions DEF BeginsQuery
  <2>8. k \in Sees(t) /\ t[k] = "select" /\ k <= m
    BY <2>1, <2>3, <2>4, <2>7
  <2>9. \A j \in Sees(t) : k <= j
    BY <2>3, <2>7, <2>8
  <2>10. OracleModes(t)[Len(t)] = OracleModes(q)[Len(q)]
    <3>1. Len(q) \in m - 1 .. Len(q) /\ Len(q) + 1 = Len(t)
      BY <2>1
    <3>2. QED
      BY <2>3, <3>1
  <2>11. QED
    BY <2>2, <2>4, <2>5, <2>8, <2>9, <2>10 DEF Shape
<1>3. QED
  BY <1>1, <1>2, IntendedText DEF q

\* The same part of a text with a query has that query.
LEMMA IntendedOfPart ==
  ASSUME NEW t \in Texts, NEW b, NEW s, IsPart(s, t, b), OracleModes(t)[b] = "code",
         \A i \in Sees(t) : b < i /\ i <= b + Len(s),
         OracleModes(t)[b + Len(s)] \in {"code", "line"},
         IsQuery(Intended(t))
  PROVE  IsQuery(Intended(s)) /\ (EndsInClause(Intended(s)) <=> EndsInClause(Intended(t)))
<1>1. /\ s \in Texts /\ b \in Nat /\ Len(s) \in Nat /\ Len(t) \in Nat /\ b + Len(s) <= Len(t)
      /\ \A i \in 1 .. Len(s) : s[i] = t[b + i]
  BY Lengths DEF IsPart
<1>2. /\ \A i \in 1 .. Len(s) : i \in Sees(s) <=> b + i \in Sees(t)
      /\ Sees(s) \in SUBSET (1 .. Len(s)) /\ Sees(t) \in SUBSET (1 .. Len(t))
  BY <1>1, PartSeen, SeesPositions
<1>3. CASE Intended(t) = t /\ \A k : ~ Ends(t, k)
  <2>1. Shape(s) /\ (EndsInClause(s) <=> EndsInClause(t))
    BY <1>3, QueryShape, QueryOfPart
  <2>2. ASSUME NEW k, Ends(s, k)
        PROVE  Ends(t, b + k)
    <3>1. k \in 1 .. Len(s) /\ b + k \in Sees(t) /\ t[b + k] = "semicolon"
      BY <1>1, <1>2, <2>2 DEF Ends
    <3>2. ASSUME NEW i \in Sees(t)
          PROVE  i <= b + k
      <4>1. b < i /\ i <= b + Len(s) /\ i \in Nat
        BY <1>2
      <4>2. i - b \in 1 .. Len(s) /\ b + (i - b) = i
        BY <1>1, <4>1
      <4>3. i - b <= k
        BY <1>2, <2>2, <4>2 DEF Ends
      <4>4. QED
        BY <1>1, <3>1, <4>1, <4>3
    <3>3. QED
      BY <3>1, <3>2 DEF Ends
  <2>3. Intended(s) = s
    BY <1>1, <1>3, <2>2, IntendedText
  <2>4. QED
    BY <1>1, <1>3, <2>1, <2>3, QueryShape
<1>4. ASSUME NEW m, Ends(t, m), IsWithout(Intended(t), t, m)
      PROVE  IsQuery(Intended(s)) /\ (EndsInClause(Intended(s)) <=> EndsInClause(Intended(t)))
  <2> DEFINE p == Intended(t)
             n == Len(s) - 1
             v == SubSeq(p, b + 1, b + n)
  <2>1. p \in Texts /\ Len(p) = Len(t) - 1 /\ IsWithout(p, t, m)
    BY <1>4 DEF IsWithout
  <2>2. m \in Sees(t) /\ m \in Nat /\ b < m /\ m <= b + Len(s)
    BY <1>2, <1>4 DEF Ends
  <2>3. /\ \A i \in 0 .. m - 1 : OracleModes(p)[i] = OracleModes(t)[i]
        /\ \A i \in m - 1 .. Len(p) : OracleModes(p)[i] = OracleModes(t)[i + 1]
        /\ Sees(p) = Sees(t) \ {m}
    BY <1>4, SemicolonOut DEF Ends
  <2>4. Shape(p)
    BY <2>1, QueryShape
  <2> HIDE DEF p
  <2>5. n \in Nat /\ b + n <= Len(p) /\ Len(s) = n + 1
    BY <1>1, <2>1, <2>2
  <2>6. IsPart(v, p, b) /\ Len(v) = n
    <3> HIDE DEF n
    <3>1. QED
      BY <1>1, <2>1, <2>5, PartOf
  <2> HIDE DEF v, n
  <2>7. OracleModes(p)[b] = "code"
    <3>1. b \in 0 .. m - 1
      BY <1>1, <2>2
    <3>2. QED
      BY <2>3, <3>1
  <2>8. ASSUME NEW i \in Sees(p)
        PROVE  b < i /\ i <= b + Len(v)
    <3>1. i \in Sees(t) /\ i # m
      BY <2>3
    <3>2. b < i /\ i <= m /\ i \in Nat
      BY <1>2, <1>4, <3>1 DEF Ends
    <3>3. QED
      BY <1>1, <2>2, <2>5, <2>6, <3>1, <3>2
  <2>9. OracleModes(p)[b + Len(v)] \in {"code", "line"}
    <3>1. b + n \in m - 1 .. Len(p) /\ (b + n) + 1 = b + Len(s)
      BY <1>1, <2>2, <2>5
    <3>2. OracleModes(p)[b + n] = OracleModes(t)[b + Len(s)]
      BY <2>3, <3>1
    <3>3. QED
      BY <2>6, <3>2
  <2>10. Shape(v) /\ v \in Texts /\ (EndsInClause(v) <=> EndsInClause(p))
    BY <2>1, <2>4, <2>6, <2>7, <2>8, <2>9, QueryOfPart DEF IsPart
  <2>11. m - b \in 1 .. Len(s) /\ b + (m - b) = m
    BY <1>1, <2>2
  <2>12. Ends(s, m - b)
    <3>1. m - b \in Sees(s) /\ s[m - b] = "semicolon"
      BY <1>1, <1>2, <1>4, <2>11 DEF Ends
    <3>2. ASSUME NEW i \in Sees(s)
          PROVE  i <= m - b
      <4>1. i \in 1 .. Len(s) /\ b + i \in Sees(t)
        BY <1>2
      <4>2. b + i <= m
        BY <1>4, <4>1 DEF Ends
      <4>3. QED
        BY <1>1, <2>2, <4>1, <4>2
    <3>3. QED
      BY <3>1, <3>2 DEF Ends
  <2>13. IsWithout(Intended(s), s, m - b)
    <3>1. PICK k : Ends(s, k) /\ IsWithout(Intended(s), s, k)
      BY <1>1, <2>12, IntendedText
    <3>2. k = m - b
      BY <1>2, <2>11, <2>12, <3>1 DEF Ends
    <3>3. QED
      BY <3>1, <3>2
  <2>14. Intended(s) \in Texts /\ Len(Intended(s)) = n
    BY <1>1, <2>5, <2>13 DEF IsWithout
  <2>15. ASSUME NEW i \in 1 .. n
         PROVE  Intended(s)[i] = v[i]
    <3>1. v[i] = p[b + i] /\ i \in 1 .. Len(s) /\ i + 1 \in 1 .. Len(s) /\ b + (i + 1) = (b + i) + 1
      BY <1>1, <2>5, <2>6 DEF IsPart
    <3>2. CASE i < m - b
      <4>1. i \in 1 .. (m - b) - 1 /\ b + i \in 1 .. m - 1
        BY <1>1, <2>2, <3>2
      <4>2. Intended(s)[i] = s[i] /\ p[b + i] = t[b + i]
        BY <2>1, <2>13, <4>1 DEF IsWithout
      <4>3. QED
        BY <1>1, <3>1, <4>2
    <3>3. CASE ~ (i < m - b)
      <4>1. i \in m - b .. Len(Intended(s)) /\ b + i \in m .. Len(p)
        BY <1>1, <2>2, <2>5, <2>14, <3>3
      <4>2. Intended(s)[i] = s[i + 1] /\ p[b + i] = t[(b + i) + 1]
        BY <2>1, <2>13, <4>1 DEF IsWithout
      <4>3. QED
        BY <1>1, <3>1, <4>2
    <3>4. QED
      BY <3>2, <3>3
  <2>16. Intended(s) = v
    BY <2>6, <2>10, <2>14, <2>15, SeqEqual DEF Texts
  <2>17. QED
    BY <2>10, <2>16, QueryShape DEF p
<1>5. QED
  BY <1>3, <1>4, IntendedText

\* What is extracted from the only candidate begins at its first keyword and leaves
\* out a mark at its end.
LEMMA ExtractedPart ==
  ASSUME NEW t \in Texts, NEW c, Candidates(t) = {c}, NEW q, q = Inside(t, c),
         NEW d \in Nat, d + 1 \in Starts(q), \A i \in Starts(q) : d + 1 <= i
  PROVE  \E n \in Nat :
           /\ IsPart(Extract(t), q, d) /\ Len(Extract(t)) = n
           /\ \/ d + n = Len(q) /\ q[Len(q)] # "fence"
              \/ d + n = Len(q) - 1 /\ q[Len(q)] = "fence"
<1> DEFINE usable == {b \in Candidates(t) : Starts(Inside(t, b)) # {}}
           b     == CHOOSE e \in usable : \A f \in usable : e[1] <= f[1]
           sql   == SubSeq(q, Min(Starts(q)), Len(q))
           m     == Len(q) - d
<1>1. q \in Texts /\ Len(q) \in Nat /\ Starts(q) \in SUBSET (1 .. Len(q))
  <2>1. q \in Texts
    BY InsideText
  <2>2. QED
    BY <2>1, Lengths DEF Starts
<1>2. usable = {c} /\ c[1] <= c[1]
  <2>1. c[1] \in 0 .. Len(t) /\ Len(t) \in Nat /\ Starts(Inside(t, c)) # {}
    BY InsideText, Lengths
  <2>2. QED
    BY <2>1
<1>3. b = c
  <2> HIDE DEF usable
  <2>1. QED
    BY <1>2
<1>4. Extract(t) = IF sql[Len(sql)] = "fence" THEN SubSeq(sql, 1, Len(sql) - 1) ELSE sql
  <2>1. Extract(t) = IF usable = {} THEN <<>>
          ELSE LET block == Inside(t, b)
                   part == SubSeq(block, Min(Starts(block)), Len(block))
               IN  IF part[Len(part)] = "fence" THEN SubSeq(part, 1, Len(part) - 1) ELSE part
    BY DEF Extract
  <2> HIDE DEF usable, b
  <2>2. QED
    BY <1>2, <1>3, <2>1
<1> HIDE DEF usable, b
<1>5. Min(Starts(q)) = d + 1
  <2>1. Min(Starts(q)) \in Starts(q) /\ \A i \in Starts(q) : Min(Starts(q)) <= i
    BY <1>1, FirstAndLast
  <2>2. QED
    BY <1>1, <2>1
<1>6. m \in Nat /\ m >= 1 /\ d + m = Len(q)
  BY <1>1
<1>7. IsPart(sql, q, d) /\ Len(sql) = m
  <2>1. sql = SubSeq(q, d + 1, d + m)
    BY <1>5, <1>6
  <2> HIDE DEF sql, m
  <2>2. d + m <= Len(q)
    BY <1>1, <1>6
  <2>3. IsPart(SubSeq(q, d + 1, d + m), q, d) /\ Len(SubSeq(q, d + 1, d + m)) = m
    BY <1>1, <1>6, <2>2, PartOf
  <2>4. QED
    BY <2>1, <2>3
<1> HIDE DEF sql, m
<1>8. sql[Len(sql)] = q[Len(q)]
  <2>1. m \in 1 .. Len(sql)
    BY <1>6, <1>7
  <2>2. QED
    BY <1>6, <1>7, <2>1 DEF IsPart
<1>9. CASE q[Len(q)] # "fence"
  BY <1>4, <1>6, <1>7, <1>8, <1>9
<1>10. CASE q[Len(q)] = "fence"
  <2>1. m - 1 \in Nat /\ 0 + (m - 1) <= Len(sql) /\ 0 \in Nat /\ d + (m - 1) = Len(q) - 1
    BY <1>6, <1>7
  <2>2. sql \in Texts
    BY <1>7 DEF IsPart
  <2>3. /\ IsPart(SubSeq(sql, 0 + 1, 0 + (m - 1)), sql, 0)
        /\ Len(SubSeq(sql, 0 + 1, 0 + (m - 1))) = m - 1
    BY <2>1, <2>2, PartOf
  <2>4. Extract(t) = SubSeq(sql, 0 + 1, 0 + (m - 1))
    <3>1. 0 + 1 = 1 /\ 0 + (m - 1) = Len(sql) - 1
      BY <1>6, <1>7
    <3>2. QED
      BY <1>4, <1>8, <1>10, <3>1
  <2>5. IsPart(Extract(t), sql, 0) /\ Len(Extract(t)) = m - 1
    BY <2>3, <2>4
  <2>6. ASSUME NEW i \in 1 .. m - 1
        PROVE  Extract(t)[i] = q[d + i]
    <3>1. i \in 1 .. Len(sql) /\ 0 + i = i /\ i \in 1 .. Len(Extract(t))
      BY <1>6, <1>7, <2>5
    <3>2. QED
      BY <1>7, <2>5, <3>1 DEF IsPart
  <2>7. IsPart(Extract(t), q, d)
    BY <1>6, <2>1, <2>5, <2>6 DEF IsPart
  <2>8. QED
    BY <1>10, <2>1, <2>5, <2>7
<1>11. QED
  BY <1>9, <1>10

\* A query that is found in an answer passes the checks of it.
LEMMA AnswersPass ==
  ASSUME NEW t \in Texts, NEW c, Candidates(t) = {c}, NEW q, q = Inside(t, c),
         IsQuery(Intended(q)), ~ NestsComments(q), ~ EndsInClause(Intended(q)),
         Min(Sees(q)) \in Starts(q), \A i \in Starts(q) : Min(Sees(q)) <= i,
         \A i \in Sees(q) : q[i] # "lock"
  PROVE  Enforced(t)
<1> DEFINE u == Extract(t)
           d == Min(Sees(q)) - 1
<1>1. q \in Texts /\ Len(q) \in Nat /\ Sees(q) \in SUBSET (1 .. Len(q))
  BY InsideText, Lengths, SeesPositions
<1>2. /\ \A i \in Sees(q) : q[i] \in Clauses \cup {"(", ")", "semicolon"}
      /\ \E k \in Sees(q) : q[k] = "select" /\ \A j \in Sees(q) : k <= j
      /\ OracleModes(q)[Len(q)] \in {"code", "line"}
  BY <1>1, SeenOfQuery
<1>3. /\ d \in Nat /\ d + 1 = Min(Sees(q)) /\ d + 1 \in Sees(q)
      /\ q[d + 1] = "select" /\ \A i \in Sees(q) : d + 1 <= i
  <2>1. Min(Sees(q)) \in Sees(q) /\ \A i \in Sees(q) : Min(Sees(q)) <= i
    BY <1>1, <1>2, FirstAndLast
  <2>2. q[Min(Sees(q))] = "select" /\ Min(Sees(q)) \in 1 .. Len(q)
    BY <1>1, <1>2, <2>1
  <2>3. QED
    BY <2>1, <2>2
<1> HIDE DEF d
<1>4. PICK n \in Nat :
        /\ IsPart(u, q, d) /\ Len(u) = n
        /\ \/ d + n = Len(q) /\ q[Len(q)] # "fence"
           \/ d + n = Len(q) - 1 /\ q[Len(q)] = "fence"
  BY <1>3, ExtractedPart
<1> HIDE DEF u
<1>5. q[Len(q)] = "fence" => Len(q) \notin Sees(q)
  BY <1>2 DEF Clauses, Sources, Orders
<1>6. OracleModes(q)[d] = "code"
  <2>1. d + 1 \in 1 .. Len(q) /\ (d + 1) - 1 = d
    BY <1>1, <1>3
  <2>2. QED
    BY <1>1, <1>3, <2>1, SeesPositions
<1>7. \A i \in Sees(q) : d < i /\ i <= d + Len(u)
  <2>1. ASSUME NEW i \in Sees(q)
        PROVE  d < i /\ i <= d + Len(u)
    <3>1. i \in 1 .. Len(q) /\ d + 1 <= i /\ (q[Len(q)] = "fence" => i # Len(q))
      BY <1>1, <1>3, <1>5
    <3>2. QED
      BY <1>1, <1>3, <1>4, <3>1
  <2>2. QED
    BY <2>1
<1>8. OracleModes(q)[d + Len(u)] \in {"code", "line"}
  <2>1. CASE q[Len(q)] # "fence"
    BY <1>2, <1>4, <2>1
  <2>2. CASE q[Len(q)] = "fence"
    <3>1. Len(q) \in 1 .. Len(q) /\ d + Len(u) = Len(q) - 1
      BY <1>1, <1>3, <1>4, <2>2
    <3>2. OracleModes(q)[Len(q)] = OracleStep(OracleModes(q)[Len(q) - 1], "fence")
      BY <1>1, <2>2, <3>1, OracleScan
    <3>3. OracleStep(OracleModes(q)[Len(q) - 1], "fence") = OracleModes(q)[Len(q) - 1]
      BY DEF OracleStep, Opens, Closes
    <3>4. QED
      BY <1>2, <3>1, <3>2, <3>3
  <2>3. QED
    BY <2>1, <2>2
<1>9. /\ u \in Texts /\ IsQuery(Intended(u)) /\ ~ NestsComments(u)
      /\ ~ EndsInClause(Intended(u))
  BY <1>1, <1>4, <1>6, <1>7, <1>8, IntendedOfPart, PartSeen DEF IsPart
<1>10. Accepts(u) /\ ~ Several(u)
  BY <1>9, QueriesAccepted, OneStatement
<1>11. 1 \in 1 .. Len(u) /\ u # <<>>
  <2>1. d + 1 <= d + Len(u)
    BY <1>3, <1>7
  <2>2. Len(u) \in Nat /\ Len(u) >= 1
    BY <1>3, <1>4, <2>1
  <2>3. QED
    BY <2>2
<1>12. \A i \in 1 .. Len(u) : (i \in Sees(u) <=> d + i \in Sees(q)) /\ u[i] = q[d + i]
  BY <1>1, <1>4, <1>6, PartSeen DEF IsPart
<1>13. WordsOf(u) = {i \in Sees(u) : u[i] \in Words} /\ Sees(u) \in SUBSET (1 .. Len(u))
  BY <1>9, SeesPositions DEF WordsOf, Masked, Sees
<1>14. 1 \in WordsOf(u) /\ u[1] = "select"
  BY <1>3, <1>11, <1>12, <1>13 DEF Words, Clauses, Sources
<1>15. Min(WordsOf(u)) = 1
  <2>1. Min(WordsOf(u)) \in WordsOf(u) /\ \A i \in WordsOf(u) : Min(WordsOf(u)) <= i
    BY <1>4, <1>13, <1>14, FirstAndLast
  <2>2. Min(WordsOf(u)) <= 1 /\ Min(WordsOf(u)) \in 1 .. Len(u)
    BY <1>13, <1>14, <2>1
  <2>3. QED
    BY <1>4, <2>2
<1>16. ReadOnly(u)
  BY <1>12, <1>13, <1>14, <1>15 DEF ReadOnly
<1>17. QED
  BY <1>10, <1>11, <1>16 DEF Enforced, u

\* All of a text is its only candidate when it has no marks.
LEMMA WholeText ==
  ASSUME NEW t \in Texts, \A i \in 1 .. Len(t) : t[i] # "fence"
  PROVE  Candidates(t) = {<<0, Len(t) + 1>>} /\ Inside(t, <<0, Len(t) + 1>>) = t
<1>1. Len(t) \in Nat /\ DOMAIN t = 1 .. Len(t) /\ t \in Seq(Lexemes)
  BY Lengths DEF Texts
<1>2. Candidates(t) = {<<0, Len(t) + 1>>}
  <2>1. Marks(t) = {}
    BY <1>1 DEF Marks
  <2>2. Cardinality(Marks(t)) = 0
    BY <2>1, FS_EmptySet
  <2>3. QED
    BY <2>2 DEF Candidates
<1>3. Inside(t, <<0, Len(t) + 1>>) = SubSeq(t, 0 + 1, 0 + Len(t))
  BY <1>1 DEF Inside
<1>4. SubSeq(t, 0 + 1, 0 + Len(t)) = t
  <2>1. /\ IsPart(SubSeq(t, 0 + 1, 0 + Len(t)), t, 0)
        /\ Len(SubSeq(t, 0 + 1, 0 + Len(t))) = Len(t)
    BY <1>1, PartOf
  <2>2. \A i \in 1 .. Len(t) : 0 + i = i
    OBVIOUS
  <2>3. QED
    BY <1>1, <2>1, <2>2, SeqEqual DEF IsPart, Texts
<1>5. QED
  BY <1>2, <1>3, <1>4

LEMMA QueriesEnforced ==
  ASSUME NEW t \in Texts, Len(t) > 0, t[1] = "select", IsQuery(Intended(t)), ~ NestsComments(t),
         \A i \in 1 .. Len(t) : t[i] \notin {"lock", "fence"}
  PROVE  /\ Enforced(t) <=> ~ EndsInClause(Intended(t))
         /\ ~ QuotesInLiteral(t) => ReferencedTables(t) = TablesOf(t) \ Unlooked
<1>1. Len(t) \in Nat /\ 1 \in 1 .. Len(t) /\ Sees(t) \in SUBSET (1 .. Len(t))
  BY Lengths, SeesPositions
<1>2. 1 \in Sees(t)
  <2>1. 1 - 1 = 0 /\ "select" \notin Hidden
    BY DEF Hidden, Quotes
  <2>2. QED
    BY <1>1, <2>1, OracleScan, SeesPositions
<1>3. Min(Sees(t)) = 1
  <2>1. Min(Sees(t)) \in Sees(t) /\ \A i \in Sees(t) : Min(Sees(t)) <= i
    BY <1>1, <1>2, FirstAndLast
  <2>2. QED
    BY <1>1, <1>2, <2>1
<1>4. 1 \in Starts(t) /\ \A i \in Starts(t) : 1 <= i
  <2>1. DOMAIN t = 1 .. Len(t) /\ 1 - 1 \notin 1 .. Len(t) /\ t[1] \in Keywords
    BY Lengths DEF Keywords
  <2>2. QED
    BY <1>1, <2>1 DEF Starts
<1>5. ~ EndsInClause(Intended(t)) => Enforced(t)
  BY <1>1, <1>3, <1>4, AnswersPass, WholeText
<1>6. Extract(t) = t
  <2>1. 0 + 1 \in Starts(t) /\ \A i \in Starts(t) : 0 + 1 <= i
    BY <1>4
  <2>2. PICK n \in Nat : /\ IsPart(Extract(t), t, 0) /\ Len(Extract(t)) = n
                         /\ \/ 0 + n = Len(t) /\ t[Len(t)] # "fence"
                            \/ 0 + n = Len(t) - 1 /\ t[Len(t)] = "fence"
    BY <2>1, ExtractedPart, WholeText
  <2>3. Len(t) \in 1 .. Len(t)
    BY <1>1
  <2>4. Len(Extract(t)) = Len(t)
    BY <1>1, <2>2, <2>3
  <2>5. \A i \in 1 .. Len(t) : Extract(t)[i] = t[i]
    <3>1. \A i \in 1 .. Len(t) : 0 + i = i
      OBVIOUS
    <3>2. QED
      BY <2>2, <2>4, <3>1 DEF IsPart
  <2>6. QED
    BY <2>2, <2>4, <2>5, SeqEqual DEF IsPart, Texts
<1>7. Enforced(t) => ~ EndsInClause(Intended(t))
  BY <1>6, QueriesAccepted DEF Enforced
<1>8. OracleModes(t)[Len(t)] \in {"code", "line"}
  BY SeenOfQuery
<1>9. QED
  BY <1>5, <1>7, <1>8, TablesFound
------------------------------------------------------------------------------
(***************************************************************************)
(* The inductive invariant.                                                *)
(***************************************************************************)
Values(statement) == {Value(statement, n) : n \in Sizes}

Results == [value : UNION {Values(program[i]) : i \in 1 .. Len(program)}, from : 0 .. Retries]

ServiceTypes ==
  /\ size \in Sizes
  /\ report \in BOOLEAN
  /\ pc \in {"typing", "connected", "asking", "ended"}
  /\ text \in Seq(Lexemes) /\ Len(text) <= MaxText + 1
  /\ function \in {"none", "executequery", "countquery", "copy2dd"}
  /\ DOMAIN program = 1 .. Len(program) /\ Len(program) \in 0 .. 2
  /\ \A i \in 1 .. Len(program) : program[i].wrapper \in {"none", "count"}
  /\ outer \in 0 .. OuterRetries /\ inner \in 0 .. Retries
  /\ results \in Seq(Results) /\ Len(results) <= Len(program)
  /\ answer \in {"none", "rejected", "failed", "done"}
  /\ sizes \subseteq Sizes
  /\ posts \in Nat

\* Before a call there is nothing of it.
Fresh ==
  pc \in {"typing", "connected"} =>
    /\ function = "none" /\ program = <<>> /\ results = <<>>
    /\ outer = 0 /\ inner = 0 /\ posts = 0

\* A call that asks has a statement to ask, while the table has one of the sizes
\* that it had during the call.
Asking == pc = "asking" => Len(results) < Len(program) /\ size \in sizes

\* The value of a statement is that which it has for one of these sizes.
ValuesOfTheCall ==
  \A i \in 1 .. Len(results) :
    /\ results[i].from = outer
    /\ \E n \in sizes : results[i].value = Value(program[i], n)

\* A run costs as many requests as its statements have tries, at the most; so does
\* each that is over, and each statement of this one that is over.
PostsSoFar == (outer * Len(program) + Len(results)) * (Retries + 1) + inner

PostsBounded ==
  /\ pc = "asking" => posts <= PostsSoFar
  /\ posts <= MostRequests

ServiceInv == ServiceTypes /\ Fresh /\ Asking /\ ValuesOfTheCall /\ PostsBounded
------------------------------------------------------------------------------
(***************************************************************************)
(* Arithmetic.                                                             *)
(***************************************************************************)
\* A run has room for the tries of each of its statements, and a call for each of
\* its runs.
LEMMA Room ==
  ASSUME NEW o \in Nat, NEW m \in Nat, o <= m, NEW p \in 1 .. 2, NEW k \in Nat, k < p,
         NEW i \in Nat, NEW r \in Nat, i <= r
  PROVE  /\ (o * p + k) * (r + 1) + i + 1 <= (o * p + (k + 1)) * (r + 1)
         /\ (o * p + (k + 1)) * (r + 1) <= ((o + 1) * p + 0) * (r + 1)
         /\ ((o + 1) * p + 0) * (r + 1) <= (m + 1) * p * (r + 1)
<1>1. /\ (o * p + k) \in Nat /\ (o * p + (k + 1)) = (o * p + k) + 1
      /\ (o + 1) * p = o * p + p
      /\ o * p \in Nat
  OBVIOUS
<1>2. \A a \in Nat : (a + 1) * (r + 1) = a * (r + 1) + (r + 1)
  OBVIOUS
<1>3. \A a, b \in Nat : a <= b => a * (r + 1) <= b * (r + 1)
  OBVIOUS
<1>4. (o * p + k) * (r + 1) + i + 1 <= (o * p + (k + 1)) * (r + 1)
  <2>1. (o * p + (k + 1)) * (r + 1) = (o * p + k) * (r + 1) + (r + 1)
    BY <1>1, <1>2
  <2>2. (o * p + k) * (r + 1) \in Nat
    BY <1>1
  <2>3. QED
    BY <2>1, <2>2
<1>5. (o * p + (k + 1)) * (r + 1) <= ((o + 1) * p + 0) * (r + 1)
  <2>1. (o * p + (k + 1)) <= ((o + 1) * p + 0) /\ ((o + 1) * p + 0) \in Nat
    BY <1>1
  <2>2. QED
    BY <1>1, <1>3, <2>1
<1>6. ((o + 1) * p + 0) * (r + 1) <= (m + 1) * p * (r + 1)
  <2>1. CASE p = 1
    BY <1>3, <2>1
  <2>2. CASE p = 2
    BY <1>3, <2>2
  <2>3. QED
    BY <2>1, <2>2
<1>7. QED
  BY <1>4, <1>5, <1>6

LEMMA RetriesBounded == OuterRetries \in Nat /\ Retries \in Nat /\ OuterRetries <= Retries
BY ServiceAssumption DEF OuterRetries

LEMMA MostIsNat ==
  ASSUME ServiceTypes
  PROVE  MostRequests \in Nat
<1>1. Len(program) \in Nat
  BY DEF ServiceTypes
<1>2. \A a, b, c \in Nat : a * b * c \in Nat
  OBVIOUS
<1>3. QED
  BY <1>1, <1>2, RetriesBounded DEF MostRequests

\* One request more than so far.
LEMMA PostedOne ==
  ASSUME ServiceTypes, Posted
  PROVE  posts' \in Nat /\ posts' <= posts + 1
BY MostIsNat DEF ServiceTypes, Posted, Least

\* A call that asks has room for its requests until it ends.
LEMMA RoomForRequests ==
  ASSUME ServiceInv, pc = "asking", Posted
  PROVE  /\ posts' <= (outer * Len(program) + Len(results)) * (Retries + 1) + inner + 1
         /\ posts' <= (outer * Len(program) + (Len(results) + 1)) * (Retries + 1) + 0
         /\ posts' <= ((outer + 1) * Len(program) + 0) * (Retries + 1) + 0
         /\ posts' <= MostRequests
<1>1. /\ outer \in Nat /\ outer <= OuterRetries /\ inner \in Nat /\ inner <= Retries
      /\ Len(program) \in 1 .. 2 /\ Len(results) \in Nat /\ Len(results) < Len(program)
      /\ OuterRetries \in Nat /\ Retries \in Nat
  BY RetriesBounded DEF ServiceInv, ServiceTypes, Asking
<1>2. posts' \in Nat /\ posts' <= posts + 1 /\ posts \in Nat
  BY PostedOne DEF ServiceInv, ServiceTypes
<1>3. posts <= (outer * Len(program) + Len(results)) * (Retries + 1) + inner
  BY DEF ServiceInv, PostsBounded, PostsSoFar
<1> DEFINE so   == (outer * Len(program) + Len(results)) * (Retries + 1)
           stmt == (outer * Len(program) + (Len(results) + 1)) * (Retries + 1)
           run  == ((outer + 1) * Len(program) + 0) * (Retries + 1)
<1>4. so + inner + 1 <= stmt /\ stmt <= run /\ run <= MostRequests
  BY <1>1, Room DEF MostRequests
<1>5. so \in Nat /\ stmt \in Nat /\ run \in Nat /\ MostRequests \in Nat
  <2>1. \A a, b, c, d \in Nat : (a * b + c) * (d + 1) \in Nat
    OBVIOUS
  <2>2. Len(program) \in Nat /\ Len(results) + 1 \in Nat /\ outer + 1 \in Nat /\ 0 \in Nat
    BY <1>1
  <2>3. QED
    BY <1>1, <2>1, <2>2, MostIsNat DEF ServiceInv
<1> HIDE DEF so, stmt, run
<1>6. posts' <= so + inner + 1 /\ posts' <= stmt + 0 /\ posts' <= run + 0 /\ posts' <= MostRequests
  BY <1>1, <1>2, <1>3, <1>4, <1>5 DEF so
<1>7. QED
  BY <1>6 DEF so, stmt, run
------------------------------------------------------------------------------
(***************************************************************************)
(* The steps.                                                              *)
(***************************************************************************)
LEMMA ServiceStarts == ServiceInit => ServiceInv
<1> SUFFICES ASSUME ServiceInit PROVE ServiceInv
  OBVIOUS
<1>1. /\ program = <<>> /\ Len(program) = 0 /\ DOMAIN program = 1 .. 0
      /\ results = <<>> /\ Len(results) = 0 /\ results \in Seq(Results)
      /\ outer = 0 /\ inner = 0 /\ posts = 0
  BY DEF ServiceInit
<1>2. text \in Seq(Lexemes) /\ Len(text) <= MaxText + 1
  <2>1. "select" \in Lexemes
    BY DEF Lexemes, Words, Clauses, Sources
  <2>2. text = <<"select">>
    BY DEF ServiceInit
  <2>3. QED
    BY <2>1, <2>2, ServiceAssumption
<1>3. ServiceTypes
  <2>1. outer \in 0 .. OuterRetries /\ inner \in 0 .. Retries /\ Len(program) \in 0 .. 2
    BY <1>1, RetriesBounded
  <2>2. DOMAIN program = 1 .. Len(program) /\ ~ \E i \in 1 .. Len(program) : TRUE
    BY <1>1
  <2>3. Len(results) <= Len(program) /\ posts \in Nat
    BY <1>1
  <2>4. size \in Sizes /\ report = FALSE /\ pc = "typing" /\ function = "none"
        /\ answer = "none" /\ sizes = {}
    BY DEF ServiceInit
  <2>5. QED
    BY <1>1, <1>2, <2>1, <2>2, <2>3, <2>4 DEF ServiceTypes
<1>4. MostRequests \in Nat
  BY <1>3, MostIsNat
<1>5. QED
  BY <1>1, <1>3, <1>4 DEF ServiceInit, ServiceInv, Fresh, Asking, ValuesOfTheCall, PostsBounded

LEMMA PreparationKeeps ==
  ASSUME ServiceInv, Connect \/ TypeText \/ TableChanges
  PROVE  ServiceInv'
<1>1. UNCHANGED <<function, program, outer, inner, results, answer, posts>>
  BY DEF Connect, TypeText, TableChanges, callVars
<1>2. text' \in Seq(Lexemes) /\ Len(text') <= MaxText + 1
  <2>1. ASSUME TypeText PROVE text' \in Seq(Lexemes) /\ Len(text') <= MaxText + 1
    <3>1. PICK t \in Lexemes : text' = Append(text, t)
      BY <2>1, ServiceAssumption DEF TypeText
    <3>2. Len(text) <= MaxText /\ Len(text) \in Nat
      BY <2>1 DEF TypeText, ServiceInv, ServiceTypes
    <3>3. QED
      BY <3>1, <3>2, ServiceAssumption DEF ServiceInv, ServiceTypes
  <2>2. QED
    BY <2>1 DEF Connect, TableChanges, callVars, ServiceInv, ServiceTypes
<1>3. /\ size' \in Sizes /\ report' \in BOOLEAN /\ sizes \subseteq sizes' /\ sizes' \subseteq Sizes
      /\ pc' \in {"typing", "connected", "asking", "ended"}
      /\ (pc' = "asking" <=> pc = "asking")
      /\ (pc' \in {"typing", "connected"} => pc \in {"typing", "connected"})
  BY DEF Connect, TypeText, TableChanges, callVars, ServiceInv, ServiceTypes
<1>4. OuterRetries' = OuterRetries /\ Results' = Results
  BY <1>1 DEF OuterRetries, Results, Values
<1>5. ServiceTypes'
  BY <1>1, <1>2, <1>3, <1>4 DEF ServiceInv, ServiceTypes
<1>6. Fresh'
  BY <1>1, <1>3 DEF ServiceInv, Fresh
<1>7. Asking'
  BY <1>1, <1>3 DEF ServiceInv, Asking, Connect, TypeText, TableChanges, callVars
<1>8. ValuesOfTheCall'
  <2>1. \A i \in 1 .. Len(results) :
          /\ results[i].from = outer
          /\ \E n \in sizes' : results[i].value = Value(program[i], n)
    BY <1>3 DEF ServiceInv, ValuesOfTheCall
  <2>2. QED
    BY <1>1, <2>1 DEF ValuesOfTheCall
<1>9. PostsBounded'
  BY <1>1, <1>3 DEF ServiceInv, PostsBounded, PostsSoFar, MostRequests, OuterRetries
<1>10. QED
  BY <1>5, <1>6, <1>7, <1>8, <1>9 DEF ServiceInv

\* A call begins with one statement, or, for a copy, with two.
LEMMA CallBegins ==
  ASSUME ServiceInv, NEW f \in {"executequery", "countquery", "copy2dd"}, NEW statements,
         DOMAIN statements = 1 .. Len(statements), Len(statements) \in 1 .. 2,
         \A i \in 1 .. Len(statements) : statements[i].wrapper \in {"none", "count"},
         Begin(f, statements)
  PROVE  ServiceInv'
<1>1. /\ results = <<>> /\ outer = 0 /\ inner = 0 /\ posts = 0
      /\ UNCHANGED <<size, report, text, outer, inner, results, answer, posts>>
      /\ pc' = "asking" /\ function' = f /\ program' = statements /\ sizes' = {size}
  BY DEF Begin, ServiceInv, Fresh
<1>2. results' \in Seq(Results') /\ Len(results') = 0
  BY <1>1
<1>3. OuterRetries' \in Nat
  BY <1>1, ServiceAssumption DEF OuterRetries
<1>4. ServiceTypes'
  BY <1>1, <1>2, <1>3, ServiceAssumption DEF ServiceInv, ServiceTypes
<1>5. MostRequests' \in Nat
  <2>1. \A a, b, c \in Nat : (a + 1) * b * (c + 1) \in Nat
    OBVIOUS
  <2>2. QED
    BY <1>1, <1>3, <2>1, ServiceAssumption DEF MostRequests
<1>6. PostsSoFar' \in Nat
  <2>1. \A a, b, c, d \in Nat : (a * b + c) * (d + 1) + a \in Nat
    OBVIOUS
  <2>2. PostsSoFar' = (0 * Len(statements) + 0) * (Retries + 1) + 0
    BY <1>1, <1>2 DEF PostsSoFar
  <2>3. QED
    BY <2>1, <2>2, ServiceAssumption
<1>7. QED
  BY <1>1, <1>2, <1>4, <1>5, <1>6
     DEF ServiceInv, Fresh, Asking, ValuesOfTheCall, PostsBounded, ServiceTypes

LEMMA CallsKeep ==
  ASSUME ServiceInv, Call
  PROVE  ServiceInv'
<1>1. ASSUME NEW s, s.wrapper \in {"none", "count"}
      PROVE  /\ DOMAIN <<s>> = 1 .. Len(<<s>>) /\ Len(<<s>>) \in 1 .. 2
             /\ \A i \in 1 .. Len(<<s>>) : <<s>>[i].wrapper \in {"none", "count"}
  BY <1>1
<1>2. CASE ExecuteQuery
  <2>1. Statement("none", text).wrapper = "none"
    BY DEF Statement
  <2>2. QED
    BY <1>1, <1>2, <2>1, CallBegins DEF ExecuteQuery
<1>3. CASE CountRows
  <2>1. CountQuery(text).wrapper = "count"
    BY <1>3 DEF CountRows, CountQuery, Statement
  <2>2. QED
    BY <1>1, <1>3, <2>1, CallBegins DEF CountRows
<1>4. CASE Copy2dd
  <2> DEFINE s1 == CountQuery(<<"select">>)
             s2 == Statement("none", <<"select", "order">>)
  <2>1. s1.wrapper = "count" /\ s2.wrapper = "none"
    BY TableQuery DEF CountQuery, Statement
  <2> HIDE DEF s1, s2
  <2>2. /\ DOMAIN <<s1, s2>> = 1 .. Len(<<s1, s2>>) /\ Len(<<s1, s2>>) \in 1 .. 2
        /\ \A i \in 1 .. Len(<<s1, s2>>) : <<s1, s2>>[i].wrapper \in {"none", "count"}
    BY <2>1
  <2>3. Begin("copy2dd", <<s1, s2>>)
    BY <1>4 DEF Copy2dd, CopyProgram, s1, s2
  <2>4. QED
    BY <2>2, <2>3, CallBegins
<1>5. CASE RejectCount
  <2>1. /\ results = <<>> /\ program = <<>> /\ outer = 0 /\ inner = 0 /\ posts = 0
        /\ UNCHANGED <<size, report, text, program, outer, inner, results, sizes, posts>>
        /\ pc' = "ended" /\ function' = "countquery" /\ answer' = "rejected"
    BY <1>5 DEF RejectCount, ServiceInv, Fresh
  <2>2. OuterRetries' = 0 /\ Results' = Results /\ Len(results) = 0
    BY <2>1 DEF OuterRetries, Results, Values
  <2>3. ServiceTypes'
    BY <2>1, <2>2 DEF ServiceInv, ServiceTypes
  <2>4. MostRequests' \in Nat
    <3>1. \A a, b, c \in Nat : (a + 1) * b * (c + 1) \in Nat
      OBVIOUS
    <3>2. Len(program) = 0
      BY <2>1
    <3>3. QED
      BY <2>1, <2>2, <3>1, <3>2, ServiceAssumption DEF MostRequests
  <2>5. QED
    BY <2>1, <2>2, <2>3, <2>4 DEF ServiceInv, Fresh, Asking, ValuesOfTheCall, PostsBounded
<1>6. QED
  BY <1>2, <1>3, <1>4, <1>5 DEF Call

\* The result is that of the statement that was asked, now.
LEMMA AnswerKeeps ==
  ASSUME ServiceInv, Answer
  PROVE  ServiceInv'
<1> DEFINE result == [value |-> Value(Asked, size), from |-> outer]
           n      == Len(results)
<1>1. /\ results \in Seq(Results) /\ n \in Nat /\ n + 1 \in 1 .. Len(program)
      /\ size \in Sizes /\ size \in sizes /\ outer \in 0 .. Retries
  BY RetriesBounded DEF Answer, ServiceInv, ServiceTypes, Asking
<1>2. result \in Results
  BY <1>1 DEF Asked, Results, Values
<1>3. /\ results' = Append(results, result) /\ inner' = 0
      /\ UNCHANGED <<size, report, text, function, program, outer, sizes>>
      /\ pc' \in {"asking", "ended"} /\ answer' \in {answer, "done"}
      /\ Posted
  BY DEF Answer
<1> HIDE DEF result
<1>4. /\ results' \in Seq(Results) /\ Len(results') = n + 1
      /\ \A i \in 1 .. n : results'[i] = results[i]
      /\ results'[n + 1] = result
  BY <1>1, <1>2, <1>3
<1>5. Results' = Results /\ OuterRetries' = OuterRetries /\ MostRequests' = MostRequests
  BY <1>3 DEF Results, Values, OuterRetries, MostRequests
<1>6. ServiceTypes'
  BY <1>1, <1>3, <1>4, <1>5, PostedOne, ServiceAssumption DEF ServiceInv, ServiceTypes
<1>7. ValuesOfTheCall'
  <2>1. result.from = outer /\ result.value = Value(program[n + 1], size)
    BY DEF result, Asked
  <2>2. ASSUME NEW i \in 1 .. n + 1
        PROVE  /\ results'[i].from = outer
               /\ \E m \in sizes : results'[i].value = Value(program[i], m)
    <3>1. CASE i = n + 1
      BY <1>1, <1>4, <2>1, <3>1
    <3>2. CASE i \in 1 .. n
      BY <1>4, <3>2 DEF ServiceInv, ValuesOfTheCall
    <3>3. QED
      BY <1>1, <3>1, <3>2
  <2>3. QED
    BY <1>3, <1>4, <2>2 DEF ValuesOfTheCall
<1>8. Asking'
  <2>1. ASSUME pc' = "asking" PROVE n + 1 # Len(program)
    BY <2>1 DEF Answer, IsLast
  <2>2. QED
    BY <1>1, <1>3, <1>4, <2>1 DEF Asking
<1>9. PostsBounded'
  <2>1. /\ posts' <= (outer * Len(program) + (n + 1)) * (Retries + 1) + 0
        /\ posts' <= MostRequests
    BY <1>3, RoomForRequests DEF Answer
  <2>2. QED
    BY <1>3, <1>4, <1>5, <2>1 DEF PostsBounded, PostsSoFar
<1>10. QED
  BY <1>3, <1>6, <1>7, <1>8, <1>9 DEF ServiceInv, Fresh

\* A statement is asked again, or the call is made again from its first statement.
LEMMA FailKeeps ==
  ASSUME ServiceInv, NEW errors, Fail(errors)
  PROVE  ServiceInv'
<1>1. /\ Posted /\ pc = "asking"
      /\ UNCHANGED <<size, report, text, function, program, sizes>>
  BY DEF Fail
<1>2. Results' = Results /\ OuterRetries' = OuterRetries /\ MostRequests' = MostRequests
  BY <1>1 DEF Results, Values, OuterRetries, MostRequests
<1>3. /\ posts' \in Nat
      /\ posts' <= (outer * Len(program) + Len(results)) * (Retries + 1) + inner + 1
      /\ posts' <= ((outer + 1) * Len(program) + 0) * (Retries + 1) + 0
      /\ posts' <= MostRequests
  BY <1>1, RoomForRequests, PostedOne DEF ServiceInv
<1>4. CASE inner < Retries /\ inner' = inner + 1 /\ UNCHANGED <<pc, outer, results, answer>>
  <2>1. ServiceTypes'
    BY <1>1, <1>2, <1>3, <1>4, RetriesBounded DEF ServiceInv, ServiceTypes
  <2>2. PostsBounded'
    <3>1. PostsSoFar' = (outer * Len(program) + Len(results)) * (Retries + 1) + (inner + 1)
      BY <1>1, <1>4 DEF PostsSoFar
    <3>2. (outer * Len(program) + Len(results)) * (Retries + 1) \in Nat /\ inner \in Nat
      <4>1. \A a, b, c, d \in Nat : (a * b + c) * (d + 1) \in Nat
        OBVIOUS
      <4>2. outer \in Nat /\ Len(program) \in Nat /\ Len(results) \in Nat
        BY RetriesBounded DEF ServiceInv, ServiceTypes
      <4>3. QED
        BY <4>1, <4>2, RetriesBounded DEF ServiceInv, ServiceTypes
    <3>3. QED
      BY <1>2, <1>3, <3>1, <3>2 DEF PostsBounded
  <2>3. QED
    BY <1>1, <1>4, <2>1, <2>2 DEF ServiceInv, Fresh, Asking, ValuesOfTheCall
<1>5. CASE /\ outer < OuterRetries /\ outer' = outer + 1 /\ inner' = 0 /\ results' = <<>>
           /\ UNCHANGED <<pc, answer>>
  <2>1. results' \in Seq(Results) /\ Len(results') = 0
    BY <1>5
  <2>2. ServiceTypes'
    BY <1>1, <1>2, <1>3, <1>5, <2>1, RetriesBounded DEF ServiceInv, ServiceTypes
  <2>3. PostsBounded'
    BY <1>1, <1>2, <1>3, <1>5, <2>1 DEF PostsBounded, PostsSoFar
  <2>4. Asking'
    BY <1>1, <1>5, <2>1 DEF ServiceInv, ServiceTypes, Asking
  <2>5. QED
    BY <1>1, <1>5, <2>1, <2>2, <2>3, <2>4 DEF ServiceInv, Fresh, ValuesOfTheCall
<1>6. CASE pc' = "ended" /\ answer' = "failed" /\ UNCHANGED <<outer, inner, results>>
  <2>1. ServiceTypes'
    BY <1>1, <1>2, <1>3, <1>6 DEF ServiceInv, ServiceTypes
  <2>2. QED
    BY <1>1, <1>2, <1>3, <1>6, <2>1
       DEF ServiceInv, Fresh, Asking, ValuesOfTheCall, PostsBounded
<1>7. QED
  BY <1>4, <1>5, <1>6 DEF Fail

LEMMA ServiceKeeps == ServiceInv /\ [ServiceNext]_serviceVars => ServiceInv'
<1> SUFFICES ASSUME ServiceInv, [ServiceNext]_serviceVars PROVE ServiceInv'
  OBVIOUS
<1>1. CASE Connect \/ TypeText \/ TableChanges
  BY <1>1, PreparationKeeps
<1>2. CASE Call
  BY <1>2, CallsKeep
<1>3. CASE Request
  BY <1>3, AnswerKeeps, FailKeeps DEF Request, Refuse, BreakOff
<1>4. CASE UNCHANGED serviceVars
  BY <1>4 DEF serviceVars, callVars, ServiceInv, ServiceTypes, Results, Values, OuterRetries, Fresh, Asking,
              ValuesOfTheCall, PostsBounded, PostsSoFar, MostRequests
<1>5. QED
  BY <1>1, <1>2, <1>3, <1>4 DEF ServiceNext
------------------------------------------------------------------------------
(***************************************************************************)
(* A count asks for the statement that is made of its text.                *)
(***************************************************************************)
Counting ==
  /\ Len(text) > 0 /\ text[1] = "select"
  /\ pc # "ended" => answer = "none"
  /\ function = "countquery" /\ answer # "rejected" =>
       Accepts(text) /\ program = <<CountQuery(text)>>
  /\ function = "countquery" /\ answer = "done" => Len(results) = Len(program)

LEMMA CountingInitially == ServiceInit => Counting
BY DEF ServiceInit, Counting

LEMMA CountingKept ==
  ASSUME ServiceInv, Counting, [ServiceNext]_serviceVars
  PROVE  Counting'
<1>1. text \in Seq(Lexemes) /\ Len(text) \in Nat /\ results \in Seq(Results) /\ Len(results) \in Nat
  BY DEF ServiceInv, ServiceTypes
<1>2. CASE Connect
  BY <1>2 DEF Connect, callVars, Counting
<1>3. CASE TypeText
  <2>1. PICK t \in Lexemes : text' = Append(text, t)
    BY <1>3, ServiceAssumption DEF TypeText
  <2>2. Len(text') > 0 /\ text'[1] = "select"
    BY <1>1, <2>1 DEF Counting
  <2>3. function' = "none" /\ answer' = answer /\ pc' = pc
    BY <1>3 DEF TypeText, ServiceInv, Fresh
  <2>4. QED
    BY <2>2, <2>3 DEF Counting
<1>4. CASE Call
  BY <1>4 DEF Call, ExecuteQuery, CountRows, RejectCount, Copy2dd, Begin, Counting
<1>5. CASE Answer
  <2>1. /\ pc = "asking" /\ UNCHANGED <<text, function, program>>
        /\ Len(results') = Len(results) + 1
    BY <1>1, <1>5 DEF Answer
  <2>2. /\ pc' = "ended" \/ (pc' = pc /\ answer' = answer)
        /\ answer' = "done" => answer = "done" \/ Len(results) + 1 = Len(program) \/ function = "copy2dd"
        /\ answer' \in {answer, "done"}
    BY <1>5 DEF Answer, IsLast
  <2>3. answer = "none"
    BY <2>1 DEF Counting
  <2>4. QED
    BY <2>1, <2>2, <2>3 DEF Counting
<1>6. CASE \E errors : Fail(errors)
  <2>1. /\ pc = "asking" /\ UNCHANGED <<text, function, program>>
        /\ (pc' = pc /\ answer' = answer) \/ (pc' = "ended" /\ answer' = "failed")
    BY <1>6 DEF Fail
  <2>2. QED
    BY <2>1 DEF Counting
<1>7. CASE TableChanges \/ UNCHANGED serviceVars
  BY <1>7 DEF TableChanges, serviceVars, callVars, Counting
<1>8. QED
  BY <1>2, <1>3, <1>4, <1>5, <1>6, <1>7 DEF ServiceNext, Request, Refuse, BreakOff
------------------------------------------------------------------------------
(***************************************************************************)
(* The theorems.                                                           *)
(***************************************************************************)
\* The inductive invariant of the calls.
THEOREM ServiceInvariant == ServiceSpec => []ServiceInv
BY ServiceStarts, ServiceKeeps, PTL DEF ServiceSpec

\* Retries do not mix the runs of a copy, and the requests of a call are bounded
\* by the product of the retries of both wrappers, however many these are.
THEOREM RetriesKeptApart == ServiceSpec => []RetriesApart
<1>1. ServiceInv => RetriesApart
  <2> SUFFICES ASSUME ServiceInv PROVE RetriesApart
    OBVIOUS
  <2>1. ServiceTypeOK
    BY RetriesBounded DEF ServiceInv, ServiceTypes, Asking, ServiceTypeOK
  <2>2. OneRun
    <3>1. DOMAIN results = 1 .. Len(results)
      BY DEF ServiceInv, ServiceTypes
    <3>2. QED
      BY <3>1 DEF ServiceInv, ValuesOfTheCall, OneRun
  <2>3. QED
    BY <2>1, <2>2 DEF ServiceInv, PostsBounded, RequestBound, RetriesApart
<1>2. QED
  BY <1>1, ServiceInvariant, PTL

\* Each value that a call returns is that of its statement for a size which the
\* table had during the call, and was got in the last run of the call.
THEOREM ValuesAreCurrent == ServiceSpec => []ValuesOfTheCall
<1>1. ServiceInv => ValuesOfTheCall
  BY DEF ServiceInv
<1>2. QED
  BY <1>1, ServiceInvariant, PTL

LEMMA CountingHolds == ServiceSpec => []Counting
BY CountingInitially, CountingKept, ServiceInvariant, PTL DEF ServiceSpec

\* The number that countquery returns is that of the rows which the query has at
\* some time during the call, for all texts and sizes of the table.
THEOREM CountsAreTrue == ServiceSpec => []CountIsTrue
<1>1. ServiceInv /\ Counting => CountIsTrue
  <2> SUFFICES ASSUME ServiceInv, Counting, function = "countquery", answer = "done",
                      IsQuery(Intended(text)), ~ NestsComments(text), ~ CutsLimit(Intended(text))
               PROVE  \E n \in sizes : results[1].value = RowsOf(Intended(text), n)
    BY DEF CountIsTrue
  <2>1. text \in Texts
    BY DEF ServiceInv, ServiceTypes, Texts
  <2>2. Accepts(text) /\ program = <<CountQuery(text)>> /\ Len(results) = 1
    BY DEF Counting
  <2>3. PICK n \in sizes : results[1].value = Value(CountQuery(text), n)
    <3>1. 1 \in 1 .. Len(results) /\ program[1] = CountQuery(text)
      BY <2>2
    <3>2. QED
      BY <3>1 DEF ServiceInv, ValuesOfTheCall
  <2>4. QED
    BY <2>1, <2>2, <2>3, CountsRows
<1>2. QED
  BY <1>1, ServiceInvariant, CountingHolds, PTL

\* Whatever comments, literals and brackets a query has, the planner refuses it just
\* when its last word outside them begins a clause; and Oracle runs the count that is
\* made of any other one which takes no locks.
THEOREM QueriesAreAccepted == ServiceSpec => []AcceptsQueries
<1>1. ServiceInv => AcceptsQueries
  <2>1. ServiceInv => text \in Texts
    BY DEF ServiceInv, ServiceTypes, Texts
  <2>2. QED
    BY <2>1, QueriesAccepted DEF AcceptsQueries, TypedQuery
<1>2. QED
  BY <1>1, ServiceInvariant, PTL

\* limit_query makes of these queries statements that Oracle runs, unless they take
\* locks, and that return the first max_rows, or all the rows of a query that limits
\* its rows outside brackets, comments and literals.
THEOREM LimitsAreKept == ServiceSpec => []LimitIsKept
<1>1. ServiceInv => LimitIsKept
  <2> DEFINE q == Intended(text)
             made == LimitQuery(text)
  <2> SUFFICES ASSUME ServiceInv, TypedQuery
               PROVE  /\ made = Refusal <=> EndsInClause(q)
                      /\ made # Refusal /\ ~ TakesLocks(q) => Runs(made)
                      /\ Runs(made) => \A n \in Sizes :
                           Value(made, n) = IF Has(q, "rownum") \/ Has(q, "fetch") THEN RowsOf(q, n)
                                            ELSE Least(MaxRows, RowsOf(q, n))
    <3>1. \A t : Has(t, "rownum") \/ Has(t, "fetch") <=>
                  \E i \in TopLevel(t, Visible(t, OracleModes(t))) : t[i] \in {"rownum", "fetch"}
      BY DEF Has, Tops, Sees
    <3>2. QED
      BY <3>1 DEF LimitIsKept
  <2>1. text \in Texts /\ IsQuery(q) /\ ~ NestsComments(text)
    BY DEF ServiceInv, ServiceTypes, Texts, TypedQuery
  <2>2. \A n \in Sizes : n \in Nat
    BY ServiceAssumption
  <2> HIDE DEF made
  <2>3. QED
    BY <2>1, <2>2, LimitsRows DEF made
<1>2. QED
  BY <1>1, ServiceInvariant, PTL

\* The check of generated SQL passes the same queries if they take no locks, and its
\* scan for tables finds what Oracle reads, but for tables after a comma and quoted
\* names, for all texts.
THEOREM QueriesAreChecked == ServiceSpec => []ChecksQueries
<1>1. ServiceInv /\ Counting => ChecksQueries
  <2> SUFFICES ASSUME ServiceInv, Counting, TypedQuery,
                      \A i \in DOMAIN text : text[i] \notin {"lock", "fence"}
               PROVE  /\ Enforced(text) <=> ~ EndsInClause(Intended(text))
                      /\ ~ QuotesInLiteral(text) =>
                           ReferencedTables(text) = TablesOf(text) \ Unlooked
    BY DEF ChecksQueries
  <2>1. text \in Texts /\ Len(text) > 0 /\ text[1] = "select"
    BY DEF ServiceInv, ServiceTypes, Texts, Counting
  <2>2. \A i \in 1 .. Len(text) : text[i] \notin {"lock", "fence"}
    BY <2>1, Lengths
  <2>3. QED
    BY <2>1, <2>2, QueriesEnforced DEF TypedQuery
<1>2. QED
  BY <1>1, ServiceInvariant, CountingHolds, PTL
==============================================================================
