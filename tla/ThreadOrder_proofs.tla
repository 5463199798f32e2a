------------------------- MODULE ThreadOrder_proofs -------------------------
(***************************************************************************)
(* What the list operators of ThreadOrder return, for lists of any length. *)
(***************************************************************************)
EXTENDS ThreadOrder, FiniteSets, FiniteSetTheorems, SequenceTheorems,
        WellFoundedInduction, TLAPS

\* DropAt shortens a list by one and moves up what stood behind position i.
LEMMA DropAtShape ==
  ASSUME NEW S, NEW s \in Seq(S), NEW i \in 1..Len(s)
  PROVE  /\ DropAt(s, i) \in Seq(S)
         /\ Len(DropAt(s, i)) = Len(s) - 1
         /\ \A j \in 1..(Len(s) - 1) :
               DropAt(s, i)[j] = IF j < i THEN s[j] ELSE s[j + 1]
<1> DEFINE n == Len(s) - 1
<1> DEFINE d == DropAt(s, i)
<1>1. Len(s) \in Nat /\ n \in Nat
  OBVIOUS
<1>2. \A j \in 1..n : s[j] \in S /\ s[j + 1] \in S
  BY <1>1
<1>3. d \in [1..n -> S]
  BY <1>1, <1>2 DEF DropAt
<1>4. d \in Seq(S)
  BY <1>1, <1>3, SeqDef
<1>5. Len(d) = n
  BY <1>1, <1>3, <1>4, LenProperties
<1> QED
  BY <1>1, <1>4, <1>5 DEF DropAt

\* A thread of a list stands at its position.
LEMMA PositionShape ==
  ASSUME NEW S, NEW s \in Seq(S), NEW t \in Members(s)
  PROVE  PositionOf(s, t) \in 1..Len(s) /\ s[PositionOf(s, t)] = t
<1>1. \E i \in 1..Len(s) : s[i] = t
  BY DEF Members
<1> QED
  BY <1>1 DEF PositionOf

\* Dropping one position of a list without repetition takes out that thread
\* only, and repeats nothing.
LEMMA DropAtDistinct ==
  ASSUME NEW S, NEW s \in Seq(S), Distinct(s), NEW i \in 1..Len(s)
  PROVE  /\ Distinct(DropAt(s, i))
         /\ Members(DropAt(s, i)) = Members(s) \ {s[i]}
<1> DEFINE d == DropAt(s, i)
<1>1. /\ d \in Seq(S)
      /\ Len(d) = Len(s) - 1
      /\ \A j \in 1..(Len(s) - 1) : d[j] = IF j < i THEN s[j] ELSE s[j + 1]
  BY DropAtShape
<1>2. Len(s) \in Nat
  OBVIOUS
<1> HIDE DEF d
<1>3. Distinct(d)
  BY <1>1, <1>2 DEF Distinct
<1>4. Members(d) \subseteq Members(s) \ {s[i]}
  BY <1>1, <1>2 DEF Distinct, Members
<1>5. ASSUME NEW x \in Members(s) \ {s[i]}
      PROVE  x \in Members(d)
  <2>1. PICK j \in 1..Len(s) : s[j] = x
    BY DEF Members
  <2>2. j # i
    BY <2>1, <1>5
  <2>3. CASE j < i
    <3>1. j \in 1..Len(d) /\ d[j] = x
      BY <1>1, <1>2, <2>1, <2>3
    <3> QED
      BY <3>1 DEF Members
  <2>4. CASE j > i
    <3>1. j - 1 \in 1..Len(d) /\ d[j - 1] = x
      BY <1>1, <1>2, <2>1, <2>4
    <3> QED
      BY <3>1 DEF Members
  <2> QED
    BY <2>2, <2>3, <2>4
<1> QED
  BY <1>3, <1>4, <1>5 DEF d

\* The same for the removal of a thread by name.
LEMMA WithoutDistinct ==
  ASSUME NEW S, NEW s \in Seq(S), Distinct(s), NEW t \in Members(s)
  PROVE  /\ Without(s, t) \in Seq(S)
         /\ Len(Without(s, t)) = Len(s) - 1
         /\ Distinct(Without(s, t))
         /\ Members(Without(s, t)) = Members(s) \ {t}
BY PositionShape, DropAtShape, DropAtDistinct DEF Without

\* Appending a thread that is not on the list yet.
LEMMA AppendDistinct ==
  ASSUME NEW S, NEW s \in Seq(S), Distinct(s), NEW t \in S, t \notin Members(s)
  PROVE  /\ Append(s, t) \in Seq(S)
         /\ Distinct(Append(s, t))
         /\ Members(Append(s, t)) = Members(s) \cup {t}
<1> DEFINE a == Append(s, t)
<1>1. /\ a \in Seq(S)
      /\ Len(a) = Len(s) + 1
      /\ \A j \in 1..Len(s) : a[j] = s[j]
      /\ a[Len(s) + 1] = t
  OBVIOUS
<1>2. Len(s) \in Nat
  OBVIOUS
<1> HIDE DEF a
<1>3. Distinct(a)
  BY <1>1, <1>2 DEF Distinct, Members
<1>4. Members(a) \subseteq Members(s) \cup {t}
  BY <1>1, <1>2 DEF Members
<1>5. \A j \in 1..Len(s) : j \in 1..Len(a) /\ a[j] = s[j]
  BY <1>1, <1>2
<1>6. Members(s) \subseteq Members(a)
  BY <1>5 DEF Members
<1>7. t \in Members(a)
  BY <1>1, <1>2 DEF Members
<1> QED
  BY <1>1, <1>3, <1>4, <1>6, <1>7 DEF a

\* A list of distinct threads is no longer than there are threads.
LEMMA DistinctLength ==
  ASSUME NEW S, IsFiniteSet(S), NEW s \in Seq(S), Distinct(s)
  PROVE  Len(s) \in 0..Cardinality(S) /\ s \in [1..Len(s) -> S]
<1>1. Len(s) \in Nat /\ s \in [1..Len(s) -> S]
  BY LenProperties
<1>2. s \in Injection(1..Len(s), S)
  BY <1>1 DEF Injection, IsInjective, Distinct
<1>3. Cardinality(1..Len(s)) <= Cardinality(S)
  BY <1>1, <1>2, FS_Injection
<1>4. Cardinality(1..Len(s)) = Len(s)
  BY <1>1, FS_Interval
<1>5. Cardinality(S) \in Nat
  BY FS_CardinalityType
<1> QED
  BY <1>1, <1>3, <1>4, <1>5
-----------------------------------------------------------------------------
\* Every set of naturals but the empty one has a least element.
LEMMA LeastNatural ==
  ASSUME NEW T \in SUBSET Nat, T # {}
  PROVE  \E m \in T : \A k \in T : m <= k
<1> DEFINE R == OpToRel(<, Nat)
<1>1. IsWellFoundedOn(R, Nat)
  BY NatLessThanWellFounded
<1>2. \A x, y \in Nat : x < y => <<x, y>> \in R
  BY DEF OpToRel
<1> HIDE DEF R
<1>3. PICK m \in T : \A y \in T : ~(<<y, m>> \in R)
  BY <1>1, WFMin
<1>4. \A y \in T : y \in Nat /\ m \in Nat /\ ~(y < m)
  BY <1>2, <1>3
<1> QED
  BY <1>3, <1>4

\* A set of numbers that contains 0 and, with each number below n, the next.
LEMMA ClimbsTo ==
  ASSUME NEW n \in Nat, NEW T, 0 \in T,
         \A i \in 1..n : i - 1 \in T => i \in T
  PROVE  \A i \in 0..n : i \in T
<1> SUFFICES ASSUME NEW j \in 0..n, j \notin T PROVE FALSE
  OBVIOUS
<1> DEFINE Out == {i \in 0..n : i \notin T}
<1>1. Out \in SUBSET Nat /\ Out # {}
  OBVIOUS
<1>2. PICK m \in Out : \A k \in Out : m <= k
  BY <1>1, LeastNatural
<1>3. m # 0 /\ m \in 1..n /\ m - 1 \in 0..n /\ m - 1 \notin Out
  BY <1>2
<1> QED
  BY <1>2, <1>3

\* Function f of the number of turns made is a loop of n turns, and each turn
\* establishes what Inv says of it.
IsLoop(f, n, start, body, Inv) ==
  /\ f = [i \in 0..n |-> IF i = 0 THEN start ELSE body[i][f[i - 1]]]
  /\ \A i \in 0..n : f[i] \in Inv[i]

\* A loop of n turns, written as a function of the number of turns made, is
\* well defined, and what each turn establishes for the next holds throughout.
LEMMA LoopRuns ==
  ASSUME NEW n \in Nat, NEW Inv, NEW body, NEW start \in Inv[0],
         \A i \in 1..n : \A x \in Inv[i - 1] : body[i][x] \in Inv[i]
  PROVE  \E f : IsLoop(f, n, start, body, Inv)
<1> USE DEF IsLoop
<1> DEFINE T == {m \in 0..n : \E f : IsLoop(f, m, start, body, Inv)}
<1>1. 0 \in T
  <2>1. PICK f : f = [i \in 0..0 |-> start]
    OBVIOUS
  <2>2. IsLoop(f, 0, start, body, Inv)
    BY <2>1
  <2> QED
    BY <2>2
<1>2. ASSUME NEW m \in 1..n, m - 1 \in T PROVE m \in T
  <2>1. PICK f : IsLoop(f, m - 1, start, body, Inv)
    BY <1>2
  <2>2. PICK g : g = [i \in 0..m |-> IF i = m THEN body[m][f[m - 1]] ELSE f[i]]
    OBVIOUS
  <2>3. /\ \A i \in 0..(m - 1) : i # m /\ i \in 0..m /\ g[i] = f[i]
        /\ g[m] = body[m][f[m - 1]] /\ m - 1 \in 0..(m - 1)
        /\ \A i \in 0..m : i = m \/ i \in 0..(m - 1)
    BY <2>2
  <2>4. \A i \in 0..m : g[i] \in Inv[i]
    BY <2>1, <2>3, <1>2
  <2>5. \A i \in 0..m : g[i] = IF i = 0 THEN start ELSE body[i][g[i - 1]]
    <3> SUFFICES ASSUME NEW i \in 0..m
                 PROVE  g[i] = IF i = 0 THEN start ELSE body[i][g[i - 1]]
      OBVIOUS
    <3>1. CASE i = m
      BY <2>3, <3>1
    <3>2. CASE i # m
      <4>1. i \in 0..(m - 1) /\ (i # 0 => i - 1 \in 0..(m - 1))
        BY <3>2
      <4>2. f[i] = IF i = 0 THEN start ELSE body[i][f[i - 1]]
        BY <2>1, <4>1
      <4> QED
        BY <2>3, <4>1, <4>2
    <3> QED
      BY <3>1, <3>2
  <2>6. g = [i \in 0..m |-> IF i = 0 THEN start ELSE body[i][g[i - 1]]]
    BY <2>2, <2>5
  <2> QED
    BY <2>4, <2>6
<1> HIDE DEF T
<1>3. \A i \in 0..n : i \in T
  BY <1>1, <1>2, ClimbsTo
<1>4. n \in T
  BY <1>3
<1> QED
  BY <1>4 DEF T
=============================================================================
