-------------------------- MODULE TcbLists_proofs --------------------------
(***************************************************************************)
(* The pointer lists are well formed for any number of TCBs and lists: the *)
(* witness for each list after a call is the order ThreadLists promises.   *)
(* Reading that order off the pointers, as Walk does, they implement it.   *)
(***************************************************************************)
EXTENDS TcbLists, ThreadOrder_proofs

\* Every order a list represents is one of the finitely many Orders.
LEMMA OrdersOfDistinct ==
  ASSUME NEW s \in Seq(TCB), Distinct(s)
  PROVE  s \in Orders
BY DistinctLength, FiniteAssumption DEF Orders

\* The orders are sequences of TCBs.
LEMMA OrdersAreSeqs == \A s \in Orders : s \in Seq(TCB)
<1>1. Cardinality(TCB) \in Nat
  BY FS_CardinalityType, FiniteAssumption
<1>2. \A n \in 0..Cardinality(TCB) : n \in Nat
  BY <1>1
<1> QED
  BY <1>2, SeqDef DEF Orders

\* tcbll_Insert turns the ring of s into the ring of Append(s, t).
LEMMA InsertRepresents ==
  ASSUME TypeOK, NEW l \in TCBLL, NEW t \in TCB, tcbll_Insert(l, t),
         NEW s \in Seq(TCB), Represents(l, s)
  PROVE  Represents(l, Append(s, t))'
<1> DEFINE n == Len(s)
<1>0. PICK a : a = Append(s, t)
  OBVIOUS
<1>1. t \notin Members(s) /\ on[t] = NULL
  BY NullAssumption DEF tcbll_Insert, Represents
<1>2. a \in Seq(TCB) /\ Distinct(a) /\ Members(a) = Members(s) \cup {t}
  BY <1>0, <1>1, AppendDistinct DEF Represents
<1>3. /\ n \in Nat /\ Len(a) = n + 1
      /\ \A j \in 1..n : a[j] = s[j]
      /\ a[n + 1] = t
  BY <1>0
<1>4. \A j \in 1..n : s[j] \in TCB /\ s[j] # t
  BY <1>1 DEF Members
<1>5. Members(a) = {u \in TCB : on'[u] = l}
  BY <1>1, <1>2 DEF Represents, TypeOK, tcbll_Insert
<1>6. size'[l] = Len(a)
  BY <1>3 DEF Represents, TypeOK, tcbll_Insert
<1>7. \A i, j \in 1..n : s[i] = s[j] => i = j
  BY DEF Represents, Distinct
<1>8. ASSUME n = 0 PROVE Represents(l, a)'
  <2>1. size[l] = 0
    BY <1>8 DEF Represents
  <2>2. /\ head'[l] = t
        /\ next'[t] = t
        /\ previous'[t] = t
    BY <2>1 DEF TypeOK, tcbll_Insert
  <2> QED
    BY <1>2, <1>3, <1>5, <1>6, <1>8, <2>2 DEF Represents, After, Before
<1>9. ASSUME n # 0 PROVE Represents(l, a)'
  <2>1. /\ size[l] # 0 /\ head[l] = s[1] /\ previous[s[1]] = s[n]
    BY <1>3, <1>9 DEF Represents, Before
  <2>2. /\ head' = head
        /\ next' = [next EXCEPT ![s[n]] = t, ![t] = s[1]]
        /\ previous' = [previous EXCEPT ![s[1]] = t, ![t] = s[n]]
    BY <2>1 DEF tcbll_Insert
  <2>3. head'[l] = a[1]
    BY <1>3, <1>9, <2>1, <2>2
  <2>4. ASSUME NEW i \in 1..(n + 1)
        PROVE  /\ next'[a[i]] = a[After(i, n + 1)]
               /\ previous'[a[i]] = a[Before(i, n + 1)]
    <3>1. CASE i = n + 1
      BY <1>3, <1>4, <1>9, <2>2, <3>1 DEF TypeOK, After, Before
    <3>2. CASE i \in 1..n
      <4>1. next[s[i]] = s[After(i, n)] /\ previous[s[i]] = s[Before(i, n)]
        BY <3>2 DEF Represents
      <4>a. /\ s[i] = s[n] <=> i = n
            /\ s[i] = s[1] <=> i = 1
            /\ s[i] \in TCB /\ s[i] # t
        BY <1>3, <1>4, <1>7, <1>9, <3>2
      <4>2. next'[s[i]] = IF i = n THEN t ELSE next[s[i]]
        BY <2>2, <4>a DEF TypeOK
      <4>3. previous'[s[i]] = IF i = 1 THEN t ELSE previous[s[i]]
        BY <2>2, <4>a DEF TypeOK
      <4> QED
        BY <1>3, <1>9, <3>2, <4>1, <4>2, <4>3 DEF After, Before
    <3> QED
      BY <1>3, <3>1, <3>2
  <2> QED
    BY <1>2, <1>3, <1>5, <1>6, <1>9, <2>3, <2>4 DEF Represents
<1> QED
  BY <1>0, <1>3, <1>8, <1>9

\* tcbll_Remove turns the ring of s into the ring of Without(s, t).
LEMMA RemoveRepresents ==
  ASSUME TypeOK, NEW l \in TCBLL, NEW t \in TCB, tcbll_Remove(l, t),
         NEW s \in Seq(TCB), Represents(l, s)
  PROVE  t \in Members(s) /\ Represents(l, Without(s, t))'
<1> DEFINE n == Len(s)
<1>0. PICK p, d : p = PositionOf(s, t) /\ d = DropAt(s, p)
  OBVIOUS
<1>1. t \in Members(s)
  BY DEF Represents, tcbll_Remove
<1>2. p \in 1..n /\ s[p] = t
  BY <1>0, <1>1, PositionShape
<1>3. /\ d \in Seq(TCB) /\ Len(d) = n - 1
      /\ \A j \in 1..(n - 1) : d[j] = IF j < p THEN s[j] ELSE s[j + 1]
  BY <1>0, <1>2, DropAtShape
<1>4. Distinct(d) /\ Members(d) = Members(s) \ {t}
  BY <1>0, <1>2, DropAtDistinct DEF Represents
<1>5. n \in Nat /\ n > 0
  BY <1>2
<1>6. Members(d) = {u \in TCB : on'[u] = l}
  BY <1>4, NullAssumption DEF Represents, TypeOK, tcbll_Remove
<1>7. size[l] = n /\ size'[l] = Len(d)
  BY <1>3 DEF Represents, TypeOK, tcbll_Remove
<1>8. \A i, j \in 1..n : s[i] = s[j] => i = j
  BY DEF Represents, Distinct
<1>9. \A i \in 1..n : /\ s[i] \in TCB
                      /\ next[s[i]] = s[After(i, n)]
                      /\ previous[s[i]] = s[Before(i, n)]
  BY DEF Represents
<1>10. ASSUME n = 1 PROVE Represents(l, d)'
  <2>1. head'[l] = NULL
    BY <1>7, <1>10 DEF TypeOK, tcbll_Remove, RemoveOnly
  <2> QED
    BY <1>3, <1>4, <1>6, <1>7, <1>10, <2>1 DEF Represents
<1>11. ASSUME n > 1 PROVE Represents(l, d)'
  <2>1. RemoveLinked(l, t)
    BY <1>7, <1>11 DEF tcbll_Remove
  <2>2. After(p, n) \in 1..n /\ Before(p, n) \in 1..n
    BY <1>2, <1>5 DEF After, Before
  <2>3. next[t] = s[After(p, n)] /\ previous[t] = s[Before(p, n)]
    BY <1>2, <1>9
  <2>4. /\ next' = [next EXCEPT ![s[Before(p, n)]] = s[After(p, n)], ![t] = NULL]
        /\ previous' = [previous EXCEPT ![s[After(p, n)]] = s[Before(p, n)], ![t] = NULL]
    BY <2>1, <2>3 DEF RemoveLinked
  <2>5. head[l] = s[1]
    BY <1>5 DEF Represents
  <2>6. head'[l] = IF p = 1 THEN s[After(p, n)] ELSE s[1]
    BY <1>2, <1>5, <1>8, <2>1, <2>3, <2>5 DEF RemoveLinked, TypeOK
  <2>7. head'[l] = d[1]
    BY <1>2, <1>3, <1>11, <2>6 DEF After
  <2>8. \A i \in 1..n : i # p =>
          next'[s[i]] = s[IF i = Before(p, n) THEN After(p, n) ELSE After(i, n)]
    BY <1>2, <1>8, <1>9, <2>2, <2>4 DEF TypeOK
  <2>9. \A i \in 1..n : i # p =>
          previous'[s[i]] = s[IF i = After(p, n) THEN Before(p, n) ELSE Before(i, n)]
    BY <1>2, <1>8, <1>9, <2>2, <2>4 DEF TypeOK
  <2>10. ASSUME NEW j \in 1..(n - 1)
         PROVE  /\ next'[d[j]] = d[After(j, n - 1)]
                /\ previous'[d[j]] = d[Before(j, n - 1)]
    <3> DEFINE Shift(k) == IF k < p THEN k ELSE k + 1
    <3>a. /\ d[After(j, n - 1)] = s[Shift(After(j, n - 1))]
          /\ d[Before(j, n - 1)] = s[Shift(Before(j, n - 1))]
      BY <1>3, <1>5, <1>11 DEF After, Before
    <3>1. CASE j < p
      <4>1. d[j] = s[j] /\ j \in 1..n /\ j # p
        BY <1>2, <1>3, <1>5, <3>1
      <4>2. (IF j = Before(p, n) THEN After(p, n) ELSE After(j, n))
              = Shift(After(j, n - 1))
        BY <1>2, <1>5, <1>11, <3>1 DEF After, Before
      <4>3. (IF j = After(p, n) THEN Before(p, n) ELSE Before(j, n))
              = Shift(Before(j, n - 1))
        BY <1>2, <1>5, <1>11, <3>1 DEF After, Before
      <4> QED
        BY <2>8, <2>9, <3>a, <4>1, <4>2, <4>3
    <3>2. CASE j >= p
      <4>1. d[j] = s[j + 1] /\ j + 1 \in 1..n /\ j + 1 # p
        BY <1>2, <1>3, <1>5, <3>2
      <4>2. (IF j + 1 = Before(p, n) THEN After(p, n) ELSE After(j + 1, n))
              = Shift(After(j, n - 1))
        BY <1>2, <1>5, <1>11, <3>2 DEF After, Before
      <4>3. (IF j + 1 = After(p, n) THEN Before(p, n) ELSE Before(j + 1, n))
              = Shift(Before(j, n - 1))
        BY <1>2, <1>5, <1>11, <3>2 DEF After, Before
      <4> QED
        BY <2>8, <2>9, <3>a, <4>1, <4>2, <4>3
    <3> QED
      BY <1>2, <1>5, <3>1, <3>2
  <2> QED
    BY <1>3, <1>4, <1>6, <1>7, <1>11, <2>7, <2>10 DEF Represents
<1>12. n = 1 \/ n > 1
  <2>1. \A m \in Nat : m > 0 => m = 1 \/ m > 1
    OBVIOUS
  <2> QED
    BY <1>5, <2>1
<1>13. d = Without(s, t)
  BY <1>0 DEF Without
<1> QED
  BY <1>1, <1>10, <1>11, <1>12, <1>13

\* A call on list l leaves the ring of every other list k alone.
LEMMA OtherListsKept ==
  ASSUME TypeOK, NEW l \in TCBLL, NEW t \in TCB,
         tcbll_Insert(l, t) \/ tcbll_Remove(l, t),
         NEW r \in Seq(TCB), Represents(l, r),
         NEW k \in TCBLL, k # l, NEW s \in Seq(TCB), Represents(k, s)
  PROVE  Represents(k, s)'
<1>1. \A i \in 1..Len(s) : s[i] \in TCB /\ on[s[i]] = k
  BY DEF Represents, Members
<1>2. \A i \in 1..Len(r) : r[i] \in TCB /\ on[r[i]] = l
  BY DEF Represents, Members
<1>3. on[t] = NULL \/ on[t] = l
  BY DEF tcbll_Insert, tcbll_Remove
<1>4. on[t] # k
  BY <1>3, NullAssumption
<1>5. /\ size'[k] = size[k]
      /\ head'[k] = head[k]
      /\ \A u \in TCB : (on'[u] = k) <=> (on[u] = k)
  BY <1>4, NullAssumption DEF TypeOK, tcbll_Insert, tcbll_Remove, RemoveLinked, RemoveOnly
<1>6. \A u \in TCB : on[u] = k => next'[u] = next[u] /\ previous'[u] = previous[u]
  <2>1. CASE tcbll_Insert(l, t)
    <3>1. CASE size[l] = 0
      BY <1>4, <2>1, <3>1 DEF TypeOK, tcbll_Insert
    <3>2. CASE size[l] # 0
      <4>1. Len(r) \in Nat /\ Len(r) # 0 /\ head[l] = r[1]
        BY <3>2 DEF Represents
      <4>2. previous[head[l]] = r[Len(r)] /\ on[r[1]] = l /\ on[r[Len(r)]] = l
        BY <1>2, <4>1 DEF Represents, Before
      <4> QED
        BY <1>4, <2>1, <3>2, <4>1, <4>2 DEF TypeOK, tcbll_Insert
    <3> QED
      BY <3>1, <3>2
  <2>2. CASE tcbll_Remove(l, t)
    <3>1. CASE size[l] > 1
      <4>1. PICK p \in 1..Len(r) : r[p] = t
        BY <2>2 DEF tcbll_Remove, Represents, Members
      <4>2. After(p, Len(r)) \in 1..Len(r) /\ Before(p, Len(r)) \in 1..Len(r)
        BY DEF After, Before
      <4>3. on[next[t]] = l /\ on[previous[t]] = l
        BY <1>2, <4>1, <4>2 DEF Represents
      <4> QED
        BY <1>4, <2>2, <3>1, <4>3 DEF TypeOK, tcbll_Remove, RemoveLinked
    <3>2. CASE ~(size[l] > 1)
      BY <1>4, <2>2, <3>2 DEF TypeOK, tcbll_Remove, RemoveOnly
    <3> QED
      BY <3>1, <3>2
  <2> QED
    BY <2>1, <2>2
<1> QED
  BY <1>1, <1>5, <1>6 DEF Represents

\* The other half of the type invariant: no call leaves the types.
LEMMA TypePreserved ==
  ASSUME TypeOK, WellFormed, NEW l \in TCBLL, NEW t \in TCB,
         tcbll_Insert(l, t) \/ tcbll_Remove(l, t)
  PROVE  TypeOK'
<1>1. PICK r \in Orders : Represents(l, r)
  BY DEF WellFormed
<1>2. r \in Seq(TCB)
  BY OrdersAreSeqs
<1>3. \A i \in 1..Len(r) : r[i] \in TCB
  BY <1>2
<1>4. CASE tcbll_Insert(l, t)
  <2>1. size[l] # 0 => head[l] \in TCB /\ previous[head[l]] \in TCB
    BY <1>1, <1>2, <1>3 DEF Represents, Before
  <2> QED
    BY <1>4, <2>1 DEF TypeOK, tcbll_Insert
<1>5. CASE tcbll_Remove(l, t)
  <2>1. t \in Members(r)
    BY <1>1, <1>5 DEF Represents, tcbll_Remove
  <2>2. PICK p \in 1..Len(r) : r[p] = t
    BY <2>1 DEF Members
  <2>3. size[l] \in Nat /\ size[l] > 0
    BY <1>1, <1>2, <2>2 DEF Represents
  <2>4. After(p, Len(r)) \in 1..Len(r) /\ Before(p, Len(r)) \in 1..Len(r)
    BY <1>2 DEF After, Before
  <2>5. next[t] \in TCB /\ previous[t] \in TCB
    BY <1>1, <1>3, <2>2, <2>4 DEF Represents
  <2>6. size'[l] \in Nat
    BY <1>5, <2>3 DEF TypeOK, tcbll_Remove
  <2>7. next' \in [TCB -> TCB \cup {NULL}] /\ previous' \in [TCB -> TCB \cup {NULL}]
    BY <1>5, <2>5 DEF TypeOK, tcbll_Remove, RemoveLinked, RemoveOnly
  <2>8. head' \in [TCBLL -> TCB \cup {NULL}]
    BY <1>5, <2>5 DEF TypeOK, tcbll_Remove, RemoveLinked, RemoveOnly
  <2> QED
    BY <1>5, <2>6, <2>7, <2>8 DEF TypeOK, tcbll_Remove
<1> QED
  BY <1>4, <1>5

\* Every call leaves all lists well formed, each list in the order that
\* ThreadLists promises for the call.
LEMMA WellFormedPreserved ==
  ASSUME TypeOK, WellFormed, NEW l \in TCBLL, NEW t \in TCB,
         tcbll_Insert(l, t) \/ tcbll_Remove(l, t)
  PROVE  WellFormed'
<1>1. PICK r \in Orders : Represents(l, r)
  BY DEF WellFormed
<1>2. r \in Seq(TCB)
  BY OrdersAreSeqs
<1>3. PICK q \in Seq(TCB) : Represents(l, q)'
  <2>1. CASE tcbll_Insert(l, t)
    <3>1. Append(r, t) \in Seq(TCB) /\ Represents(l, Append(r, t))'
      BY <1>1, <1>2, <2>1, InsertRepresents
    <3> QED
      BY <3>1
  <2>2. CASE tcbll_Remove(l, t)
    <3>1. t \in Members(r) /\ Represents(l, Without(r, t))'
      BY <1>1, <1>2, <2>2, RemoveRepresents
    <3>2. Without(r, t) \in Seq(TCB)
      BY <1>1, <1>2, <3>1, WithoutDistinct DEF Represents
    <3> QED
      BY <3>1, <3>2
  <2> QED
    BY <2>1, <2>2
<1>4. q \in Orders
  BY <1>3, OrdersOfDistinct DEF Represents
<1>5. ASSUME NEW k \in TCBLL
      PROVE  \E s \in Orders : Represents(k, s)'
  <2>1. CASE k = l
    BY <1>3, <1>4, <2>1
  <2>2. CASE k # l
    <3>1. PICK s \in Orders : Represents(k, s)
      BY DEF WellFormed
    <3>2. s \in Seq(TCB)
      BY OrdersAreSeqs
    <3>3. Represents(k, s)'
      BY <1>1, <1>2, <2>2, <3>1, <3>2, OtherListsKept
    <3> QED
      BY <3>3
  <2> QED
    BY <2>1, <2>2
<1>6. ASSUME NEW u \in TCB, on'[u] = NULL
      PROVE  next'[u] = NULL /\ previous'[u] = NULL
  <2>1. CASE tcbll_Insert(l, t)
    <3>1. u # t /\ on[u] = NULL
      BY <1>6, <2>1, NullAssumption DEF TypeOK, tcbll_Insert
    <3>2. next[u] = NULL /\ previous[u] = NULL
      BY <3>1 DEF WellFormed
    <3>3. size[l] # 0 => u # head[l] /\ u # previous[head[l]]
      <4>1. \A i \in 1..Len(r) : r[i] # u
        BY <1>1, <3>1, NullAssumption DEF Represents, Members
      <4> QED
        BY <1>1, <1>2, <4>1 DEF Represents, Before
    <3> QED
      BY <2>1, <3>1, <3>2, <3>3 DEF TypeOK, tcbll_Insert
  <2>2. CASE tcbll_Remove(l, t)
    <3>1. CASE u = t
      BY <2>2, <3>1 DEF TypeOK, tcbll_Remove, RemoveLinked, RemoveOnly
    <3>2. CASE u # t
      <4>1. on[u] = NULL
        BY <1>6, <2>2, <3>2 DEF TypeOK, tcbll_Remove
      <4>2. next[u] = NULL /\ previous[u] = NULL
        BY <4>1 DEF WellFormed
      <4>3. \A i \in 1..Len(r) : r[i] # u
        BY <1>1, <4>1, NullAssumption DEF Represents, Members
      <4>4. PICK p \in 1..Len(r) : r[p] = t
        BY <1>1, <2>2 DEF Represents, Members, tcbll_Remove
      <4>5. After(p, Len(r)) \in 1..Len(r) /\ Before(p, Len(r)) \in 1..Len(r)
        BY <1>2 DEF After, Before
      <4>6. next[t] # u /\ previous[t] # u
        BY <1>1, <4>3, <4>4, <4>5 DEF Represents
      <4> QED
        BY <2>2, <3>2, <4>2, <4>6 DEF TypeOK, tcbll_Remove, RemoveLinked, RemoveOnly
    <3> QED
      BY <3>1, <3>2
  <2> QED
    BY <2>1, <2>2
<1> QED
  BY <1>5, <1>6 DEF WellFormed

\* Whatever calls the kernel makes, in whatever order, every thread list is
\* one sound ring of exactly its own threads (G8RTOS_Structures.c 3-48).
THEOREM ListsAlwaysWellFormed == Spec => [](TypeOK /\ WellFormed)
<1>1. Init => TypeOK /\ WellFormed
  <2> SUFFICES ASSUME Init PROVE TypeOK /\ WellFormed
    OBVIOUS
  <2>1. << >> \in Seq(TCB) /\ Len(<< >>) = 0
    OBVIOUS
  <2>2. Distinct(<< >>) /\ Members(<< >>) = {}
    BY <2>1 DEF Distinct, Members
  <2>3. << >> \in Orders
    BY <2>1, <2>2, OrdersOfDistinct
  <2>4. \A l \in TCBLL : Represents(l, << >>)
    BY <2>1, <2>2, NullAssumption DEF Init, Represents
  <2>5. TypeOK
    BY DEF Init, TypeOK
  <2> QED
    BY <2>3, <2>4, <2>5 DEF WellFormed, Init
<1>2. TypeOK /\ WellFormed /\ [Next]_vars => (TypeOK /\ WellFormed)'
  <2> SUFFICES ASSUME TypeOK, WellFormed, [Next]_vars
               PROVE  TypeOK' /\ WellFormed'
    OBVIOUS
  <2>1. CASE Next
    BY <2>1, TypePreserved, WellFormedPreserved DEF Next
  <2>2. CASE UNCHANGED vars
    BY <2>2 DEF vars, TypeOK, WellFormed, Represents
  <2> QED
    BY <2>1, <2>2
<1> QED
  BY <1>1, <1>2, PTL DEF Spec

\* The pointers, headers and sizes keep their types; a size never goes below
\* zero, since a thread is taken only off the list it is on.
THEOREM ListsTypeCorrect == Spec => []TypeOK
<1>1. TypeOK /\ WellFormed => TypeOK
  OBVIOUS
<1> QED
  BY <1>1, ListsAlwaysWellFormed, PTL
-----------------------------------------------------------------------------
\* Walking next from the head spells out the ring.
LEMMA WalkSpells ==
  ASSUME NEW l \in TCBLL, NEW s \in Seq(TCB), Represents(l, s)
  PROVE  Walk(l) = s
<1> DEFINE n == Len(s)
           Step(f) == [i \in 1..n |-> IF i = 1 THEN head[l] ELSE next[f[i - 1]]]
           reach == CHOOSE f : f = Step(f)
<1>1. n \in Nat /\ size[l] = n
  BY DEF Represents
<1>2. Walk(l) = [i \in 1..n |-> reach[i]]
  BY <1>1 DEF Walk
<1>3. s = [i \in 1..n |-> s[i]]
  OBVIOUS
<1>4. \A i \in 1..n : s[i] = IF i = 1 THEN head[l] ELSE next[s[i - 1]]
  BY <1>1 DEF Represents, After
<1>5. s = Step(s)
  BY <1>3, <1>4
<1>6. reach = Step(reach)
  BY <1>5
<1> HIDE DEF reach
<1>7. \A i \in 1..n : reach[i] = IF i = 1 THEN head[l] ELSE next[reach[i - 1]]
  BY <1>6
<1>8. ASSUME NEW j \in 1..n, reach[j] # s[j] PROVE FALSE
  <2> DEFINE T == {i \in 1..n : reach[i] # s[i]}
  <2>1. T \in SUBSET Nat /\ T # {}
    BY <1>1, <1>8
  <2>2. PICK m \in T : \A k \in T : m <= k
    BY <2>1, LeastNatural
  <2>3. m # 1 /\ m - 1 \in 1..n /\ m - 1 \notin T
    BY <1>1, <1>4, <1>7, <2>2
  <2> QED
    BY <1>4, <1>7, <2>2, <2>3
<1> QED
  BY <1>2, <1>3, <1>8


\* The order walked is a sequence, and one that the pointers represent.
LEMMA WalkRepresents ==
  ASSUME WellFormed, NEW l \in TCBLL
  PROVE  Walk(l) \in Seq(TCB) /\ Represents(l, Walk(l))
<1>1. PICK s \in Orders : Represents(l, s)
  BY DEF WellFormed
<1>2. s \in Seq(TCB)
  BY OrdersAreSeqs
<1> QED
  BY <1>1, <1>2, WalkSpells

\* What is walked after a step is what the pointers represent then.
LEMMA WalkAfter ==
  ASSUME NEW l \in TCBLL, NEW s \in Seq(TCB)
  PROVE  (Represents(l, s) => Walk(l) = s)'
<1>1. Represents(l, s) => Walk(l) = s
  BY WalkSpells
<1> QED
  BY <1>1, PTL

\* ThreadLists reads the sequences with the operators of ThreadOrder.
LEMMA SameOperators ==
  \A s, t : Abstract!Members(s) = Members(s) /\ Abstract!Without(s, t) = Without(s, t)
BY DEF Abstract!Members, Members, Abstract!Without, Without, Abstract!DropAt, DropAt,
       Abstract!PositionOf, PositionOf

\* A list that a call is not about is walked as before.
LEMMA OtherWalksKept ==
  ASSUME TypeOK, WellFormed, NEW l \in TCBLL, NEW t \in TCB,
         tcbll_Insert(l, t) \/ tcbll_Remove(l, t), NEW k \in TCBLL, k # l
  PROVE  Walk(k)' = Walk(k)
<1>1. PICK r, s : r = Walk(l) /\ s = Walk(k)
  OBVIOUS
<1>2. r \in Seq(TCB) /\ Represents(l, r) /\ s \in Seq(TCB) /\ Represents(k, s)
  BY <1>1, WalkRepresents
<1>3. Represents(k, s)'
  BY <1>2, OtherListsKept
<1> QED
  BY <1>1, <1>2, <1>3, WalkAfter

\* tcbll_Insert is Insert, and tcbll_Remove is Remove.
LEMMA InsertImplements ==
  ASSUME TypeOK, WellFormed, NEW l \in TCBLL, NEW t \in TCB, tcbll_Insert(l, t)
  PROVE  Abstract!Insert(l, t)
<1>1. \A k \in TCBLL : Walk(k)' = IF k = l THEN Append(Walk(l), t) ELSE Walk(k)
  <2>1. PICK s : s = Walk(l)
    OBVIOUS
  <2>2. s \in Seq(TCB) /\ Represents(l, s)
    BY <2>1, WalkRepresents
  <2>3. Append(s, t) \in Seq(TCB) /\ Represents(l, Append(s, t))'
    BY <2>2, InsertRepresents
  <2>4. Walk(l)' = Append(Walk(l), t)
    BY <2>1, <2>3, WalkAfter
  <2> QED
    BY <2>4, OtherWalksKept
<1>2. \A k \in TCBLL : t \notin Members(Walk(k))
  BY WalkRepresents, NullAssumption DEF Represents, tcbll_Insert
<1> QED
  BY <1>1, <1>2, SameOperators DEF Abstract!Insert

LEMMA RemoveImplements ==
  ASSUME TypeOK, WellFormed, NEW l \in TCBLL, NEW t \in TCB, tcbll_Remove(l, t)
  PROVE  Abstract!Remove(l, t)
<1>1. PICK s : s = Walk(l)
  OBVIOUS
<1>2. s \in Seq(TCB) /\ Represents(l, s)
  BY <1>1, WalkRepresents
<1>3. t \in Members(s) /\ Represents(l, Without(s, t))'
  BY <1>2, RemoveRepresents
<1>4. Without(s, t) \in Seq(TCB)
  BY <1>2, <1>3, WithoutDistinct DEF Represents
<1>5. Walk(l)' = Without(Walk(l), t)
  BY <1>1, <1>3, <1>4, WalkAfter
<1>6. \A k \in TCBLL : Walk(k)' = IF k = l THEN Without(Walk(l), t) ELSE Walk(k)
  BY <1>5, OtherWalksKept
<1> QED
  BY <1>1, <1>3, <1>6, SameOperators DEF Abstract!Remove

\* The pointers implement the sequences: every walk is empty at first, and every call
\* does to the walks what ThreadLists says of it (G8RTOS_Structures.c 3-48).
THEOREM ListsImplementThreadLists == Spec => ImplementsThreadLists
<1> DEFINE walks == [l \in TCBLL |-> Walk(l)]
<1>1. Init => Abstract!Init
  <2> SUFFICES ASSUME Init, NEW l \in TCBLL PROVE Walk(l) = << >>
    BY DEF Abstract!Init
  <2> QED
    BY DEF Init, Walk
<1>2. TypeOK /\ WellFormed /\ [Next]_vars => [Abstract!Next]_walks
  <2> SUFFICES ASSUME TypeOK, WellFormed, [Next]_vars PROVE [Abstract!Next]_walks
    OBVIOUS
  <2>1. CASE Next
    BY <2>1, InsertImplements, RemoveImplements DEF Next, Abstract!Next
  <2>2. CASE UNCHANGED vars
    BY <2>2 DEF vars, Walk
  <2> QED
    BY <2>1, <2>2
<1> QED
  BY <1>1, <1>2, ListsAlwaysWellFormed, PTL DEF Spec, ImplementsThreadLists, Abstract!Spec
=============================================================================
