------------------------------ MODULE TcbLists ------------------------------
(***************************************************************************)
(* The circular doubly linked thread lists of G8RTOS_Structures.c, at the  *)
(* level of the next and previous pointers that all lists share (a TCB has *)
(* one pair of them, whichever list it is in).                             *)
(***************************************************************************)
EXTENDS ThreadOrder, FiniteSets

CONSTANTS TCB,      \* threadControlBlocks
          TCBLL,    \* runningThreads, blockedThreads, sleepingThreads
          NULL

ASSUME NullAssumption == NULL \notin TCB /\ NULL \notin TCBLL
ASSUME FiniteAssumption == IsFiniteSet(TCB)

VARIABLES next, previous,   \* the links of each TCB
          head, size,       \* the header of each list
          on                \* the list a TCB is in, which the kernel reads off
                            \* its flags (IsThreadSleeping, IsThreadBlocked)

vars == <<next, previous, head, size, on>>

TypeOK ==
  /\ next \in [TCB -> TCB \cup {NULL}]
  /\ previous \in [TCB -> TCB \cup {NULL}]
  /\ head \in [TCBLL -> TCB \cup {NULL}]
  /\ size \in [TCBLL -> Nat]
  /\ on \in [TCB -> TCBLL \cup {NULL}]

Init ==
  /\ next = [t \in TCB |-> NULL]
  /\ previous = [t \in TCB |-> NULL]
  /\ head = [l \in TCBLL |-> NULL]
  /\ size = [l \in TCBLL |-> 0]
  /\ on = [t \in TCB |-> NULL]

\* Mutant of tcbll_Insert: every thread goes in at the front.
InsertInFront(l, t) ==
  LET empty == size[l] = 0
      left  == IF empty THEN t ELSE previous[head[l]]
      right == IF empty THEN t ELSE head[l]
  IN  /\ on[t] = NULL
      /\ head' = [head EXCEPT ![l] = t]
      /\ next' = [next EXCEPT ![left] = t, ![t] = right]
      /\ previous' = [previous EXCEPT ![right] = t, ![t] = left]
      /\ size' = [size EXCEPT ![l] = @ + 1]
      /\ on' = [on EXCEPT ![t] = l]

tcbll_Insert(l, t) ==
  LET empty == size[l] = 0
      left  == IF empty THEN t ELSE previous[head[l]]
      right == IF empty THEN t ELSE head[l]
  IN  /\ on[t] = NULL
      /\ head' = IF empty THEN [head EXCEPT ![l] = t] ELSE head
      /\ next' = [next EXCEPT ![left] = t, ![t] = right]
      /\ previous' = [previous EXCEPT ![right] = t, ![t] = left]
      /\ size' = [size EXCEPT ![l] = @ + 1]
      /\ on' = [on EXCEPT ![t] = l]

\* The last thread of a list: only the header has to forget it.
RemoveOnly(l, t) ==
  /\ head' = [head EXCEPT ![l] = NULL]
  /\ next' = [next EXCEPT ![t] = NULL]
  /\ previous' = [previous EXCEPT ![t] = NULL]

\* Mutant of RemoveLinked: the head does not move on.
RemoveKeepingHead(l, t) ==
  LET left  == previous[t]
      right == next[t]
  IN  /\ next' = [next EXCEPT ![left] = right, ![t] = NULL]
      /\ previous' = [previous EXCEPT ![right] = left, ![t] = NULL]
      /\ UNCHANGED head

\* One of several: its neighbours are linked, and the head moves on if needed.
RemoveLinked(l, t) ==
  LET left  == previous[t]
      right == next[t]
  IN  /\ head' = [head EXCEPT ![l] = IF @ = t THEN right ELSE @]
      /\ next' = [next EXCEPT ![left] = right, ![t] = NULL]
      /\ previous' = [previous EXCEPT ![right] = left, ![t] = NULL]

\* Mutant of tcbll_Remove: from whichever list the caller names.
RemoveFromAny(l, t) ==
  /\ IF size[l] > 1 THEN RemoveLinked(l, t) ELSE RemoveOnly(l, t)
  /\ size' = [size EXCEPT ![l] = @ - 1]
  /\ on' = [on EXCEPT ![t] = NULL]

tcbll_Remove(l, t) ==
  /\ on[t] = l
  /\ IF size[l] > 1 THEN RemoveLinked(l, t) ELSE RemoveOnly(l, t)
  /\ size' = [size EXCEPT ![l] = @ - 1]
  /\ on' = [on EXCEPT ![t] = NULL]

Next == \E l \in TCBLL, t \in TCB : tcbll_Insert(l, t) \/ tcbll_Remove(l, t)

Spec == Init /\ [][Next]_vars
-----------------------------------------------------------------------------
\* The neighbours of position i on a ring of n.
After(i, n) == IF i = n THEN 1 ELSE i + 1
Before(i, n) == IF i = 1 THEN n ELSE i - 1

\* The pointers of list l form the single ring that s spells out, both ways
\* round, and s holds exactly the threads whose flags put them in l.
Represents(l, s) ==
  /\ Distinct(s)
  /\ Members(s) = {t \in TCB : on[t] = l}
  /\ size[l] = Len(s)
  /\ head[l] = IF Len(s) = 0 THEN NULL ELSE s[1]
  /\ \A i \in 1..Len(s) : /\ next[s[i]] = s[After(i, Len(s))]
                          /\ previous[s[i]] = s[Before(i, Len(s))]

\* The orders a list of distinct threads can have.
Orders == UNION {[1..n -> TCB] : n \in 0..Cardinality(TCB)}

(***************************************************************************)
(* Every list is at all times one ring through all its threads and no      *)
(* other, in which next and previous undo each other, with the right head  *)
(* and size; a TCB in no list has no links.  Were two rings ever to share a*)
(* TCB, or a removal to cut a ring in two, the scheduler would lose        *)
(* threads (G8RTOS_Structures.c 3-48).                                     *)
(***************************************************************************)
WellFormed ==
  /\ \A l \in TCBLL : \E s \in Orders : Represents(l, s)
  /\ \A t \in TCB : on[t] = NULL => next[t] = NULL /\ previous[t] = NULL

\* The order of list l, read as the scheduler does: from the head along next.
Walk(l) ==
  LET reach[i \in 1..size[l]] == IF i = 1 THEN head[l] ELSE next[reach[i - 1]]
  IN  [i \in 1..size[l] |-> reach[i]]

Abstract == INSTANCE ThreadLists WITH order <- [l \in TCBLL |-> Walk(l)]

(***************************************************************************)
(* The pointers implement the sequences of ThreadLists: walking next from  *)
(* the head, tcbll_Insert appends and tcbll_Remove takes out one thread and*)
(* keeps the order of the rest, in every list at once.                     *)
(***************************************************************************)
ImplementsThreadLists == Abstract!Spec
=============================================================================
