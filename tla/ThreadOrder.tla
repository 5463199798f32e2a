---------------------------- MODULE ThreadOrder ----------------------------
(***************************************************************************)
(* Sequences without repetition, the abstract value of one G8RTOS thread   *)
(* list: the order in which its TCBs are reached from the head of the list.*)
(***************************************************************************)
EXTENDS Integers, Sequences

\* The threads on list s.
Members(s) == {s[i] : i \in 1..Len(s)}

\* No thread is on list s twice.
Distinct(s) == \A i, j \in 1..Len(s) : s[i] = s[j] => i = j

\* Where thread t is on list s.
PositionOf(s, t) == CHOOSE i \in 1..Len(s) : s[i] = t

\* List s without its i-th thread; the others keep their order.
DropAt(s, i) == [j \in 1..(Len(s) - 1) |-> IF j < i THEN s[j] ELSE s[j + 1]]

\* List s without thread t.
Without(s, t) == DropAt(s, PositionOf(s, t))
=============================================================================
