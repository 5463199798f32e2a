---------------------------- MODULE ThreadLists ----------------------------
(***************************************************************************)
(* What the list functions of G8RTOS_Structures.c promise the kernel: each *)
(* thread is on at most one of the lists, tcbll_Insert puts a thread at    *)
(* the tail, tcbll_Remove takes a thread out of the list it is in and      *)
(* leaves the order of the others alone.                                   *)
(***************************************************************************)
EXTENDS ThreadOrder

CONSTANTS TCB,      \* the thread control blocks
          TCBLL     \* the lists: running, blocked, sleeping

VARIABLE order      \* order[l]: the threads of l, head first

TypeOK == order \in [TCBLL -> Seq(TCB)]

Init == order = [l \in TCBLL |-> << >>]

Insert(l, t) ==
  /\ \A k \in TCBLL : t \notin Members(order[k])
  /\ order' = [order EXCEPT ![l] = Append(@, t)]

Remove(l, t) ==
  /\ t \in Members(order[l])
  /\ order' = [order EXCEPT ![l] = Without(@, t)]

Next == \E l \in TCBLL, t \in TCB : Insert(l, t) \/ Remove(l, t)

Spec == Init /\ [][Next]_order
=============================================================================
