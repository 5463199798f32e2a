--------------------------- MODULE G8RTOS_proofs ---------------------------
(***************************************************************************)
(* The kernel's lists always match the flags of the threads, for any number*)
(* of threads, semaphores and priorities and any pattern of kernel calls.  *)
(***************************************************************************)
EXTENDS G8RTOS, ThreadOrder_proofs

\* The threads main() adds stay alive under their first ids.
BootThreadsStay ==
  \A t \in BootThreads : alive[t] /\ id[t] = <<t, t>>

\* The low half of a live thread's id is the index of its TCB.
IdsNameTheirTCB == \A t \in TCB : alive[t] => id[t][2] = t

\* A thread that is about to take a token knows of which semaphore.
TakersWant == \A t \in TCB : pc[t] \in {"load", "store"} => wants[t] \in Semaphore

\* The inductive invariant.
KernelInv ==
  /\ TypeOK
  /\ ListsMatchFlags
  /\ CurrentOffListOnlyLeaving
  /\ BlockedBeforeTaking
  /\ SomeThreadRunnable
  /\ BootThreadsStay
  /\ IdsNameTheirTCB
  /\ TakersWant

\* The constants' sets are what the proofs need them to be.
LEMMA Constants ==
  /\ IsFiniteSet(TCB)
  /\ BootThreads \subseteq TCB
  /\ IdleThread \in BootThreads
  /\ Len(Boot) \in Nat \ {0} /\ \A i \in 1..Len(Boot) : Boot[i] \in Nat
  /\ NULL \notin Semaphore
<1>1. Len(Boot) \in Nat \ {0} /\ \A i \in 1..Len(Boot) : Boot[i] \in Nat
  BY BootAssumption
<1>2. MAX_THREADS - 1 \in Int
  BY BootAssumption
<1>3. IsFiniteSet(TCB)
  BY <1>2, FS_Interval DEF TCB
<1>4. BootThreads \subseteq TCB
  BY <1>1, BootAssumption DEF BootThreads, TCB
<1>5. IdleThread \in BootThreads
  BY <1>1 DEF BootThreads, IdleThread
<1> QED
  BY <1>1, <1>3, <1>4, <1>5, SemaphoreAssumption DEF Semaphore

\* A thread that executes code outside the tail of a kernel call is active:
\* the kernel may take it off the running list.
LEMMA CallerActive ==
  ASSUME KernelInv, NEW t \in TCB, Runs(t),
         pc[t] \notin {"mark", "pend", "switch", "die"}
  PROVE  t = currentThread /\ IsThreadActive(t) /\ t \in Members(runningThreads)
BY DEF KernelInv, Runs, CurrentOffListOnlyLeaving, ListsMatchFlags

\* Taking a thread off a list that matches the flags.
LEMMA TakenOff ==
  ASSUME NEW s \in Seq(TCB), Distinct(s), NEW t \in TCB, t \in Members(s)
  PROVE  /\ Without(s, t) \in Seq(TCB)
         /\ Distinct(Without(s, t))
         /\ Members(Without(s, t)) = Members(s) \ {t}
BY WithoutDistinct

\* The thread at position i of a list, and the list without it.
LEMMA DroppedAt ==
  ASSUME NEW s \in Seq(TCB), Distinct(s), NEW i \in 1..Len(s)
  PROVE  /\ s[i] \in TCB /\ s[i] \in Members(s)
         /\ DropAt(s, i) \in Seq(TCB)
         /\ Distinct(DropAt(s, i))
         /\ Members(DropAt(s, i)) = Members(s) \ {s[i]}
<1>1. s[i] \in TCB /\ s[i] \in Members(s)
  BY DEF Members
<1> QED
  BY <1>1, DropAtShape, DropAtDistinct

\* What KernelInv says of the lists and the counters, for citation.
LEMMA ListFacts ==
  ASSUME KernelInv
  PROVE  /\ runningThreads \in Seq(TCB) /\ Distinct(runningThreads)
         /\ blockedThreads \in Seq(TCB) /\ Distinct(blockedThreads)
         /\ sleepingThreads \in Seq(TCB) /\ Distinct(sleepingThreads)
         /\ Members(runningThreads) = {t \in TCB : IsThreadActive(t)}
         /\ Members(blockedThreads) = {t \in TCB : alive[t] /\ IsThreadBlocked(t)}
         /\ Members(sleepingThreads) = {t \in TCB : alive[t] /\ IsThreadSleeping(t)}
BY DEF KernelInv, TypeOK, ListsMatchFlags

\* A step that leaves the TCBs, the lists and the counters alone keeps the
\* lists in agreement with the flags.
LEMMA QuietLists ==
  ASSUME KernelInv, UNCHANGED <<tcbVars, listVars, numberThreads>>
  PROVE  (ListsMatchFlags /\ SomeThreadRunnable /\ BootThreadsStay /\ IdsNameTheirTCB)'
BY DEF KernelInv, tcbVars, listVars, ListsMatchFlags, SomeThreadRunnable,
       BootThreadsStay, IdsNameTheirTCB, Members, Distinct,
       IsThreadActive, IsThreadBlocked, IsThreadSleeping

\* The search starts at a place of the running list.
LEMMA SearchStartsOnList ==
  ASSUME KernelInv, Len(runningThreads) > 0
  PROVE  SearchStart \in 1..Len(runningThreads)
<1>1. runningThreads \in Seq(TCB) /\ Len(runningThreads) \in Nat \ {0}
  BY DEF KernelInv, TypeOK
<1>2. \A a \in Nat, n \in Nat \ {0} : (a % n) + 1 \in 1..n
  OBVIOUS
<1>3. CASE IsThreadActive(currentThread)
  <2>1. currentThread \in Members(runningThreads)
    BY <1>3, ListFacts DEF KernelInv, TypeOK
  <2>2. PositionOf(runningThreads, currentThread) \in Nat
    BY <1>1, <2>1, PositionShape
  <2> QED
    BY <1>1, <1>2, <1>3, <2>2 DEF SearchStart
<1>4. CASE ~IsThreadActive(currentThread)
  BY <1>1, <1>4 DEF SearchStart
<1> QED
  BY <1>3, <1>4

\* Once round the ring the search meets every thread of the running list.
LEMMA SearchMeetsAll ==
  ASSUME KernelInv, NEW t \in Members(runningThreads)
  PROVE  \E j \in 0..(Len(runningThreads) - 1) : Ring(j) = t
<1> DEFINE n == Len(runningThreads)
           s == SearchStart
<1>1. PICK i \in 1..n : runningThreads[i] = t
  BY DEF Members
<1>2. n \in Nat \ {0}
  BY <1>1 DEF KernelInv, TypeOK
<1>3. s \in 1..n
  BY <1>2, SearchStartsOnList
<1>4. \A a \in 0..(n - 1) : a % n = a /\ (a + n) % n = a
  <2> HIDE DEF n
  <2> SUFFICES ASSUME NEW a \in 0..(n - 1) PROVE a % n = a /\ (a + n) % n = a
    OBVIOUS
  <2>1. a % n = a
    BY <1>2
  <2>2. (a + n) % n = a
    BY <1>2
  <2> QED
    BY <2>1, <2>2
<1> DEFINE j == IF i >= s THEN i - s ELSE i - s + n
<1>5. j \in 0..(n - 1)
  <2> HIDE DEF n, s
  <2> QED
    BY <1>2, <1>3
<1>6. ((s - 1 + j) % n) + 1 = i
  <2> HIDE DEF n, s
  <2>1. CASE i >= s
    <3>1. s - 1 + j = i - 1 /\ i - 1 \in 0..(n - 1)
      BY <1>2, <1>3, <2>1
    <3> QED
      BY <1>2, <1>4, <3>1
  <2>2. CASE i < s
    <3>1. s - 1 + j = (i - 1) + n /\ i - 1 \in 0..(n - 1)
      BY <1>2, <1>3, <2>2
    <3> QED
      BY <1>2, <1>4, <3>1
  <2> QED
    BY <1>2, <1>3, <2>1, <2>2
<1>7. Ring(j) = t
  BY <1>1, <1>6 DEF Ring
<1> QED
  BY <1>5, <1>7

\* Wherever the search has got to, it looks at a thread of the running list.
LEMMA RingOnList ==
  ASSUME KernelInv, Len(runningThreads) > 0, NEW k \in Nat
  PROVE  Ring(k) \in Members(runningThreads) /\ Ring(k) \in TCB
<1>1. runningThreads \in Seq(TCB) /\ Len(runningThreads) \in Nat \ {0}
  BY DEF KernelInv, TypeOK
<1>2. SearchStart \in 1..Len(runningThreads)
  BY SearchStartsOnList
<1>3. \A a \in Nat, n \in Nat \ {0} : (a % n) + 1 \in 1..n
  OBVIOUS
<1>4. SearchStart - 1 + k \in Nat
  BY <1>1, <1>2
<1>5. ((SearchStart - 1 + k) % Len(runningThreads)) + 1 \in 1..Len(runningThreads)
  BY <1>1, <1>3, <1>4
<1> QED
  BY <1>1, <1>5 DEF Ring, Members

\* What the search knows after i turns of its loop: thread x is on the running
\* list and, in a yield, the best of the threads looked at other than the one
\* that yields, which it is itself only as long as no other has been met.
BestSoFar(x, i) ==
  /\ x \in Members(runningThreads)
  /\ isYielding => \A j \in 0..i : Ring(j) # currentThread =>
                     x # currentThread /\ priority[x] <= priority[Ring(j)]

\* Each turn of the loop keeps what the search knows.
LEMMA SearchTurn ==
  ASSUME KernelInv, NEW i \in Nat \ {0}, Len(runningThreads) > 0,
         NEW x, BestSoFar(x, i - 1)
  PROVE  BestSoFar(IF Overtakes(Ring(i), x) THEN Ring(i) ELSE x, i)
<1>1. Ring(i) \in Members(runningThreads) /\ \A j \in 0..i : Ring(j) \in TCB
  BY RingOnList
<1>2. \A t \in TCB : priority[t] \in Nat
  BY DEF KernelInv, TypeOK
<1>3. x \in TCB
  BY ListFacts DEF BestSoFar
<1>4. PICK r : r = Ring(i)
  OBVIOUS
<1>5. r \in TCB /\ r \in Members(runningThreads)
  BY <1>1, <1>4
<1>6. \A j \in 0..i : j = i \/ j \in 0..(i - 1)
  OBVIOUS
<1>7. ASSUME isYielding, NEW j \in 0..i, Ring(j) # currentThread
      PROVE  /\ (IF Overtakes(r, x) THEN r ELSE x) # currentThread
             /\ priority[IF Overtakes(r, x) THEN r ELSE x] <= priority[Ring(j)]
  <2>1. PICK q : q = Ring(j) /\ q \in TCB /\ q # currentThread
    BY <1>1, <1>7
  <2>2. CASE j = i
    <3>1. q = r
      BY <1>4, <2>1, <2>2
    <3> QED
      BY <1>2, <1>3, <1>5, <1>7, <2>1, <3>1 DEF Overtakes
  <2>3. CASE j \in 0..(i - 1)
    <3>1. x # currentThread /\ priority[x] <= priority[q]
      BY <1>7, <2>1, <2>3 DEF BestSoFar
    <3> QED
      BY <1>2, <1>3, <1>5, <1>7, <2>1, <3>1 DEF Overtakes
  <2> QED
    BY <1>6, <2>2, <2>3
<1> QED
  BY <1>4, <1>5, <1>7 DEF BestSoFar

\* The loop of the scheduler ends with the best thread of the whole list.
LEMMA SearchFindsBest ==
  ASSUME KernelInv, Len(runningThreads) > 0
  PROVE  BestSoFar(Search[Len(runningThreads) - 1], Len(runningThreads) - 1)
<1> DEFINE n == Len(runningThreads) - 1
           Step(f) == [i \in 0..n |-> IF i = 0 THEN Ring(0)
                         ELSE IF Overtakes(Ring(i), f[i - 1]) THEN Ring(i) ELSE f[i - 1]]
           g == CHOOSE f : f = Step(f)
           Inv == [i \in 0..n |-> {x \in TCB : BestSoFar(x, i)}]
           body == [i \in 1..n |-> [x \in TCB |->
                      IF Overtakes(Ring(i), x) THEN Ring(i) ELSE x]]
<1>1. n \in Nat /\ Len(runningThreads) > 0
  BY DEF KernelInv, TypeOK
<1>2. \A x, i : BestSoFar(x, i) => x \in TCB
  BY ListFacts DEF BestSoFar
<1>3. Search = g
  BY DEF Search
<1>4. BestSoFar(Ring(0), 0)
  <2>1. Ring(0) \in Members(runningThreads) /\ Ring(0) \in TCB
    BY RingOnList
  <2>2. priority[Ring(0)] \in Nat
    BY <2>1 DEF KernelInv, TypeOK
  <2> QED
    BY <2>1, <2>2 DEF BestSoFar
<1>5. \A i \in 1..n : \A x : BestSoFar(x, i - 1) =>
         BestSoFar(IF Overtakes(Ring(i), x) THEN Ring(i) ELSE x, i)
  BY <1>1, SearchTurn
<1>6. Ring(0) \in Inv[0]
  BY <1>1, <1>2, <1>4
<1>7. \A i \in 1..n : \A x \in Inv[i - 1] : body[i][x] \in Inv[i]
  BY <1>1, <1>2, <1>5
<1>8. \A i \in 0..n : \A x \in Inv[i] : x \in TCB
  OBVIOUS
<1>9. \A i \in 1..n : \A x \in TCB :
         body[i][x] = IF Overtakes(Ring(i), x) THEN Ring(i) ELSE x
  OBVIOUS
<1> HIDE DEF Inv, body
<1>10. PICK f : IsLoop(f, n, Ring(0), body, Inv)
  <2>1. n \in Nat
    BY <1>1
  <2> HIDE DEF n
  <2> QED
    BY <1>6, <1>7, <2>1, LoopRuns, Zenon
<1>11. \A i \in 1..n : f[i - 1] \in TCB
  BY <1>1, <1>8, <1>10 DEF IsLoop
<1>12. \A i \in 0..n : f[i] = IF i = 0 THEN Ring(0)
                         ELSE IF Overtakes(Ring(i), f[i - 1]) THEN Ring(i) ELSE f[i - 1]
  BY <1>1, <1>9, <1>10, <1>11 DEF IsLoop
<1>13. f = Step(f)
  BY <1>10, <1>12 DEF IsLoop
<1>14. g = Step(g)
  BY <1>13
<1> HIDE DEF g
<1>15. /\ g[0] = Ring(0)
       /\ \A i \in 1..n :
            g[i] = IF Overtakes(Ring(i), g[i - 1]) THEN Ring(i) ELSE g[i - 1]
  BY <1>1, <1>14
<1> DEFINE T == {i \in 0..n : BestSoFar(g[i], i)}
<1>16. 0 \in T
  BY <1>1, <1>4, <1>15
<1>17. \A i \in 1..n : i - 1 \in T => i \in T
  BY <1>1, <1>5, <1>15
<1>18. n \in T
  <2>1. n \in Nat
    BY <1>1
  <2> HIDE DEF T, n
  <2>2. \A i \in 0..n : i \in T
    BY <1>16, <1>17, <2>1, ClimbsTo
  <2> QED
    BY <2>1, <2>2
<1> QED
  BY <1>3, <1>18

\* The scheduler picks a member of the running list.
LEMMA SchedulerPicksRunning ==
  ASSUME KernelInv, G8RTOS_Scheduler
  PROVE  currentThread' \in Members(runningThreads)
<1>1. Len(runningThreads) \in Nat /\ runningThreads \in Seq(TCB)
  BY DEF KernelInv, TypeOK
<1>2. PICK i \in 1..Len(runningThreads) : runningThreads[i] = IdleThread
  BY DEF KernelInv, SomeThreadRunnable, Members
<1>3. Len(runningThreads) > 0
  BY <1>1, <1>2
<1> QED
  BY <1>3, SearchFindsBest DEF G8RTOS_Scheduler, BestSoFar

\* A context switch keeps the invariant: the thread it picks is runnable.
LEMMA PendSVPreserves ==
  ASSUME KernelInv, PendSV_Handler
  PROVE  KernelInv'
<1>1. currentThread' \in Members(runningThreads)
  BY SchedulerPicksRunning DEF PendSV_Handler
<1>2. currentThread' \in TCB /\ IsThreadActive(currentThread')
  BY <1>1, ListFacts
<1>3. TypeOK'
  BY <1>2 DEF KernelInv, PendSV_Handler, G8RTOS_Scheduler, TypeOK, tcbVars, listVars, threadVars
<1>4. (ListsMatchFlags /\ SomeThreadRunnable /\ BootThreadsStay /\ IdsNameTheirTCB)'
  BY QuietLists DEF PendSV_Handler
<1>5. CurrentOffListOnlyLeaving'
  BY <1>2 DEF CurrentOffListOnlyLeaving, PendSV_Handler, tcbVars, IsThreadActive
<1>6. BlockedBeforeTaking' /\ TakersWant'
  BY DEF KernelInv, PendSV_Handler, tcbVars, listVars, threadVars,
         BlockedBeforeTaking, TakersWant, Members
<1> QED
  BY <1>3, <1>4, <1>5, <1>6 DEF KernelInv

\* Taking a token that is there.
LEMMA AcquireFreePreserves ==
  ASSUME KernelInv, NEW t \in TCB, NEW s \in Semaphore, AcquireFree(t, s)
  PROVE  KernelInv'
<1>1. IsThreadActive(t) /\ t = currentThread
  BY CallerActive DEF AcquireFree, MayCall
<1>2. count[s] \in 0..(Wrap - 1) /\ count[s] # 0
  BY DEF AcquireFree, KernelInv, TypeOK
<1>3. count[s] - 1 \in 0..(Wrap - 1)
  BY <1>2, SemaphoreAssumption
<1>4. TypeOK'
  BY <1>3 DEF KernelInv, AcquireFree, TypeOK, tcbVars, listVars
<1>5. (ListsMatchFlags /\ SomeThreadRunnable /\ BootThreadsStay /\ IdsNameTheirTCB)'
  BY QuietLists DEF AcquireFree
<1>6. CurrentOffListOnlyLeaving'
  BY <1>1 DEF CurrentOffListOnlyLeaving, AcquireFree, tcbVars, IsThreadActive
<1>7. BlockedBeforeTaking' /\ TakersWant'
  BY DEF KernelInv, AcquireFree, tcbVars, listVars,
         BlockedBeforeTaking, TakersWant, Members
<1> QED
  BY <1>4, <1>5, <1>6, <1>7 DEF KernelInv

\* The tails of G8RTOS_YieldThread and of the calls that end in a switch.
LEMMA YieldPreserves ==
  ASSUME KernelInv, NEW t \in TCB,
         Yield(t) \/ YieldMark(t) \/ YieldPend(t) \/ TriggerContextSwitch(t)
  PROVE  KernelInv'
<1>1. TypeOK'
  BY DEF KernelInv, Yield, YieldMark, YieldPend, TriggerContextSwitch, TypeOK, Positions,
         tcbVars, listVars, flagVars
<1>2. (ListsMatchFlags /\ SomeThreadRunnable /\ BootThreadsStay /\ IdsNameTheirTCB)'
  BY QuietLists DEF Yield, YieldMark, YieldPend, TriggerContextSwitch
<1>3. t = currentThread
  BY DEF Yield, YieldMark, YieldPend, TriggerContextSwitch, MayCall, Runs
<1>4. CurrentOffListOnlyLeaving'
  BY <1>3 DEF KernelInv, CurrentOffListOnlyLeaving, Yield, YieldMark, YieldPend,
              TriggerContextSwitch, TypeOK, tcbVars, flagVars, IsThreadActive
<1>5. \A u \in Members(blockedThreads) :
         u \in TCB /\ IsThreadBlocked(u) /\ blockedSem[u] = wants[u]
                   /\ pc[u] \in {"mark", "pend", "load"}
  BY ListFacts DEF KernelInv, BlockedBeforeTaking
<1>6. BlockedBeforeTaking'
  <2>1. /\ blockedThreads' = blockedThreads /\ blockedSem' = blockedSem
        /\ wants' = wants
        /\ \A u \in TCB : u # t => pc'[u] = pc[u]
    BY DEF KernelInv, TypeOK, Yield, YieldMark, YieldPend, TriggerContextSwitch,
           tcbVars, listVars
  <2>2. ASSUME t \in Members(blockedThreads)
        PROVE  pc'[t] \in {"mark", "pend", "load"}
    <3>1. wants[t] # NULL /\ pc[t] \in {"mark", "pend", "load"}
      BY <1>5, <2>2 DEF IsThreadBlocked
    <3> QED
      BY <3>1 DEF KernelInv, TypeOK, Yield, YieldMark, YieldPend,
                  TriggerContextSwitch, MayCall
  <2> QED
    BY <1>5, <2>1, <2>2 DEF BlockedBeforeTaking
<1>7. TakersWant'
  BY Constants DEF KernelInv, Yield, YieldMark, YieldPend, TriggerContextSwitch, TypeOK, TakersWant
<1> QED
  BY <1>1, <1>2, <1>4, <1>6, <1>7 DEF KernelInv

\* The two halves of the decrement after a wake-up.
LEMMA TakePreserves ==
  ASSUME KernelInv, NEW t \in TCB, TakeLoad(t) \/ TakeStore(t)
  PROVE  KernelInv'
<1>1. t = currentThread /\ IsThreadActive(t)
  BY CallerActive DEF TakeLoad, TakeStore
<1>2. wants[t] \in Semaphore /\ count[wants[t]] \in 0..(Wrap - 1)
  BY DEF KernelInv, TakersWant, TypeOK, TakeLoad, TakeStore
<1>3. Decremented(loaded[t]) \in 0..(Wrap - 1)
  <2>1. \A a \in Int, n \in Nat \ {0} : a % n \in 0..(n - 1)
    OBVIOUS
  <2>2. loaded[t] + Wrap - 1 \in Int /\ Wrap \in Nat \ {0}
    BY SemaphoreAssumption DEF KernelInv, TypeOK
  <2> QED
    BY <2>1, <2>2 DEF Decremented
<1>4. 0 \in 0..(Wrap - 1)
  BY SemaphoreAssumption
<1>5. TypeOK'
  <2>1. CASE TakeLoad(t)
    BY <1>2, <2>1 DEF KernelInv, TakeLoad, TypeOK, Positions,
                      tcbVars, listVars, flagVars
  <2>2. CASE TakeStore(t)
    <3>1. /\ count' \in [Semaphore -> 0..(Wrap - 1)]
          /\ loaded' \in [TCB -> 0..(Wrap - 1)]
      BY <1>2, <1>3, <1>4, <2>2 DEF KernelInv, TypeOK, TakeStore
    <3>2. /\ pc' \in [TCB -> Positions]
          /\ wants' \in [TCB -> Semaphore \cup {NULL}]
          /\ holds' \in [TCB -> SUBSET Lock]
      BY <2>2 DEF KernelInv, TypeOK, TakeStore, Positions
    <3> QED
      BY <2>2, <3>1, <3>2 DEF KernelInv, TypeOK, TakeStore, tcbVars, listVars, flagVars
  <2> QED
    BY <2>1, <2>2
<1>6. (ListsMatchFlags /\ SomeThreadRunnable /\ BootThreadsStay /\ IdsNameTheirTCB)'
  BY QuietLists DEF TakeLoad, TakeStore
<1>7. CurrentOffListOnlyLeaving'
  BY <1>1 DEF CurrentOffListOnlyLeaving, TakeLoad, TakeStore, tcbVars, IsThreadActive
<1>8. t \notin Members(blockedThreads)
  BY <1>1, ListFacts DEF IsThreadActive, IsThreadBlocked
<1>9. BlockedBeforeTaking'
  <2>1. /\ blockedThreads' = blockedThreads /\ blockedSem' = blockedSem
        /\ \A u \in TCB : u # t => pc'[u] = pc[u] /\ wants'[u] = wants[u]
    BY DEF KernelInv, TypeOK, TakeLoad, TakeStore, tcbVars, listVars
  <2> QED
    BY <1>8, <2>1, ListFacts DEF KernelInv, BlockedBeforeTaking
<1>10. TakersWant'
  BY <1>2 DEF KernelInv, TypeOK, TakeLoad, TakeStore, TakersWant
<1> QED
  BY <1>5, <1>6, <1>7, <1>9, <1>10 DEF KernelInv

\* The calls that only touch the interrupt mask or the scheduler's switch.
LEMMA FlagPreserves ==
  ASSUME KernelInv, NEW t \in TCB,
         \/ AddThreadRefused(t)
         \/ \E k \in AddedIds : KillThreadRefused(t, k)
         \/ G8RTOS_StartCriticalSection(t)
         \/ G8RTOS_EndCriticalSection(t)
         \/ \E b \in BOOLEAN : G8RTOS_SetThreadSwitchable(t, b)
  PROVE  KernelInv'
<1> USE DEF AddThreadRefused, KillThreadRefused, G8RTOS_StartCriticalSection,
            G8RTOS_EndCriticalSection, G8RTOS_SetThreadSwitchable
<1>1. t = currentThread /\ IsThreadActive(t)
  BY CallerActive DEF MayCall
<1>2. \/ depth' = depth
      \/ depth' = [depth EXCEPT ![t] = @ + 1]
      \/ depth[t] > 0 /\ depth' = [depth EXCEPT ![t] = @ - 1]
  BY DEF threadVars
<1>3. depth' \in [TCB -> Nat]
  <2> HIDE DEF AddThreadRefused, KillThreadRefused, G8RTOS_StartCriticalSection,
               G8RTOS_EndCriticalSection, G8RTOS_SetThreadSwitchable
  <2>1. depth \in [TCB -> Nat]
    BY DEF KernelInv, TypeOK
  <2>2. depth[t] \in Nat /\ depth[t] + 1 \in Nat /\ (depth[t] > 0 => depth[t] - 1 \in Nat)
    BY <2>1
  <2> QED
    BY <1>2, <2>1, <2>2
<1>4. /\ primask' \in BOOLEAN /\ canContextSwitch' \in BOOLEAN
      /\ UNCHANGED <<tcbVars, listVars, currentThread, numberThreads, idCounter,
                     isYielding, pendSV, count, pc, wants, loaded, holds>>
  BY DEF KernelInv, TypeOK, threadVars
<1> USE DEF tcbVars, listVars
<1>5. TypeOK'
  <2> HIDE DEF AddThreadRefused, KillThreadRefused, G8RTOS_StartCriticalSection,
               G8RTOS_EndCriticalSection, G8RTOS_SetThreadSwitchable
  <2> QED
    BY <1>3, <1>4 DEF KernelInv, TypeOK
<1> USE DEF threadVars
<1>6. (ListsMatchFlags /\ SomeThreadRunnable /\ BootThreadsStay /\ IdsNameTheirTCB)'
  BY QuietLists
<1>7. CurrentOffListOnlyLeaving'
  BY <1>1 DEF CurrentOffListOnlyLeaving, tcbVars, IsThreadActive
<1>8. BlockedBeforeTaking' /\ TakersWant'
  BY DEF KernelInv, tcbVars, listVars, threadVars, BlockedBeforeTaking, TakersWant, Members
<1> QED
  BY <1>5, <1>6, <1>7, <1>8 DEF KernelInv

\* Threads that no step but the idle thread's own could take off stay on.
LEMMA IdleStays ==
  ASSUME KernelInv, NEW t \in TCB, NEW call, MayCall(t, call)
  PROVE  /\ t # IdleThread /\ t = currentThread
         /\ IsThreadActive(t) /\ t \in Members(runningThreads)
         /\ t \notin Members(blockedThreads) /\ t \notin Members(sleepingThreads)
         /\ IdleThread \in Members(runningThreads)
<1>1. t # IdleThread /\ t = currentThread /\ IsThreadActive(t) /\ t \in Members(runningThreads)
  BY CallerActive DEF MayCall
<1>2. t \notin Members(blockedThreads) /\ t \notin Members(sleepingThreads)
  BY <1>1, ListFacts DEF IsThreadActive, IsThreadBlocked, IsThreadSleeping
<1> QED
  BY <1>1, <1>2 DEF KernelInv, SomeThreadRunnable

\* Blocking on a semaphore moves the caller from the running list to the
\* blocked list.
LEMMA AcquireBlockPreserves ==
  ASSUME KernelInv, NEW t \in TCB, NEW s \in Semaphore, AcquireBlock(t, s)
  PROVE  KernelInv'
<1>1. /\ t # IdleThread /\ t = currentThread /\ IsThreadActive(t)
      /\ t \in Members(runningThreads) /\ t \notin Members(blockedThreads)
      /\ IdleThread \in Members(runningThreads)
  BY IdleStays DEF AcquireBlock
<1>2. s # NULL
  BY Constants
<1>3. /\ runningThreads' \in Seq(TCB) /\ Distinct(runningThreads')
      /\ Members(runningThreads') = Members(runningThreads) \ {t}
  BY <1>1, ListFacts, TakenOff DEF AcquireBlock
<1>4. /\ blockedThreads' \in Seq(TCB) /\ Distinct(blockedThreads')
      /\ Members(blockedThreads') = Members(blockedThreads) \cup {t}
  BY <1>1, ListFacts, AppendDistinct DEF AcquireBlock
<1>5. /\ blockedSem' \in [TCB -> Semaphore \cup {NULL}] /\ blockedSem'[t] = s
      /\ \A u \in TCB : u # t => blockedSem'[u] = blockedSem[u]
      /\ wants' \in [TCB -> Semaphore \cup {NULL}] /\ wants'[t] = s
      /\ \A u \in TCB : u # t => wants'[u] = wants[u]
      /\ pc' \in [TCB -> Positions] /\ pc'[t] = "mark"
      /\ \A u \in TCB : u # t => pc'[u] = pc[u]
  BY DEF KernelInv, TypeOK, AcquireBlock, Park, Positions
<1>6. /\ alive' = alive /\ sleepTime' = sleepTime /\ id' = id
      /\ sleepingThreads' = sleepingThreads /\ numberThreads' = numberThreads
      /\ currentThread' = currentThread
  BY DEF AcquireBlock
<1>7. TypeOK'
  BY <1>3, <1>4, <1>5 DEF KernelInv, TypeOK, AcquireBlock
<1>8. ListsMatchFlags'
  <2>1. \A u \in TCB : u # t =>
          /\ IsThreadActive(u)' <=> IsThreadActive(u)
          /\ IsThreadBlocked(u)' <=> IsThreadBlocked(u)
          /\ IsThreadSleeping(u)' <=> IsThreadSleeping(u)
    BY <1>5, <1>6 DEF IsThreadActive, IsThreadBlocked, IsThreadSleeping
  <2>2. /\ ~IsThreadActive(t)' /\ IsThreadBlocked(t)' /\ ~IsThreadSleeping(t)'
        /\ alive'[t] /\ ~IsThreadSleeping(t)
    BY <1>1, <1>2, <1>5, <1>6 DEF IsThreadActive, IsThreadBlocked, IsThreadSleeping
  <2>3. Members(runningThreads') = {u \in TCB : IsThreadActive(u)'}
    BY <1>3, <2>1, <2>2, ListFacts
  <2>4. Members(blockedThreads') = {u \in TCB : alive'[u] /\ IsThreadBlocked(u)'}
    BY <1>4, <1>6, <2>1, <2>2, ListFacts
  <2>5. Members(sleepingThreads') = {u \in TCB : alive'[u] /\ IsThreadSleeping(u)'}
    BY <1>6, <2>1, <2>2, ListFacts
  <2>6. \A u \in TCB : alive'[u] => ~(IsThreadBlocked(u)' /\ IsThreadSleeping(u)')
    BY <1>6, <2>1, <2>2 DEF KernelInv, ListsMatchFlags
  <2>7. Distinct(sleepingThreads') /\ numberThreads' = Cardinality({u \in TCB : alive'[u]})
    BY <1>6 DEF KernelInv, ListsMatchFlags
  <2> QED
    BY <1>3, <1>4, <2>3, <2>4, <2>5, <2>6, <2>7 DEF ListsMatchFlags
<1>9. CurrentOffListOnlyLeaving'
  BY <1>1, <1>5, <1>6 DEF AcquireBlock, CurrentOffListOnlyLeaving
<1>10. BlockedBeforeTaking'
  BY <1>4, <1>5, ListFacts DEF KernelInv, BlockedBeforeTaking
<1>11. SomeThreadRunnable'
  BY <1>1, <1>3 DEF SomeThreadRunnable
<1>12. BootThreadsStay' /\ IdsNameTheirTCB'
  BY <1>6 DEF KernelInv, BootThreadsStay, IdsNameTheirTCB
<1>13. TakersWant'
  BY <1>5 DEF KernelInv, TakersWant
<1> QED
  BY <1>7, <1>8, <1>9, <1>10, <1>11, <1>12, <1>13 DEF KernelInv

\* Releasing a semaphore moves the first thread that waits for it, if any,
\* back to the running list.
LEMMA ReleasePreserves ==
  ASSUME KernelInv, NEW t \in TCB, NEW s \in Semaphore, G8RTOS_ReleaseSemaphore(t, s)
  PROVE  KernelInv'
<1>1. /\ t = currentThread /\ IsThreadActive(t)
      /\ IdleThread \in Members(runningThreads)
  BY IdleStays DEF G8RTOS_ReleaseSemaphore
<1>2. (count[s] + 1) % Wrap \in 0..(Wrap - 1)
  <2>1. \A a \in Nat, n \in Nat \ {0} : a % n \in 0..(n - 1)
    OBVIOUS
  <2>2. count[s] + 1 \in Nat /\ Wrap \in Nat \ {0}
    BY SemaphoreAssumption DEF KernelInv, TypeOK
  <2> QED
    BY <2>1, <2>2
<1>3. /\ count' \in [Semaphore -> 0..(Wrap - 1)]
      /\ holds' \in [TCB -> SUBSET Lock]
  BY <1>2 DEF KernelInv, TypeOK, G8RTOS_ReleaseSemaphore
<1>4. /\ alive' = alive /\ sleepTime' = sleepTime /\ id' = id
      /\ sleepingThreads' = sleepingThreads /\ numberThreads' = numberThreads
      /\ currentThread' = currentThread /\ pc' = pc /\ wants' = wants
  BY DEF G8RTOS_ReleaseSemaphore
<1>5. CASE UNCHANGED <<blockedSem, blockedThreads, runningThreads>>
  <2>1. TypeOK'
    BY <1>3, <1>5 DEF KernelInv, TypeOK, G8RTOS_ReleaseSemaphore
  <2>2. (ListsMatchFlags /\ SomeThreadRunnable /\ BootThreadsStay /\ IdsNameTheirTCB)'
    BY <1>5, QuietLists DEF G8RTOS_ReleaseSemaphore, tcbVars, listVars
  <2>3. CurrentOffListOnlyLeaving'
    BY <1>1, <1>4, <1>5 DEF CurrentOffListOnlyLeaving, IsThreadActive
  <2>4. BlockedBeforeTaking' /\ TakersWant'
    BY <1>4, <1>5 DEF KernelInv, BlockedBeforeTaking, TakersWant, Members
  <2> QED
    BY <2>1, <2>2, <2>3, <2>4 DEF KernelInv
<1>6. CASE \E i \in 1..Len(blockedThreads) :
             /\ blockedSem' = [blockedSem EXCEPT ![blockedThreads[i]] = NULL]
             /\ blockedThreads' = DropAt(blockedThreads, i)
             /\ runningThreads' = Append(runningThreads, blockedThreads[i])
  <2>1. PICK i \in 1..Len(blockedThreads) :
             /\ blockedSem' = [blockedSem EXCEPT ![blockedThreads[i]] = NULL]
             /\ blockedThreads' = DropAt(blockedThreads, i)
             /\ runningThreads' = Append(runningThreads, blockedThreads[i])
    BY <1>6
  <2>2. PICK v : v = blockedThreads[i]
    OBVIOUS
  <2>3. /\ v \in TCB /\ v \in Members(blockedThreads)
        /\ blockedThreads' \in Seq(TCB) /\ Distinct(blockedThreads')
        /\ Members(blockedThreads') = Members(blockedThreads) \ {v}
    BY <2>1, <2>2, ListFacts, DroppedAt
  <2>4. /\ alive[v] /\ IsThreadBlocked(v) /\ ~IsThreadSleeping(v) /\ ~IsThreadActive(v)
        /\ v \notin Members(runningThreads)
    BY <2>3, ListFacts DEF KernelInv, ListsMatchFlags, IsThreadActive, IsThreadBlocked
  <2>5. /\ runningThreads' \in Seq(TCB) /\ Distinct(runningThreads')
        /\ Members(runningThreads') = Members(runningThreads) \cup {v}
    BY <2>1, <2>2, <2>3, <2>4, ListFacts, AppendDistinct
  <2>6. /\ blockedSem' \in [TCB -> Semaphore \cup {NULL}] /\ blockedSem'[v] = NULL
        /\ \A u \in TCB : u # v => blockedSem'[u] = blockedSem[u]
    BY <2>1, <2>2, <2>3 DEF KernelInv, TypeOK
  <2>7. TypeOK'
    BY <1>3, <2>3, <2>5, <2>6 DEF KernelInv, TypeOK, G8RTOS_ReleaseSemaphore
  <2>8. \A u \in TCB : u # v =>
          /\ IsThreadActive(u)' <=> IsThreadActive(u)
          /\ IsThreadBlocked(u)' <=> IsThreadBlocked(u)
          /\ IsThreadSleeping(u)' <=> IsThreadSleeping(u)
    BY <1>4, <2>6 DEF IsThreadActive, IsThreadBlocked, IsThreadSleeping
  <2>9. IsThreadActive(v)' /\ ~IsThreadBlocked(v)' /\ ~IsThreadSleeping(v)'
    BY <1>4, <2>4, <2>6 DEF IsThreadActive, IsThreadBlocked, IsThreadSleeping
  <2>10. Members(runningThreads') = {u \in TCB : IsThreadActive(u)'}
    BY <2>3, <2>5, <2>8, <2>9, ListFacts
  <2>11. Members(blockedThreads') = {u \in TCB : alive'[u] /\ IsThreadBlocked(u)'}
    BY <1>4, <2>3, <2>8, <2>9, ListFacts
  <2>12. Members(sleepingThreads') = {u \in TCB : alive'[u] /\ IsThreadSleeping(u)'}
    BY <1>4, <2>4, <2>8, <2>9, ListFacts
  <2>13. \A u \in TCB : alive'[u] => ~(IsThreadBlocked(u)' /\ IsThreadSleeping(u)')
    BY <1>4, <2>8, <2>9 DEF KernelInv, ListsMatchFlags
  <2>14. Distinct(sleepingThreads') /\ numberThreads' = Cardinality({u \in TCB : alive'[u]})
    BY <1>4 DEF KernelInv, ListsMatchFlags
  <2>15. ListsMatchFlags'
    BY <2>3, <2>5, <2>10, <2>11, <2>12, <2>13, <2>14 DEF ListsMatchFlags
  <2>16. CurrentOffListOnlyLeaving'
    BY <1>1, <1>4, <2>8, <2>9 DEF CurrentOffListOnlyLeaving
  <2>17. BlockedBeforeTaking' /\ TakersWant'
    BY <1>4, <2>3, <2>6, ListFacts DEF KernelInv, BlockedBeforeTaking, TakersWant
  <2>18. SomeThreadRunnable' /\ BootThreadsStay' /\ IdsNameTheirTCB'
    BY <1>1, <1>4, <2>5 DEF KernelInv, SomeThreadRunnable, BootThreadsStay, IdsNameTheirTCB
  <2> QED
    BY <2>7, <2>15, <2>16, <2>17, <2>18 DEF KernelInv
<1> QED
  BY <1>5, <1>6 DEF G8RTOS_ReleaseSemaphore, Unblock

\* Going to sleep moves the caller from the running to the sleeping list.
LEMMA SleepPreserves ==
  ASSUME KernelInv, NEW t \in TCB, NEW ms \in Durations, G8RTOS_SleepThread(t, ms)
  PROVE  KernelInv'
<1>1. /\ t # IdleThread /\ t = currentThread /\ IsThreadActive(t)
      /\ t \in Members(runningThreads) /\ t \notin Members(sleepingThreads)
      /\ t \notin Members(blockedThreads)
      /\ IdleThread \in Members(runningThreads)
  BY IdleStays DEF G8RTOS_SleepThread
<1>2. ms \in Nat /\ ms # 0
  BY DurationAssumption
<1>3. /\ runningThreads' \in Seq(TCB) /\ Distinct(runningThreads')
      /\ Members(runningThreads') = Members(runningThreads) \ {t}
  BY <1>1, ListFacts, TakenOff DEF G8RTOS_SleepThread
<1>4. /\ sleepingThreads' \in Seq(TCB) /\ Distinct(sleepingThreads')
      /\ Members(sleepingThreads') = Members(sleepingThreads) \cup {t}
  BY <1>1, ListFacts, AppendDistinct DEF G8RTOS_SleepThread
<1>5. /\ sleepTime' \in [TCB -> Nat] /\ sleepTime'[t] = ms
      /\ \A u \in TCB : u # t => sleepTime'[u] = sleepTime[u]
      /\ pc' \in [TCB -> Positions] /\ pc'[t] = "switch"
      /\ \A u \in TCB : u # t => pc'[u] = pc[u]
  BY <1>2 DEF KernelInv, TypeOK, G8RTOS_SleepThread, Park, Positions
<1>6. /\ alive' = alive /\ blockedSem' = blockedSem /\ id' = id
      /\ blockedThreads' = blockedThreads /\ numberThreads' = numberThreads
      /\ currentThread' = currentThread /\ wants' = wants /\ primask' = FALSE
  BY DEF G8RTOS_SleepThread
<1>7. TypeOK'
  BY <1>3, <1>4, <1>5 DEF KernelInv, TypeOK, G8RTOS_SleepThread
<1>8. ListsMatchFlags'
  <2>1. \A u \in TCB : u # t =>
          /\ IsThreadActive(u)' <=> IsThreadActive(u)
          /\ IsThreadBlocked(u)' <=> IsThreadBlocked(u)
          /\ IsThreadSleeping(u)' <=> IsThreadSleeping(u)
    BY <1>5, <1>6 DEF IsThreadActive, IsThreadBlocked, IsThreadSleeping
  <2>2. /\ ~IsThreadActive(t)' /\ ~IsThreadBlocked(t)' /\ IsThreadSleeping(t)'
        /\ alive'[t] /\ ~IsThreadBlocked(t)
    BY <1>1, <1>2, <1>5, <1>6 DEF IsThreadActive, IsThreadBlocked, IsThreadSleeping
  <2>3. Members(runningThreads') = {u \in TCB : IsThreadActive(u)'}
    BY <1>3, <2>1, <2>2, ListFacts
  <2>4. Members(blockedThreads') = {u \in TCB : alive'[u] /\ IsThreadBlocked(u)'}
    BY <1>6, <2>1, <2>2, ListFacts
  <2>5. Members(sleepingThreads') = {u \in TCB : alive'[u] /\ IsThreadSleeping(u)'}
    BY <1>4, <1>6, <2>1, <2>2, ListFacts
  <2>6. \A u \in TCB : alive'[u] => ~(IsThreadBlocked(u)' /\ IsThreadSleeping(u)')
    BY <1>6, <2>1, <2>2 DEF KernelInv, ListsMatchFlags
  <2>7. Distinct(blockedThreads') /\ numberThreads' = Cardinality({u \in TCB : alive'[u]})
    BY <1>6 DEF KernelInv, ListsMatchFlags
  <2> QED
    BY <1>3, <1>4, <2>3, <2>4, <2>5, <2>6, <2>7 DEF ListsMatchFlags
<1>9. CurrentOffListOnlyLeaving'
  BY <1>1, <1>5, <1>6 DEF CurrentOffListOnlyLeaving
<1>10. BlockedBeforeTaking'
  <2>1. \A u \in Members(blockedThreads) : u \in TCB /\ u # t
    BY <1>1, ListFacts
  <2> QED
    BY <1>5, <1>6, <2>1 DEF KernelInv, BlockedBeforeTaking
<1>11. SomeThreadRunnable'
  BY <1>1, <1>3 DEF SomeThreadRunnable
<1>12. BootThreadsStay' /\ IdsNameTheirTCB'
  BY <1>6 DEF KernelInv, BootThreadsStay, IdsNameTheirTCB
<1>13. TakersWant'
  BY <1>5, <1>6 DEF KernelInv, TakersWant
<1> QED
  BY <1>7, <1>8, <1>9, <1>10, <1>11, <1>12, <1>13 DEF KernelInv

\* The sleepers the tick's loop has counted down in its first i turns, and those
\* among them whose time was over.
Counted(i) == {sleepingThreads[j] : j \in 1..i}
Woken(i) == {u \in Counted(i) : sleepTime[u] = 1}

\* What the loop has done after i turns, and what it will find: the sleepers it
\* has not come to are still the end of the list, and thr is the first of them.
WalkInv(w, i) ==
  /\ w.thr \in TCB
  /\ i < Len(sleepingThreads) => w.thr = sleepingThreads[i + 1]
  /\ w.sleepTime = [u \in TCB |-> IF u \in Counted(i) THEN sleepTime[u] - 1
                                                     ELSE sleepTime[u]]
  /\ w.sleeping \in Seq(TCB) /\ Distinct(w.sleeping)
  /\ Members(w.sleeping) = Members(sleepingThreads) \ Woken(i)
  /\ \A j \in (i + 1)..Len(sleepingThreads) :
       /\ Len(w.sleeping) - Len(sleepingThreads) + j \in 1..Len(w.sleeping)
       /\ w.sleeping[Len(w.sleeping) - Len(sleepingThreads) + j] = sleepingThreads[j]
  /\ w.running \in Seq(TCB) /\ Distinct(w.running)
  /\ Members(w.running) = Members(runningThreads) \cup Woken(i)

\* A sleeper has time left, and is on no other list.
LEMMA SleeperFacts ==
  ASSUME KernelInv, NEW u \in Members(sleepingThreads)
  PROVE  /\ u \in TCB /\ sleepTime[u] \in Nat \ {0}
         /\ u \notin Members(runningThreads)
BY ListFacts DEF KernelInv, TypeOK, IsThreadActive, IsThreadSleeping

\* Each turn counts one more sleeper down, and finds the next one.
LEMMA WalkTurn ==
  ASSUME KernelInv, NEW i \in 1..Len(sleepingThreads), NEW w, WalkInv(w, i - 1)
  PROVE  WalkInv(Turn(w), i)
<1> DEFINE n == Len(sleepingThreads)
           m == Len(w.sleeping)
           t == w.thr
           over == w.sleepTime[t] = 1
           p == m - n + i
<1>1. n \in Nat /\ m \in Nat /\ i \in Nat \ {0} /\ i <= n
  <2>1. n \in Nat
    BY ListFacts
  <2>2. m \in Nat
    BY DEF WalkInv
  <2> HIDE DEF m
  <2> QED
    BY <2>1, <2>2
<1>2. t = sleepingThreads[i] /\ t \in Members(sleepingThreads) /\ t \in TCB
  BY <1>1, ListFacts DEF WalkInv, Members
<1>3. sleepTime[t] \in Nat \ {0} /\ t \notin Members(runningThreads)
  BY <1>2, SleeperFacts
<1>4. Counted(i) = Counted(i - 1) \cup {t}
  <2>1. 1..i = 1..(i - 1) \cup {i}
    BY <1>1
  <2> QED
    BY <1>2, <2>1 DEF Counted
<1>5. t \notin Counted(i - 1)
  <2>1. \A j \in 1..(i - 1) : j \in 1..n /\ i \in 1..n /\ j # i
    BY <1>1
  <2> QED
    BY <1>2, <2>1, ListFacts DEF Counted, Distinct
<1>6. w.sleepTime[t] = sleepTime[t]
  BY <1>2, <1>5 DEF WalkInv
<1>7. Woken(i) = IF over THEN Woken(i - 1) \cup {t} ELSE Woken(i - 1)
  BY <1>4, <1>6 DEF Woken
<1>8. p \in 1..m /\ w.sleeping[p] = t
  BY <1>1, <1>2 DEF WalkInv
<1>9. PositionOf(w.sleeping, t) = p
  <2>1. w.sleeping \in Seq(TCB) /\ Distinct(w.sleeping) /\ t \in Members(w.sleeping)
    BY <1>8 DEF WalkInv, Members
  <2>2. /\ PositionOf(w.sleeping, t) \in 1..m
        /\ w.sleeping[PositionOf(w.sleeping, t)] = t
    BY <2>1, PositionShape
  <2> QED
    BY <1>8, <2>1, <2>2 DEF Distinct
<1>10. \A j \in (i + 1)..n : m - n + j \in 1..m /\ w.sleeping[m - n + j] = sleepingThreads[j]
  BY <1>1 DEF WalkInv
<1>11. /\ Turn(w).thr = w.sleeping[(p % m) + 1]
       /\ Turn(w).sleepTime = [w.sleepTime EXCEPT ![t] = @ - 1]
       /\ Turn(w).sleeping = IF over THEN DropAt(w.sleeping, p) ELSE w.sleeping
       /\ Turn(w).running = IF over THEN Append(w.running, t) ELSE w.running
  BY <1>9 DEF Turn, NextOn, Without
<1>12. Turn(w).thr \in TCB
  <2>1. \A a \in Nat, k \in Nat \ {0} : (a % k) + 1 \in 1..k
    OBVIOUS
  <2>2. p \in Nat /\ m \in Nat \ {0}
    BY <1>1, <1>8
  <2>3. (p % m) + 1 \in 1..m
    BY <2>1, <2>2
  <2> QED
    BY <1>11, <2>3 DEF WalkInv
<1>13. i < n => Turn(w).thr = sleepingThreads[i + 1]
  <2> SUFFICES ASSUME i < n PROVE Turn(w).thr = sleepingThreads[i + 1]
    OBVIOUS
  <2>1. i + 1 \in (i + 1)..n
    BY <1>1
  <2>2. m - n + (i + 1) \in 1..m /\ w.sleeping[m - n + (i + 1)] = sleepingThreads[i + 1]
    BY <1>10, <2>1
  <2>3. m - n + (i + 1) = p + 1 /\ p < m
    <3> HIDE DEF n, m
    <3> QED
      BY <1>1, <2>2
  <2>4. \A a, k \in Nat : a < k => a % k = a
    OBVIOUS
  <2>5. p % m = p
    <3> HIDE DEF p, m
    <3> QED
      BY <1>1, <1>8, <2>3, <2>4
  <2> QED
    BY <1>11, <2>2, <2>3, <2>5
<1>14. Turn(w).sleepTime = [u \in TCB |-> IF u \in Counted(i) THEN sleepTime[u] - 1
                                                            ELSE sleepTime[u]]
  <2>1. w.sleepTime = [u \in TCB |-> IF u \in Counted(i - 1) THEN sleepTime[u] - 1
                                                            ELSE sleepTime[u]]
    BY DEF WalkInv
  <2> QED
    BY <1>2, <1>4, <1>5, <1>6, <1>11, <2>1
<1>15. CASE over
  <2>1. w.sleeping \in Seq(TCB) /\ Distinct(w.sleeping)
    BY DEF WalkInv
  <2>2. PICK d : d = DropAt(w.sleeping, p)
    OBVIOUS
  <2>3. /\ d \in Seq(TCB) /\ Len(d) = m - 1
        /\ \A j \in 1..(m - 1) : d[j] = IF j < p THEN w.sleeping[j] ELSE w.sleeping[j + 1]
        /\ Distinct(d) /\ Members(d) = Members(w.sleeping) \ {t}
    <3>1. p \in 1..Len(w.sleeping)
      BY <1>8
    <3>2. w.sleeping[p] = t
      BY <1>8
    <3> HIDE DEF p, t
    <3> QED
      BY <2>1, <2>2, <3>1, <3>2, DropAtShape, DropAtDistinct
  <2>4. Members(d) = Members(sleepingThreads) \ Woken(i)
    BY <1>7, <1>15, <2>3 DEF WalkInv
  <2>5. ASSUME NEW j \in (i + 1)..n
        PROVE  Len(d) - n + j \in 1..Len(d) /\ d[Len(d) - n + j] = sleepingThreads[j]
    <3>1. m - n + j \in 1..m /\ w.sleeping[m - n + j] = sleepingThreads[j]
      BY <1>10
    <3>2. j \in Int /\ j > i
      BY <1>1
    <3>3. PICK k \in Int : k = Len(d) - n + j
      BY <1>1, <2>3, <3>2
    <3>4. k \in 1..(m - 1) /\ ~(k < p) /\ k + 1 = m - n + j
      BY <1>1, <1>8, <2>3, <3>1, <3>2, <3>3
    <3> QED
      BY <2>3, <3>1, <3>3, <3>4
  <2>6. t \notin Members(w.running)
    BY <1>3, <1>5 DEF WalkInv, Woken
  <2>7. /\ Append(w.running, t) \in Seq(TCB) /\ Distinct(Append(w.running, t))
        /\ Members(Append(w.running, t)) = Members(w.running) \cup {t}
    BY <1>2, <2>6, AppendDistinct DEF WalkInv
  <2>8. Members(w.running) \cup {t} = Members(runningThreads) \cup Woken(i)
    BY <1>7, <1>15 DEF WalkInv
  <2>9. Turn(w).sleeping = d /\ Turn(w).running = Append(w.running, t)
    BY <1>11, <1>15, <2>2
  <2> QED
    BY <1>12, <1>13, <1>14, <2>3, <2>4, <2>5, <2>7, <2>8, <2>9 DEF WalkInv
<1>16. CASE ~over
  <2>1. Turn(w).sleeping = w.sleeping /\ Turn(w).running = w.running
    BY <1>11, <1>16
  <2>2. Woken(i) = Woken(i - 1)
    BY <1>7, <1>16
  <2> QED
    BY <1>10, <1>12, <1>13, <1>14, <2>1, <2>2 DEF WalkInv
<1> QED
  BY <1>15, <1>16

\* The loop is made as often as there are sleepers, and has then counted all.
LEMMA WalkReachesAll ==
  ASSUME KernelInv, Len(sleepingThreads) # 0
  PROVE  WalkInv(Walked[Len(sleepingThreads)], Len(sleepingThreads))
<1> DEFINE n == Len(sleepingThreads)
           start == [thr |-> sleepingThreads[1], sleepTime |-> sleepTime,
                     sleeping |-> sleepingThreads, running |-> runningThreads]
           Step(f) == [i \in 0..n |-> IF i = 0 THEN start ELSE Turn(f[i - 1])]
           g == CHOOSE f : f = Step(f)
           Loop == [thr : TCB, sleepTime : [TCB -> Int], sleeping : Seq(TCB), running : Seq(TCB)]
           Inv == [i \in 0..n |-> {w \in Loop : WalkInv(w, i)}]
           body == [i \in 1..n |-> [w \in Loop |-> Turn(w)]]
<1>1. n \in Nat \ {0}
  BY DEF KernelInv, TypeOK
<1>2. Walked = g
  BY DEF Walked
<1>3. WalkInv(start, 0)
  <2>1. Counted(0) = {} /\ Woken(0) = {}
    BY DEF Counted, Woken
  <2>2. sleepingThreads[1] \in TCB
    BY <1>1, ListFacts
  <2>3. sleepTime = [u \in TCB |-> sleepTime[u]]
    BY DEF KernelInv, TypeOK
  <2>4. /\ start.thr = sleepingThreads[1] /\ start.sleepTime = sleepTime
        /\ start.sleeping = sleepingThreads /\ start.running = runningThreads
    OBVIOUS
  <2> HIDE DEF start
  <2>5. \A j \in 1..n : n - n + j = j
    BY <1>1
  <2>6. start.sleepTime = [u \in TCB |-> IF u \in Counted(0) THEN sleepTime[u] - 1
                                                            ELSE sleepTime[u]]
    BY <2>1, <2>3, <2>4
  <2> QED
    BY <1>1, <2>1, <2>2, <2>4, <2>5, <2>6, ListFacts DEF WalkInv
<1>4. start \in Loop
  BY <1>1, ListFacts DEF KernelInv, TypeOK
<1>5. \A i \in 1..n : \A w : WalkInv(w, i - 1) => WalkInv(Turn(w), i)
  BY WalkTurn
<1>6. \A i, w : WalkInv(Turn(w), i) => Turn(w) \in Loop
  <2> SUFFICES ASSUME NEW i, NEW w, WalkInv(Turn(w), i) PROVE Turn(w) \in Loop
    OBVIOUS
  <2>1. PICK a, b, c, d : Turn(w) = [thr |-> a, sleepTime |-> b, sleeping |-> c, running |-> d]
    BY DEF Turn
  <2>2. b = [u \in TCB |-> IF u \in Counted(i) THEN sleepTime[u] - 1 ELSE sleepTime[u]]
    BY <2>1 DEF WalkInv
  <2>3. a \in TCB /\ c \in Seq(TCB) /\ d \in Seq(TCB)
    BY <2>1 DEF WalkInv
  <2>4. b \in [TCB -> Int]
    BY <2>2 DEF KernelInv, TypeOK
  <2> QED
    BY <2>1, <2>3, <2>4
<1>7. start \in Inv[0]
  BY <1>1, <1>3, <1>4
<1>8. \A i \in 1..n : \A w \in Inv[i - 1] : body[i][w] \in Inv[i]
  <2> SUFFICES ASSUME NEW i \in 1..n, NEW w \in Inv[i - 1] PROVE body[i][w] \in Inv[i]
    OBVIOUS
  <2>1. i - 1 \in 0..n /\ i \in 0..n
    BY <1>1
  <2>2. w \in Loop /\ WalkInv(w, i - 1)
    BY <2>1
  <2>3. WalkInv(Turn(w), i)
    BY <1>5, <2>2
  <2>4. Turn(w) \in Loop
    BY <1>6, <2>3
  <2>5. body[i][w] = Turn(w)
    BY <2>2
  <2> QED
    BY <2>1, <2>3, <2>4, <2>5
<1>9. \A i \in 0..n : \A w \in Inv[i] : w \in Loop /\ WalkInv(w, i)
  OBVIOUS
<1>10. \A i \in 1..n : \A w \in Loop : body[i][w] = Turn(w)
  OBVIOUS
<1> HIDE DEF Inv, body, Loop
<1>11. PICK f : IsLoop(f, n, start, body, Inv)
  <2>1. n \in Nat
    BY <1>1
  <2> HIDE DEF n, start
  <2> QED
    BY <1>7, <1>8, <2>1, LoopRuns, Zenon
<1> HIDE DEF start
<1>12. \A i \in 1..n : i \in 0..n /\ i - 1 \in 0..n
  BY <1>1
<1>13. \A i \in 0..n : f[i] = IF i = 0 THEN start ELSE Turn(f[i - 1])
  <2> SUFFICES ASSUME NEW i \in 0..n, i # 0 PROVE f[i] = Turn(f[i - 1])
    BY <1>1, <1>11 DEF IsLoop
  <2>1. i \in 1..n
    BY <1>1
  <2>2. f[i - 1] \in Loop
    BY <1>9, <1>11, <1>12, <2>1 DEF IsLoop
  <2> QED
    BY <1>10, <1>11, <2>1, <2>2 DEF IsLoop
<1>14. f = Step(f)
  BY <1>11, <1>13 DEF IsLoop
<1>15. g = Step(g)
  BY <1>14
<1> HIDE DEF g
<1>16. g[0] = start /\ \A i \in 1..n : g[i] = Turn(g[i - 1])
  BY <1>1, <1>15
<1> DEFINE T == {i \in 0..n : WalkInv(g[i], i)}
<1>17. 0 \in T
  BY <1>1, <1>3, <1>16
<1>18. \A i \in 1..n : i - 1 \in T => i \in T
  BY <1>1, <1>5, <1>16
<1>19. n \in T
  <2> HIDE DEF T
  <2> QED
    BY <1>1, <1>17, <1>18, ClimbsTo
<1> QED
  BY <1>2, <1>19

\* What a tick does to the sleepers, in one sentence.
LEMMA TickReachesAll ==
  ASSUME KernelInv, SysTick_Handler
  PROVE  LET asleep == Members(sleepingThreads)
             due == {u \in asleep : sleepTime[u] = 1}
         IN  /\ runningThreads' \in Seq(TCB) /\ Distinct(runningThreads')
             /\ Members(runningThreads') = Members(runningThreads) \cup due
             /\ sleepingThreads' \in Seq(TCB) /\ Distinct(sleepingThreads')
             /\ Members(sleepingThreads') = asleep \ due
             /\ sleepTime' = [u \in TCB |-> IF u \in asleep THEN sleepTime[u] - 1
                                                            ELSE sleepTime[u]]
<1> DEFINE asleep == Members(sleepingThreads)
           due == {u \in asleep : sleepTime[u] = 1}
<1>1. CASE Len(sleepingThreads) = 0
  <2>1. UNCHANGED <<sleepTime, sleepingThreads, runningThreads>>
    BY <1>1 DEF SysTick_Handler
  <2>2. asleep = {} /\ due = {}
    BY <1>1 DEF Members
  <2>3. sleepTime = [u \in TCB |-> sleepTime[u]]
    BY DEF KernelInv, TypeOK
  <2> QED
    BY <2>1, <2>2, <2>3, ListFacts
<1>2. CASE Len(sleepingThreads) # 0
  <2>1. PICK w : w = Walked[Len(sleepingThreads)]
    OBVIOUS
  <2>2. /\ sleepTime' = w.sleepTime /\ sleepingThreads' = w.sleeping
        /\ runningThreads' = w.running
    BY <1>2, <2>1 DEF SysTick_Handler, CountSleepersDown
  <2>3. WalkInv(w, Len(sleepingThreads))
    BY <1>2, <2>1, WalkReachesAll
  <2>4. Counted(Len(sleepingThreads)) = asleep /\ Woken(Len(sleepingThreads)) = due
    BY DEF Counted, Woken, Members
  <2> QED
    BY <2>2, <2>3, <2>4 DEF WalkInv
<1> QED
  BY <1>1, <1>2

\* A tick moves the sleepers whose time is over to the running list.
LEMMA SysTickPreserves ==
  ASSUME KernelInv, SysTick_Handler
  PROVE  KernelInv'
<1> DEFINE asleep == Members(sleepingThreads)
           due == {u \in asleep : sleepTime[u] = 1}
<1>1. /\ alive' = alive /\ blockedSem' = blockedSem /\ id' = id
      /\ blockedThreads' = blockedThreads /\ numberThreads' = numberThreads
      /\ currentThread' = currentThread /\ wants' = wants /\ pc' = pc
      /\ primask' = primask /\ (pendSV => pendSV')
  BY DEF SysTick_Handler, threadVars
<1>2. asleep \subseteq TCB /\ due \subseteq TCB /\ asleep \ due \subseteq TCB
  BY ListFacts
<1>8. \A u \in asleep : alive[u] /\ IsThreadSleeping(u) /\ ~IsThreadBlocked(u) /\ ~IsThreadActive(u)
  BY <1>2, ListFacts DEF KernelInv, ListsMatchFlags, IsThreadActive, IsThreadSleeping
<1>10. /\ runningThreads' \in Seq(TCB) /\ Distinct(runningThreads')
       /\ Members(runningThreads') = Members(runningThreads) \cup due
       /\ sleepingThreads' \in Seq(TCB) /\ Distinct(sleepingThreads')
       /\ Members(sleepingThreads') = asleep \ due
       /\ sleepTime' = [u \in TCB |-> IF u \in asleep THEN sleepTime[u] - 1 ELSE sleepTime[u]]
  BY TickReachesAll
<1>11. sleepTime' = [u \in TCB |-> IF u \in asleep THEN sleepTime[u] - 1 ELSE sleepTime[u]]
  BY <1>10
<1>12. \A u \in asleep : sleepTime[u] \in Nat \ {0}
  BY <1>2, <1>8 DEF KernelInv, TypeOK, IsThreadSleeping
<1>13. sleepTime' \in [TCB -> Nat]
  BY <1>11, <1>12 DEF KernelInv, TypeOK
<1>14. /\ \A u \in TCB \ asleep : sleepTime'[u] = sleepTime[u]
       /\ \A u \in due : sleepTime'[u] = 0
       /\ \A u \in asleep \ due : sleepTime'[u] # 0
  <2>1. \A u \in asleep \ due : sleepTime[u] # 1 /\ sleepTime[u] - 1 # 0
    <3> SUFFICES ASSUME NEW u \in asleep, u \notin due
                 PROVE  sleepTime[u] # 1 /\ sleepTime[u] - 1 # 0
      OBVIOUS
    <3>1. sleepTime[u] # 1
      OBVIOUS
    <3> QED
      BY <1>12, <3>1
  <2> QED
    BY <1>2, <1>10, <2>1
<1>15. TypeOK'
  BY <1>10, <1>13 DEF KernelInv, TypeOK, SysTick_Handler, threadVars
<1>16. \A u \in TCB \ asleep :
          /\ IsThreadActive(u)' <=> IsThreadActive(u)
          /\ IsThreadBlocked(u)' <=> IsThreadBlocked(u)
          /\ IsThreadSleeping(u)' <=> IsThreadSleeping(u)
  BY <1>1, <1>14 DEF IsThreadActive, IsThreadBlocked, IsThreadSleeping
<1>17. \A u \in asleep :
          /\ alive'[u] /\ ~IsThreadBlocked(u)'
          /\ IsThreadActive(u)' <=> u \in due
          /\ IsThreadSleeping(u)' <=> u \notin due
  BY <1>1, <1>8, <1>14 DEF IsThreadActive, IsThreadBlocked, IsThreadSleeping
<1>18. Members(runningThreads') = {u \in TCB : IsThreadActive(u)'}
  BY <1>2, <1>8, <1>10, <1>16, <1>17, ListFacts
<1>19. Members(blockedThreads') = {u \in TCB : alive'[u] /\ IsThreadBlocked(u)'}
  BY <1>1, <1>2, <1>8, <1>16, <1>17, ListFacts
<1>20. Members(sleepingThreads') = {u \in TCB : alive'[u] /\ IsThreadSleeping(u)'}
  BY <1>1, <1>2, <1>10, <1>16, <1>17, ListFacts
<1>21. \A u \in TCB : alive'[u] => ~(IsThreadBlocked(u)' /\ IsThreadSleeping(u)')
  BY <1>1, <1>16, <1>17 DEF KernelInv, ListsMatchFlags
<1>22. Distinct(blockedThreads') /\ numberThreads' = Cardinality({u \in TCB : alive'[u]})
  BY <1>1 DEF KernelInv, ListsMatchFlags
<1>23. ListsMatchFlags'
  BY <1>10, <1>18, <1>19, <1>20, <1>21, <1>22 DEF ListsMatchFlags
<1>24. CurrentOffListOnlyLeaving'
  <2>1. PICK c \in TCB : c = currentThread
    BY DEF KernelInv, TypeOK
  <2>2. IsThreadActive(c) => IsThreadActive(c)'
    BY <1>8, <1>16
  <2> QED
    BY <1>1, <2>1, <2>2 DEF KernelInv, CurrentOffListOnlyLeaving
<1>25. BlockedBeforeTaking' /\ TakersWant'
  BY <1>1 DEF KernelInv, BlockedBeforeTaking, TakersWant
<1>26. SomeThreadRunnable' /\ BootThreadsStay' /\ IdsNameTheirTCB'
  BY <1>1, <1>10 DEF KernelInv, SomeThreadRunnable, BootThreadsStay, IdsNameTheirTCB
<1> QED
  BY <1>15, <1>23, <1>24, <1>25, <1>26 DEF KernelInv

\* A new thread takes a dead TCB and goes to the end of the running list.
LEMMA AddThreadPreserves ==
  ASSUME KernelInv, NEW t \in TCB, NEW p \in Priorities, NEW new \in TCB, AddThread(t, p, new)
  PROVE  KernelInv'
<1>1. /\ t = currentThread /\ IsThreadActive(t)
      /\ IdleThread \in Members(runningThreads)
  BY IdleStays DEF AddThread
<1>2. ~alive[new] /\ new # t
  BY <1>1 DEF AddThread, IsThreadActive
<1>3. /\ new \notin Members(runningThreads) /\ new \notin Members(blockedThreads)
      /\ new \notin Members(sleepingThreads) /\ new \notin BootThreads
  BY <1>2, ListFacts DEF KernelInv, BootThreadsStay, IsThreadActive
<1>4. /\ runningThreads' \in Seq(TCB) /\ Distinct(runningThreads')
      /\ Members(runningThreads') = Members(runningThreads) \cup {new}
  BY <1>3, ListFacts, AppendDistinct DEF AddThread
<1>5. /\ alive' \in [TCB -> BOOLEAN] /\ alive'[new]
      /\ \A u \in TCB : u # new => alive'[u] = alive[u]
  BY DEF AddThread, FreshTCB, KernelInv, TypeOK
<1>6. /\ sleepTime' \in [TCB -> Nat] /\ sleepTime'[new] = 0
      /\ \A u \in TCB : u # new => sleepTime'[u] = sleepTime[u]
      /\ blockedSem' \in [TCB -> Semaphore \cup {NULL}] /\ blockedSem'[new] = NULL
      /\ \A u \in TCB : u # new => blockedSem'[u] = blockedSem[u]
  BY DEF AddThread, FreshTCB, KernelInv, TypeOK
<1>7. /\ pc' \in [TCB -> Positions] /\ pc'[new] = "run"
      /\ \A u \in TCB : u # new => pc'[u] = pc[u]
      /\ wants' \in [TCB -> Semaphore \cup {NULL}]
      /\ \A u \in TCB : u # new => wants'[u] = wants[u]
  BY DEF AddThread, KernelInv, TypeOK, Positions
<1>8. /\ id' \in [TCB -> Nat \X TCB] /\ id'[new][2] = new
      /\ \A u \in TCB : u # new => id'[u] = id[u]
  BY DEF AddThread, FreshTCB, KernelInv, TypeOK
<1>9. /\ blockedThreads' = blockedThreads /\ sleepingThreads' = sleepingThreads
      /\ currentThread' = currentThread /\ numberThreads' = numberThreads + 1
  BY DEF AddThread
<1>10. priority' \in [TCB -> Nat] /\ depth' \in [TCB -> Nat]
  BY PriorityAssumption DEF AddThread, FreshTCB, KernelInv, TypeOK
<1>11. idCounter' \in Nat /\ numberThreads' \in Nat
  BY DEF AddThread, FreshTCB, KernelInv, TypeOK
<1>12. UNCHANGED <<isYielding, canContextSwitch, pendSV, count, loaded, holds>> /\ primask' = FALSE
  BY DEF AddThread
<1>13. TypeOK'
  BY <1>4, <1>5, <1>6, <1>7, <1>8, <1>9, <1>10, <1>11, <1>12 DEF KernelInv, TypeOK
<1>14. \A u \in TCB : u # new =>
          /\ IsThreadActive(u)' <=> IsThreadActive(u)
          /\ IsThreadBlocked(u)' <=> IsThreadBlocked(u)
          /\ IsThreadSleeping(u)' <=> IsThreadSleeping(u)
  BY <1>5, <1>6 DEF IsThreadActive, IsThreadBlocked, IsThreadSleeping
<1>15. IsThreadActive(new)' /\ ~IsThreadBlocked(new)' /\ ~IsThreadSleeping(new)'
  BY <1>5, <1>6 DEF IsThreadActive, IsThreadBlocked, IsThreadSleeping
<1>16. ListsMatchFlags'
  <2>1. Members(runningThreads') = {u \in TCB : IsThreadActive(u)'}
    BY <1>4, <1>14, <1>15, ListFacts
  <2>2. Members(blockedThreads') = {u \in TCB : alive'[u] /\ IsThreadBlocked(u)'}
    BY <1>3, <1>5, <1>9, <1>14, <1>15, ListFacts
  <2>3. Members(sleepingThreads') = {u \in TCB : alive'[u] /\ IsThreadSleeping(u)'}
    BY <1>3, <1>5, <1>9, <1>14, <1>15, ListFacts
  <2>4. \A u \in TCB : alive'[u] => ~(IsThreadBlocked(u)' /\ IsThreadSleeping(u)')
    BY <1>5, <1>14, <1>15 DEF KernelInv, ListsMatchFlags
  <2>5. {u \in TCB : alive'[u]} = {u \in TCB : alive[u]} \cup {new}
    BY <1>5
  <2>6. IsFiniteSet({u \in TCB : alive[u]})
    BY Constants, FS_Subset
  <2>7. numberThreads' = Cardinality({u \in TCB : alive'[u]})
    BY <1>2, <1>9, <2>5, <2>6, FS_AddElement DEF KernelInv, ListsMatchFlags
  <2> QED
    BY <1>4, <1>9, <2>1, <2>2, <2>3, <2>4, <2>7, ListFacts DEF ListsMatchFlags
<1>17. CurrentOffListOnlyLeaving'
  BY <1>1, <1>2, <1>9, <1>14 DEF CurrentOffListOnlyLeaving
<1>18. BlockedBeforeTaking'
  <2>1. \A u \in Members(blockedThreads) : u \in TCB /\ u # new
    BY <1>3, ListFacts
  <2> QED
    BY <1>6, <1>7, <1>9, <2>1 DEF KernelInv, BlockedBeforeTaking
<1>19. SomeThreadRunnable'
  BY <1>1, <1>4 DEF SomeThreadRunnable
<1>20. BootThreadsStay'
  BY <1>3, <1>5, <1>8, Constants DEF KernelInv, BootThreadsStay
<1>21. IdsNameTheirTCB' /\ TakersWant'
  BY <1>5, <1>7, <1>8 DEF KernelInv, IdsNameTheirTCB, TakersWant
<1> QED
  BY <1>13, <1>16, <1>17, <1>18, <1>19, <1>20, <1>21 DEF KernelInv

\* A thread that is killed is not one that main() added.
LEMMA VictimIsAdded ==
  ASSUME KernelInv, NEW t \in TCB, NEW k,
         KillThread(t, k), k \in AddedIds \/ (t \notin BootThreads /\ k = id[t])
  PROVE  k[2] \in TCB \ BootThreads /\ alive[k[2]]
<1>1. Killable(k) /\ alive[k[2]] /\ id[k[2]] = k
  BY DEF KillThread, Killable
<1>2. CASE k \in AddedIds
  <2>1. k[2] \in TCB /\ k[1] \in Len(Boot)..(idCounter - 1)
    BY <1>2 DEF AddedIds
  <2>2. ASSUME k[2] \in BootThreads PROVE FALSE
    <3>1. k[1] = k[2]
      BY <1>1, <2>2 DEF KernelInv, BootThreadsStay
    <3>2. k[2] \in 0..(Len(Boot) - 1)
      BY <2>2 DEF BootThreads
    <3>3. idCounter \in Nat
      BY DEF KernelInv, TypeOK
    <3>4. \A a \in Len(Boot)..(idCounter - 1) : a \notin 0..(Len(Boot) - 1)
      BY <3>3, Constants
    <3> QED
      BY <2>1, <3>1, <3>2, <3>4
  <2> QED
    BY <1>1, <2>1, <2>2
<1>3. CASE t \notin BootThreads /\ k = id[t]
  <2>1. alive[t]
    BY IdleStays DEF KillThread, IsThreadActive
  <2>2. k[2] = t
    BY <1>3, <2>1 DEF KernelInv, IdsNameTheirTCB
  <2> QED
    BY <1>3, <2>1, <2>2
<1> QED
  BY <1>2, <1>3

\* Killing a thread takes it off the one list its flags put it in.
LEMMA KillPreserves ==
  ASSUME KernelInv, NEW t \in TCB, NEW k,
         KillThread(t, k), k \in AddedIds \/ (t \notin BootThreads /\ k = id[t])
  PROVE  KernelInv'
<1>1. PICK v : v = k[2]
  OBVIOUS
<1>2. v \in TCB \ BootThreads /\ alive[v]
  BY <1>1, VictimIsAdded
<1>3. /\ t = currentThread /\ IsThreadActive(t)
      /\ IdleThread \in Members(runningThreads)
  BY IdleStays DEF KillThread
<1>4. /\ IsThreadSleeping(v) <=> v \in Members(sleepingThreads)
      /\ IsThreadBlocked(v) <=> v \in Members(blockedThreads)
      /\ IsThreadActive(v) <=> v \in Members(runningThreads)
      /\ ~(IsThreadBlocked(v) /\ IsThreadSleeping(v))
      /\ IsThreadActive(v) <=> ~(IsThreadBlocked(v) \/ IsThreadSleeping(v))
  BY <1>2, ListFacts DEF KernelInv, ListsMatchFlags, IsThreadActive, IsThreadBlocked, IsThreadSleeping
<1>5. /\ sleepingThreads' = IF IsThreadSleeping(v)
                              THEN Without(sleepingThreads, v) ELSE sleepingThreads
      /\ blockedThreads' = IF ~IsThreadSleeping(v) /\ IsThreadBlocked(v)
                             THEN Without(blockedThreads, v) ELSE blockedThreads
      /\ runningThreads' = IF IsThreadSleeping(v) \/ IsThreadBlocked(v)
                             THEN runningThreads ELSE Without(runningThreads, v)
      /\ alive' = [alive EXCEPT ![v] = FALSE]
      /\ pc' = [pc EXCEPT ![v] = IF v = t THEN "die" ELSE "dead"]
  BY <1>1 DEF KillThread
<1>6. /\ sleepTime' = sleepTime /\ blockedSem' = blockedSem /\ id' = id
      /\ wants' = wants /\ currentThread' = currentThread
      /\ numberThreads' = numberThreads - 1 /\ primask' = FALSE
  BY DEF KillThread
<1>7. /\ sleepingThreads' \in Seq(TCB) /\ Distinct(sleepingThreads')
      /\ Members(sleepingThreads') = Members(sleepingThreads) \ {v}
  BY <1>2, <1>4, <1>5, ListFacts, TakenOff
<1>8. /\ blockedThreads' \in Seq(TCB) /\ Distinct(blockedThreads')
      /\ Members(blockedThreads') = Members(blockedThreads) \ {v}
  BY <1>2, <1>4, <1>5, ListFacts, TakenOff
<1>9. /\ runningThreads' \in Seq(TCB) /\ Distinct(runningThreads')
      /\ Members(runningThreads') = Members(runningThreads) \ {v}
  BY <1>2, <1>4, <1>5, ListFacts, TakenOff
<1>10. /\ alive' \in [TCB -> BOOLEAN] /\ ~alive'[v]
       /\ \A u \in TCB : u # v => alive'[u] = alive[u]
       /\ pc' \in [TCB -> Positions] /\ (v = t => pc'[v] = "die")
       /\ pc'[v] \notin {"load", "store"}
       /\ \A u \in TCB : u # v => pc'[u] = pc[u]
  BY <1>2, <1>5 DEF KernelInv, TypeOK, Positions
<1>11. numberThreads' \in Nat /\ numberThreads' = Cardinality({u \in TCB : alive'[u]})
  <2>1. {u \in TCB : alive'[u]} = {u \in TCB : alive[u]} \ {v}
    BY <1>2, <1>10
  <2>2. IsFiniteSet({u \in TCB : alive[u]})
    BY Constants, FS_Subset
  <2>3. Cardinality({u \in TCB : alive'[u]}) = numberThreads - 1
    BY <1>2, <2>1, <2>2, FS_RemoveElement DEF KernelInv, ListsMatchFlags
  <2>4. IsFiniteSet({u \in TCB : alive'[u]})
    BY <2>1, <2>2, FS_RemoveElement
  <2> QED
    BY <1>6, <2>3, <2>4, FS_CardinalityType
<1>12. TypeOK'
  BY <1>6, <1>7, <1>8, <1>9, <1>10, <1>11 DEF KernelInv, TypeOK, KillThread
<1>13. \A u \in TCB : u # v =>
          /\ IsThreadActive(u)' <=> IsThreadActive(u)
          /\ IsThreadBlocked(u)' <=> IsThreadBlocked(u)
          /\ IsThreadSleeping(u)' <=> IsThreadSleeping(u)
  BY <1>6, <1>10 DEF IsThreadActive, IsThreadBlocked, IsThreadSleeping
<1>14. ListsMatchFlags'
  <2>1. ~IsThreadActive(v)'
    BY <1>10 DEF IsThreadActive
  <2>2. Members(runningThreads') = {u \in TCB : IsThreadActive(u)'}
    BY <1>9, <1>13, <2>1, ListFacts
  <2>3. Members(blockedThreads') = {u \in TCB : alive'[u] /\ IsThreadBlocked(u)'}
    BY <1>8, <1>10, <1>13, ListFacts
  <2>4. Members(sleepingThreads') = {u \in TCB : alive'[u] /\ IsThreadSleeping(u)'}
    BY <1>7, <1>10, <1>13, ListFacts
  <2>5. \A u \in TCB : alive'[u] => ~(IsThreadBlocked(u)' /\ IsThreadSleeping(u)')
    BY <1>10, <1>13 DEF KernelInv, ListsMatchFlags
  <2> QED
    BY <1>7, <1>8, <1>9, <1>11, <2>2, <2>3, <2>4, <2>5 DEF ListsMatchFlags
<1>15. CurrentOffListOnlyLeaving'
  BY <1>3, <1>6, <1>10, <1>13 DEF CurrentOffListOnlyLeaving
<1>16. BlockedBeforeTaking'
  <2>1. \A u \in Members(blockedThreads') : u \in Members(blockedThreads) /\ u \in TCB /\ u # v
    BY <1>8, ListFacts
  <2> QED
    BY <1>6, <1>10, <2>1 DEF KernelInv, BlockedBeforeTaking
<1>17. SomeThreadRunnable'
  BY <1>2, <1>3, <1>9, Constants DEF SomeThreadRunnable
<1>18. BootThreadsStay'
  BY <1>2, <1>6, <1>10, Constants DEF KernelInv, BootThreadsStay
<1>19. IdsNameTheirTCB' /\ TakersWant'
  BY <1>6, <1>10 DEF KernelInv, IdsNameTheirTCB, TakersWant
<1> QED
  BY <1>12, <1>14, <1>15, <1>16, <1>17, <1>18, <1>19 DEF KernelInv

\* The state in which G8RTOS_Launch starts the first thread.
LEMMA InitInv == Init => KernelInv
<1> SUFFICES ASSUME Init PROVE KernelInv
  OBVIOUS
<1>1. /\ Len(Boot) \in Nat \ {0} /\ \A i \in 1..Len(Boot) : Boot[i] \in Nat
      /\ BootThreads = 0..(Len(Boot) - 1) /\ BootThreads \subseteq TCB
      /\ IdleThread \in BootThreads
  BY Constants DEF BootThreads
<1>2. \A u \in BootThreads : u + 1 \in 1..Len(Boot)
  BY <1>1
<1>3. /\ runningThreads = [i \in 1..Len(Boot) |-> i - 1]
      /\ blockedThreads = << >> /\ sleepingThreads = << >>
      /\ alive = [u \in TCB |-> u \in BootThreads]
      /\ sleepTime = [u \in TCB |-> 0] /\ blockedSem = [u \in TCB |-> NULL]
      /\ numberThreads = Len(Boot)
  BY DEF Init
<1>4. \A i \in 1..Len(Boot) : i - 1 \in BootThreads
  BY <1>1
<1>5. runningThreads \in Seq(TCB) /\ Len(runningThreads) = Len(Boot)
  <2>1. runningThreads \in [1..Len(Boot) -> TCB]
    BY <1>1, <1>3, <1>4
  <2>2. runningThreads \in Seq(TCB)
    BY <1>1, <2>1, SeqDef
  <2> QED
    BY <1>1, <2>1, <2>2, LenProperties
<1>6. Distinct(runningThreads)
  BY <1>1, <1>3, <1>5 DEF Distinct
<1>7. Members(runningThreads) = BootThreads
  <2>1. Members(runningThreads) \subseteq BootThreads
    BY <1>3, <1>4, <1>5 DEF Members
  <2>2. ASSUME NEW u \in BootThreads PROVE u \in Members(runningThreads)
    <3>1. u + 1 \in 1..Len(Boot) /\ (u + 1) - 1 = u
      BY <1>1
    <3>2. runningThreads[u + 1] = u
      BY <1>3, <3>1
    <3> QED
      BY <1>5, <3>1, <3>2 DEF Members
  <2> QED
    BY <2>1, <2>2
<1>8. currentThread \in BootThreads
  BY DEF Init, First
<1>9. TypeOK
  <2>1. 0 \in 0..(Wrap - 1) /\ 1 \in 0..(Wrap - 1)
    BY SemaphoreAssumption
  <2>2. count \in [Semaphore -> 0..(Wrap - 1)] /\ loaded \in [TCB -> 0..(Wrap - 1)]
    BY <2>1 DEF Init
  <2>3. priority \in [TCB -> Nat]
    BY <1>1, <1>2 DEF Init
  <2>4. id \in [TCB -> Nat \X TCB]
    <3>1. 0 \in BootThreads /\ BootThreads \subseteq Nat
      BY <1>1
    <3> QED
      BY <1>1, <3>1 DEF Init
  <2>5. blockedThreads \in Seq(TCB) /\ sleepingThreads \in Seq(TCB)
    BY <1>3
  <2>6. currentThread \in TCB
    BY <1>1, <1>8
  <2>7. /\ alive \in [TCB -> BOOLEAN] /\ sleepTime \in [TCB -> Nat]
        /\ blockedSem \in [TCB -> Semaphore \cup {NULL}]
        /\ numberThreads \in Nat
    BY <1>1, <1>3
  <2>8. /\ pc \in [TCB -> Positions] /\ wants \in [TCB -> Semaphore \cup {NULL}]
        /\ depth \in [TCB -> Nat] /\ holds \in [TCB -> SUBSET Lock]
    BY DEF Init, Positions
  <2>9. /\ idCounter \in Nat /\ isYielding \in BOOLEAN /\ canContextSwitch \in BOOLEAN
        /\ primask \in BOOLEAN /\ pendSV \in BOOLEAN
    BY <1>1 DEF Init
  <2> QED
    BY <1>5, <2>2, <2>3, <2>4, <2>5, <2>6, <2>7, <2>8, <2>9 DEF TypeOK
<1>10. \A u \in TCB : /\ IsThreadActive(u) <=> u \in BootThreads
                      /\ ~IsThreadBlocked(u) /\ ~IsThreadSleeping(u)
  BY <1>3 DEF IsThreadActive, IsThreadBlocked, IsThreadSleeping
<1>11. Members(blockedThreads) = {} /\ Members(sleepingThreads) = {}
       /\ Distinct(blockedThreads) /\ Distinct(sleepingThreads)
  BY <1>3 DEF Members, Distinct
<1>12. numberThreads = Cardinality({u \in TCB : alive[u]})
  <2>1. {u \in TCB : alive[u]} = BootThreads
    BY <1>1, <1>3
  <2>2. Cardinality(0..(Len(Boot) - 1)) = Len(Boot)
    BY <1>1, FS_Interval
  <2> QED
    BY <1>1, <1>3, <2>1, <2>2
<1>13. ListsMatchFlags
  BY <1>1, <1>6, <1>7, <1>10, <1>11, <1>12 DEF ListsMatchFlags
<1>14. CurrentOffListOnlyLeaving
  BY <1>1, <1>8, <1>10 DEF CurrentOffListOnlyLeaving
<1>15. BlockedBeforeTaking
  BY <1>11 DEF BlockedBeforeTaking
<1>16. SomeThreadRunnable
  BY <1>1, <1>7 DEF SomeThreadRunnable
<1>17. BootThreadsStay /\ IdsNameTheirTCB
  BY <1>1, <1>3 DEF Init, BootThreadsStay, IdsNameTheirTCB
<1>18. TakersWant
  BY DEF Init, TakersWant
<1> QED
  BY <1>9, <1>13, <1>14, <1>15, <1>16, <1>17, <1>18 DEF KernelInv

\* Every step of the kernel and of its callers keeps the invariant.
LEMMA StepPreserves == KernelInv /\ [Next]_vars => KernelInv'
<1> SUFFICES ASSUME KernelInv, [Next]_vars PROVE KernelInv'
  OBVIOUS
<1>1. CASE UNCHANGED vars
  <2> USE <1>1 DEF vars
  <2>1. TypeOK'
    BY DEF KernelInv, TypeOK, tcbVars, listVars, flagVars, threadVars
  <2>2. (ListsMatchFlags /\ SomeThreadRunnable /\ BootThreadsStay /\ IdsNameTheirTCB)'
    BY QuietLists
  <2>3. CurrentOffListOnlyLeaving'
    BY DEF KernelInv, CurrentOffListOnlyLeaving, tcbVars, flagVars, threadVars, IsThreadActive
  <2>4. BlockedBeforeTaking' /\ TakersWant'
    BY DEF KernelInv, BlockedBeforeTaking, TakersWant, tcbVars, listVars, threadVars, Members
  <2> QED
    BY <2>1, <2>2, <2>3, <2>4 DEF KernelInv
<1>2. CASE Interrupt
  BY <1>2, PendSVPreserves, SysTickPreserves DEF Interrupt
<1>3. ASSUME NEW t \in TCB, SemaphoreCall(t) PROVE KernelInv'
  BY <1>3, AcquireFreePreserves, AcquireBlockPreserves, ReleasePreserves, TakePreserves
     DEF SemaphoreCall
<1>4. ASSUME NEW t \in TCB, SchedulerCall(t) PROVE KernelInv'
  BY <1>4, YieldPreserves, SleepPreserves, FlagPreserves DEF SchedulerCall
<1>5. ASSUME NEW t \in TCB, ThreadCall(t) PROVE KernelInv'
  BY <1>5, AddThreadPreserves, KillPreserves, FlagPreserves DEF ThreadCall, G8RTOS_KillSelf
<1>6. ASSUME NEW t \in TCB, SectionCall(t) PROVE KernelInv'
  BY <1>6, FlagPreserves DEF SectionCall
<1> QED
  BY <1>1, <1>2, <1>3, <1>4, <1>5, <1>6 DEF Next, ThreadStep

\* The inductive invariant holds in every reachable state.
THEOREM KernelCorrect == Spec => []KernelInv
<1>1. Init => KernelInv
  BY InitInv
<1>2. KernelInv /\ [Next]_vars => KernelInv'
  BY StepPreserves
<1> QED
  BY <1>1, <1>2, PTL DEF Spec

\* For any number of threads and semaphores, every live thread is on exactly
\* the list its flags call for, and numberThreads counts the live threads.
THEOREM ListsAlwaysMatchFlags == Spec => []ListsMatchFlags
<1>1. KernelInv => ListsMatchFlags
  BY DEF KernelInv
<1> QED
  BY <1>1, KernelCorrect, PTL

\* The running thread is always where the calls that take it off the running
\* list expect to find it.
THEOREM CurrentAlwaysOnList == Spec => []CurrentOffListOnlyLeaving
<1>1. KernelInv => CurrentOffListOnlyLeaving
  BY DEF KernelInv
<1> QED
  BY <1>1, KernelCorrect, PTL

\* A blocked thread waits for what it asked for and has yet to take it.
THEOREM BlockedAlwaysBeforeTaking == Spec => []BlockedBeforeTaking
<1>1. KernelInv => BlockedBeforeTaking
  BY DEF KernelInv
<1> QED
  BY <1>1, KernelCorrect, PTL

\* The scheduler never finds the running list empty.
THEOREM AlwaysSomeThreadRunnable == Spec => []SomeThreadRunnable
<1>1. KernelInv => SomeThreadRunnable
  BY DEF KernelInv
<1> QED
  BY <1>1, KernelCorrect, PTL

\* Every variable of the kernel keeps its type; in particular the count of a
\* semaphore stays within its width, and nothing but a TCB is ever listed.
THEOREM KernelTypeCorrect == Spec => []TypeOK
<1>1. KernelInv => TypeOK
  BY DEF KernelInv
<1> QED
  BY <1>1, KernelCorrect, PTL
-----------------------------------------------------------------------------
\* Nothing but the scheduler ends a yield.
LEMMA OthersKeepYielding ==
  ASSUME KernelInv, isYielding, ~isYielding', [Next]_vars
  PROVE  PendSV_Handler
<1>1. CASE UNCHANGED vars
  BY <1>1 DEF vars, flagVars
<1>2. CASE SysTick_Handler
  BY <1>2 DEF SysTick_Handler
<1>3. ASSUME NEW t \in TCB, SemaphoreCall(t) PROVE FALSE
  BY <1>3 DEF SemaphoreCall, AcquireFree, AcquireBlock, G8RTOS_ReleaseSemaphore,
              TakeLoad, TakeStore, flagVars
<1>4. ASSUME NEW t \in TCB, SchedulerCall(t) PROVE FALSE
  BY <1>4 DEF SchedulerCall, Yield, YieldMark, YieldPend, G8RTOS_SleepThread,
              TriggerContextSwitch, G8RTOS_SetThreadSwitchable, flagVars
<1>5. ASSUME NEW t \in TCB, ThreadCall(t) PROVE FALSE
  BY <1>5 DEF ThreadCall, AddThread, AddThreadRefused, KillThread, KillThreadRefused,
              G8RTOS_KillSelf
<1>6. ASSUME NEW t \in TCB, SectionCall(t) PROVE FALSE
  BY <1>6 DEF SectionCall, G8RTOS_StartCriticalSection, G8RTOS_EndCriticalSection
<1> QED
  BY <1>1, <1>2, <1>3, <1>4, <1>5, <1>6 DEF Next, Interrupt, ThreadStep

(***************************************************************************)
(* A thread that yields always hands the CPU to another thread, one of the *)
(* best priority among the others, whatever the lists became between the   *)
(* flag and the switch (G8RTOS_Scheduler.c 84-102).                        *)
(***************************************************************************)
THEOREM YieldAlwaysPicksBest == Spec => YieldPicksBest
<1>1. KernelInv /\ [Next]_vars =>
        [isYielding /\ ~isYielding' /\ Len(runningThreads) > 1 =>
           /\ currentThread' # currentThread
           /\ \A t \in Members(runningThreads) \ {currentThread} :
                priority[currentThread'] <= priority[t]]_vars
  <2> SUFFICES ASSUME KernelInv, [Next]_vars,
                      isYielding, ~isYielding', Len(runningThreads) > 1
               PROVE  /\ currentThread' # currentThread
                      /\ \A t \in Members(runningThreads) \ {currentThread} :
                           priority[currentThread'] <= priority[t]
    OBVIOUS
  <2>1. G8RTOS_Scheduler
    BY OthersKeepYielding DEF PendSV_Handler
  <2>2. /\ Len(runningThreads) > 0
        /\ runningThreads[1] # runningThreads[2]
        /\ runningThreads[1] \in Members(runningThreads)
        /\ runningThreads[2] \in Members(runningThreads)
    <3>1. 1 \in 1..Len(runningThreads) /\ 2 \in 1..Len(runningThreads)
      BY DEF KernelInv, TypeOK
    <3> QED
      BY <3>1, ListFacts DEF Distinct, Members
  <2>3. BestSoFar(currentThread', Len(runningThreads) - 1)
    BY <2>1, <2>2, SearchFindsBest DEF G8RTOS_Scheduler
  <2>4. ASSUME NEW t \in Members(runningThreads) \ {currentThread}
        PROVE  currentThread' # currentThread /\ priority[currentThread'] <= priority[t]
    <3>1. PICK j \in 0..(Len(runningThreads) - 1) : Ring(j) = t
      BY SearchMeetsAll
    <3> QED
      BY <2>3, <3>1 DEF BestSoFar
  <2> QED
    BY <2>2, <2>4
<1> QED
  BY <1>1, KernelCorrect, PTL DEF Spec, YieldPicksBest

\* No call but the tick counts a sleeper down.
LEMMA OnlyTicksCount ==
  ASSUME KernelInv, [Next]_vars, NEW u \in Members(sleepingThreads), Ticked(u)
  PROVE  SysTick_Handler
<1>1. u \in TCB /\ sleepTime[u] \in Nat \ {0} /\ alive[u]
  BY SleeperFacts, ListFacts
<1>2. sleepTime'[u] # sleepTime[u]
  BY <1>1 DEF Ticked
<1>3. CASE UNCHANGED vars
  BY <1>2, <1>3 DEF vars, tcbVars
<1>4. CASE PendSV_Handler
  BY <1>2, <1>4 DEF PendSV_Handler, tcbVars
<1>5. ASSUME NEW t \in TCB, SemaphoreCall(t) PROVE FALSE
  BY <1>2, <1>5 DEF SemaphoreCall, AcquireFree, AcquireBlock, G8RTOS_ReleaseSemaphore,
                    TakeLoad, TakeStore, tcbVars
<1>6. ASSUME NEW t \in TCB, SchedulerCall(t) PROVE FALSE
  <2>1. ASSUME NEW ms \in Durations, G8RTOS_SleepThread(t, ms) PROVE FALSE
    <3>1. t \notin Members(sleepingThreads)
      BY <2>1, IdleStays DEF G8RTOS_SleepThread
    <3>2. sleepTime' = [sleepTime EXCEPT ![t] = ms] /\ sleepTime \in [TCB -> Nat]
      BY <2>1 DEF G8RTOS_SleepThread, KernelInv, TypeOK
    <3> QED
      BY <1>1, <1>2, <3>1, <3>2
  <2> QED
    BY <1>2, <1>6, <2>1 DEF SchedulerCall, Yield, YieldMark, YieldPend,
              TriggerContextSwitch, G8RTOS_SetThreadSwitchable, tcbVars
<1>7. ASSUME NEW t \in TCB, ThreadCall(t) PROVE FALSE
  <2>1. ASSUME NEW p \in Priorities, NEW new \in TCB, AddThread(t, p, new) PROVE FALSE
    <3>1. ~alive[new] /\ sleepTime' = [sleepTime EXCEPT ![new] = 0] /\ sleepTime \in [TCB -> Nat]
      BY <2>1 DEF AddThread, FreshTCB, KernelInv, TypeOK
    <3> QED
      BY <1>1, <1>2, <3>1
  <2> QED
    BY <1>2, <1>7, <2>1 DEF ThreadCall, AddThreadRefused, KillThread, KillThreadRefused,
              G8RTOS_KillSelf, tcbVars
<1>8. ASSUME NEW t \in TCB, SectionCall(t) PROVE FALSE
  BY <1>2, <1>8 DEF SectionCall, G8RTOS_StartCriticalSection, G8RTOS_EndCriticalSection, tcbVars
<1> QED
  BY <1>3, <1>4, <1>5, <1>6, <1>7, <1>8 DEF Next, Interrupt, ThreadStep

(***************************************************************************)
(* However many threads sleep and however many of them are due, a tick     *)
(* counts every sleeper down once, wakes those whose time is over and no   *)
(* other (G8RTOS_Scheduler.c 153-174).                                     *)
(***************************************************************************)
THEOREM TicksAlwaysReachAll == Spec => TicksReachAll
<1>1. KernelInv /\ [Next]_vars =>
        [(\E t \in Members(sleepingThreads) : Ticked(t)) =>
           /\ \A t \in TCB : IF t \in Members(sleepingThreads)
                               THEN Ticked(t) ELSE sleepTime'[t] = sleepTime[t]
           /\ Members(runningThreads') = Members(runningThreads) \cup
                {t \in Members(sleepingThreads) : sleepTime[t] = 1}]_vars
  <2> SUFFICES ASSUME KernelInv, [Next]_vars,
                      NEW u \in Members(sleepingThreads), Ticked(u)
               PROVE  /\ \A t \in TCB : IF t \in Members(sleepingThreads)
                                          THEN Ticked(t) ELSE sleepTime'[t] = sleepTime[t]
                      /\ Members(runningThreads') = Members(runningThreads) \cup
                           {t \in Members(sleepingThreads) : sleepTime[t] = 1}
    OBVIOUS
  <2>1. SysTick_Handler
    BY OnlyTicksCount
  <2>2. /\ Members(runningThreads') = Members(runningThreads) \cup
             {t \in Members(sleepingThreads) : sleepTime[t] = 1}
        /\ sleepTime' = [t \in TCB |-> IF t \in Members(sleepingThreads)
                                        THEN sleepTime[t] - 1 ELSE sleepTime[t]]
    BY <2>1, TickReachesAll
  <2> QED
    BY <2>2 DEF Ticked
<1> QED
  BY <1>1, KernelCorrect, PTL DEF Spec, TicksReachAll
=============================================================================
