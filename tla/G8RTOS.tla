------------------------------- MODULE G8RTOS -------------------------------
(***************************************************************************)
(* The G8RTOS kernel of the board: the scheduler (G8RTOS_Scheduler.c), the *)
(* semaphores (G8RTOS_Semaphores.c), the critical sections                 *)
(* (G8RTOS_CriticalSection.s) and the context switch                       *)
(* (G8RTOS_SchedulerASM.s).                                                *)
(*                                                                         *)
(* One CPU runs currentThread.  SysTick and PendSV may interrupt it between*)
(* any two steps unless PRIMASK is set; what the code does between         *)
(* StartCriticalSection and EndCriticalSection is therefore one step, and  *)
(* what it does after EndCriticalSection is further steps.  The lists are  *)
(* the sequences that TcbLists implements with pointers.                   *)
(***************************************************************************)
EXTENDS ThreadOrder, FiniteSets

CONSTANTS
  MAX_THREADS,   \* number of thread control blocks
  Boot,          \* priorities of the threads main() adds; the last is idle
  Priorities,    \* priorities threads are added with later
  Lock,          \* semaphores used as locks, { 1 }: boardSem, sensorSem
  Signal,        \* semaphores used as signals, { 0 }: inviteSem and the like
  Wrap,          \* 2^w for a w-bit Semaphore.count
  Durations,     \* arguments of G8RTOS_SleepThread
  MaxIds,        \* bound: how many ids AddThread issues in a behaviour
  MaxDepth,      \* bound: nesting of a thread's own critical sections
  Calls,         \* which kernel calls the threads of this instance make
  NULL

TCB == 0..(MAX_THREADS - 1)
Semaphore == Lock \cup Signal
BootThreads == 0..(Len(Boot) - 1)
IdleThread == Len(Boot) - 1

ASSUME BootAssumption ==
  /\ MAX_THREADS \in Nat
  /\ Boot \in Seq(Nat)
  /\ Len(Boot) \in 1..MAX_THREADS
ASSUME PriorityAssumption == Priorities \subseteq Nat
ASSUME SemaphoreAssumption ==
  /\ Lock \cap Signal = {}
  /\ NULL \notin Lock \cup Signal
  /\ Wrap \in Nat /\ Wrap > 1
ASSUME DurationAssumption == Durations \subseteq Nat \ {0}
ASSUME BoundAssumption == MaxIds \in Nat /\ MaxDepth \in Nat

VARIABLES
  alive, sleepTime, blockedSem, priority, id,         \* fields of each TCB
  runningThreads, blockedThreads, sleepingThreads,    \* the lists
  currentThread, numberThreads, idCounter,
  isYielding, canContextSwitch,
  primask,       \* interrupts are masked
  pendSV,        \* a context switch is pending
  count,         \* Semaphore.count
  pc,            \* where each thread is inside a kernel call; "run" is outside
  wants,         \* the semaphore of the G8RTOS_AcquireSemaphore it is inside
  loaded,        \* register copy of the count that "s->count--" decrements
  depth,         \* critical sections a thread has started and not ended
  holds          \* locks a thread has acquired and not released

tcbVars == <<alive, sleepTime, blockedSem, priority, id>>
listVars == <<runningThreads, blockedThreads, sleepingThreads>>
flagVars == <<isYielding, canContextSwitch, primask, pendSV>>
threadVars == <<pc, wants, loaded, depth, holds>>
vars == <<tcbVars, listVars, currentThread, numberThreads, idCounter,
          flagVars, count, threadVars>>

Positions == {"run", "mark", "pend", "load", "store", "switch", "die", "dead"}

TypeOK ==
  /\ alive \in [TCB -> BOOLEAN]
  /\ sleepTime \in [TCB -> Nat]
  /\ blockedSem \in [TCB -> Semaphore \cup {NULL}]
  /\ priority \in [TCB -> Nat]
  /\ id \in [TCB -> Nat \X TCB]
  /\ runningThreads \in Seq(TCB)
  /\ blockedThreads \in Seq(TCB)
  /\ sleepingThreads \in Seq(TCB)
  /\ currentThread \in TCB
  /\ numberThreads \in Nat
  /\ idCounter \in Nat
  /\ isYielding \in BOOLEAN
  /\ canContextSwitch \in BOOLEAN
  /\ primask \in BOOLEAN
  /\ pendSV \in BOOLEAN
  /\ count \in [Semaphore -> 0..(Wrap - 1)]
  /\ pc \in [TCB -> Positions]
  /\ wants \in [TCB -> Semaphore \cup {NULL}]
  /\ loaded \in [TCB -> 0..(Wrap - 1)]
  /\ depth \in [TCB -> Nat]
  /\ holds \in [TCB -> SUBSET Lock]
-----------------------------------------------------------------------------
(***************************************************************************)
(* The state of a thread, as the kernel reads it off the TCB.              *)
(***************************************************************************)
IsThreadActive(t) == alive[t] /\ sleepTime[t] = 0 /\ blockedSem[t] = NULL
IsThreadSleeping(t) == sleepTime[t] # 0
IsThreadBlocked(t) == blockedSem[t] # NULL

\* The CPU executes code of t: no context switch is due.
Runs(t) == t = currentThread /\ ~(pendSV /\ ~primask)

\* Mutant of MayCall: the idle thread makes kernel calls too.
MayCallWhenIdle(t, call) == Runs(t) /\ pc[t] = "run" /\ call \in Calls

\* Thread t is outside the kernel and may make the given call; the idle thread
\* is an empty loop.
MayCall(t, call) == Runs(t) /\ pc[t] = "run" /\ t # IdleThread /\ call \in Calls

\* Mutant of Park: the call returns without its tail, no switch is asked for.
ParkNowhere(t, tail) == pc' = pc

\* Thread t has left the running list; the tail of its call is still to come.
Park(t, tail) == pc' = [pc EXCEPT ![t] = tail]
-----------------------------------------------------------------------------
(***************************************************************************)
(* The state G8RTOS_Launch starts the first thread in: the threads main()  *)
(* added, in that order, and the first of the highest priority current.    *)
(***************************************************************************)
First == {t \in BootThreads :
            /\ \A u \in BootThreads : Boot[t + 1] <= Boot[u + 1]
            /\ \A u \in BootThreads : u < t => Boot[t + 1] < Boot[u + 1]}

Init ==
  /\ alive = [t \in TCB |-> t \in BootThreads]
  /\ sleepTime = [t \in TCB |-> 0]
  /\ blockedSem = [t \in TCB |-> NULL]
  /\ priority = [t \in TCB |-> IF t \in BootThreads THEN Boot[t + 1] ELSE 0]
  /\ id = [t \in TCB |-> IF t \in BootThreads THEN <<t, t>> ELSE <<0, 0>>]
  /\ runningThreads = [i \in 1..Len(Boot) |-> i - 1]
  /\ blockedThreads = << >>
  /\ sleepingThreads = << >>
  /\ currentThread \in First
  /\ numberThreads = Len(Boot)
  /\ idCounter = Len(Boot)
  /\ isYielding = FALSE
  /\ canContextSwitch = TRUE
  /\ primask = FALSE
  /\ pendSV = FALSE
  /\ count = [s \in Semaphore |-> IF s \in Lock THEN 1 ELSE 0]
  /\ pc = [t \in TCB |-> IF t \in BootThreads THEN "run" ELSE "dead"]
  /\ wants = [t \in TCB |-> NULL]
  /\ loaded = [t \in TCB |-> 0]
  /\ depth = [t \in TCB |-> 0]
  /\ holds = [t \in TCB |-> {}]
-----------------------------------------------------------------------------
(***************************************************************************)
(* G8RTOS_Scheduler, called by PendSV_Handler.  The search starts at the   *)
(* thread after the current one, or at the head of the list if the current *)
(* thread has left it, and goes once round the list: thr is the thread the *)
(* loop looks at, nextThr the best it has seen.                            *)
(***************************************************************************)
\* Mutant of SearchStart: always from the head of the list.
SearchFromHead == 1

SearchStart ==
  IF IsThreadActive(currentThread)
    THEN (PositionOf(runningThreads, currentThread) % Len(runningThreads)) + 1
    ELSE 1

\* The thread k places along the ring from where the search starts.
Ring(k) == runningThreads[((SearchStart - 1 + k) % Len(runningThreads)) + 1]

\* Mutant of Overtakes: without "thr != currentThread" a yielding thread that
\* is itself of the best priority overtakes the others.
OvertakesItself(thr, nextThr) ==
  /\ priority[thr] < priority[nextThr] \/ (nextThr = currentThread /\ isYielding)
  /\ isYielding

\* Thread thr is better than the best so far; without a yield none is, and the
\* loop ends where it started.
Overtakes(thr, nextThr) ==
  /\ priority[thr] < priority[nextThr] \/ (nextThr = currentThread /\ isYielding)
  /\ thr # currentThread /\ isYielding

\* The best thread after i turns of the loop.
Search ==
  LET nextThr[i \in 0..(Len(runningThreads) - 1)] ==
        IF i = 0 THEN Ring(0)
        ELSE IF Overtakes(Ring(i), nextThr[i - 1]) THEN Ring(i) ELSE nextThr[i - 1]
  IN  nextThr

G8RTOS_Scheduler ==
  /\ currentThread' = Search[Len(runningThreads) - 1]
  /\ isYielding' = FALSE

PendSV_Handler ==
  /\ pendSV /\ ~primask
  /\ G8RTOS_Scheduler
  /\ pendSV' = FALSE
  /\ UNCHANGED <<tcbVars, listVars, numberThreads, idCounter,
                 canContextSwitch, primask, count, threadVars>>

\* The thread after t on the ring of list s.
NextOn(s, t) == s[(PositionOf(s, t) % Len(s)) + 1]

\* One turn of the loop over the sleeping threads: thr is counted down and, if
\* its time is over, moved to the running list; the loop goes on to the thread
\* that was behind it before the move.
Turn(w) ==
  LET over == w.sleepTime[w.thr] = 1
  IN  [thr |-> NextOn(w.sleeping, w.thr),
       sleepTime |-> [w.sleepTime EXCEPT ![w.thr] = @ - 1],
       sleeping |-> IF over THEN Without(w.sleeping, w.thr) ELSE w.sleeping,
       running |-> IF over THEN Append(w.running, w.thr) ELSE w.running]

\* The loop after i turns, from the head of the list, as often as the list was
\* long when it began.
Walked ==
  LET walk[i \in 0..Len(sleepingThreads)] ==
        IF i = 0 THEN [thr |-> sleepingThreads[1], sleepTime |-> sleepTime,
                       sleeping |-> sleepingThreads, running |-> runningThreads]
        ELSE Turn(walk[i - 1])
  IN  walk

\* Mutant of CountSleepersDown: the bound of the loop is the size of the list as
\* it shrinks.
CountLiveSize ==
  \E i \in 1..Len(sleepingThreads) :
    /\ Len(Walked[i].sleeping) <= i
    /\ \A j \in 1..(i - 1) : Len(Walked[j].sleeping) > j
    /\ sleepTime' = Walked[i].sleepTime
    /\ sleepingThreads' = Walked[i].sleeping
    /\ runningThreads' = Walked[i].running

CountSleepersDown ==
  LET w == Walked[Len(sleepingThreads)]
  IN  /\ sleepTime' = w.sleepTime
      /\ sleepingThreads' = w.sleeping
      /\ runningThreads' = w.running

(***************************************************************************)
(* SysTick_Handler, every millisecond: it counts the sleeping threads down,*)
(* wakes those whose time is over, and asks for a context switch.  No      *)
(* periodic thread is registered by the board: that loop makes no turn.    *)
(***************************************************************************)
SysTick_Handler ==
  /\ ~primask
  /\ IF Len(sleepingThreads) # 0
       THEN CountSleepersDown
       ELSE UNCHANGED <<sleepTime, sleepingThreads, runningThreads>>
  /\ pendSV' = (pendSV \/ (canContextSwitch /\ numberThreads > 1))
  /\ UNCHANGED <<alive, blockedSem, priority, id, blockedThreads,
                 currentThread, numberThreads, idCounter,
                 isYielding, canContextSwitch, primask, count, threadVars>>
-----------------------------------------------------------------------------
(***************************************************************************)
(* G8RTOS_AcquireSemaphore.  A lock is not acquired twice by its holder.   *)
(***************************************************************************)
AcquireFree(t, s) ==
  /\ MayCall(t, "acquire") /\ t \in BootThreads /\ s \notin holds[t]
  /\ count[s] # 0
  /\ count' = [count EXCEPT ![s] = @ - 1]
  /\ holds' = [holds EXCEPT ![t] = @ \cup ({s} \cap Lock)]
  /\ primask' = FALSE
  /\ UNCHANGED <<tcbVars, listVars, currentThread, numberThreads, idCounter,
                 isYielding, canContextSwitch, pendSV, pc, wants, loaded, depth>>

AcquireBlock(t, s) ==
  /\ MayCall(t, "acquire") /\ t \in BootThreads /\ s \notin holds[t]
  /\ count[s] = 0
  /\ blockedSem' = [blockedSem EXCEPT ![t] = s]
  /\ runningThreads' = Without(runningThreads, t)
  /\ blockedThreads' = Append(blockedThreads, t)
  /\ primask' = FALSE
  /\ Park(t, "mark")
  /\ wants' = [wants EXCEPT ![t] = s]
  /\ UNCHANGED <<alive, sleepTime, priority, id, sleepingThreads,
                 currentThread, numberThreads, idCounter,
                 isYielding, canContextSwitch, pendSV, count,
                 loaded, depth, holds>>

\* G8RTOS_YieldThread, called by a thread or, after it has blocked, by
\* G8RTOS_AcquireSemaphore: first the flag, then the request to switch.
Yield(t) ==
  /\ MayCall(t, "yield")
  /\ pc' = [pc EXCEPT ![t] = "mark"]
  /\ UNCHANGED <<tcbVars, listVars, currentThread, numberThreads, idCounter,
                 flagVars, count, wants, loaded, depth, holds>>

YieldMark(t) ==
  /\ Runs(t) /\ pc[t] = "mark"
  /\ isYielding' = (isYielding \/ IsThreadActive(t))
  /\ pc' = [pc EXCEPT ![t] = "pend"]
  /\ UNCHANGED <<tcbVars, listVars, currentThread, numberThreads, idCounter,
                 canContextSwitch, primask, pendSV, count,
                 wants, loaded, depth, holds>>

YieldPend(t) ==
  /\ Runs(t) /\ pc[t] = "pend"
  /\ pendSV' = TRUE
  /\ pc' = [pc EXCEPT ![t] = IF wants[t] = NULL THEN "run" ELSE "load"]
  /\ UNCHANGED <<tcbVars, listVars, currentThread, numberThreads, idCounter,
                 isYielding, canContextSwitch, primask, count,
                 wants, loaded, depth, holds>>

\* Mutant of Decremented: a decrement without the wrap of the unsigned type.
DecrementedUnbounded(n) == n - 1

\* n-- of a Semaphore.count.
Decremented(n) == (n + Wrap - 1) % Wrap

\* "s->count--" of a thread that has been woken, outside the critical section:
\* a load and a store, with the other threads free to run in between.
TakeLoad(t) ==
  /\ Runs(t) /\ pc[t] = "load"
  /\ loaded' = [loaded EXCEPT ![t] = count[wants[t]]]
  /\ pc' = [pc EXCEPT ![t] = "store"]
  /\ UNCHANGED <<tcbVars, listVars, currentThread, numberThreads, idCounter,
                 flagVars, count, wants, depth, holds>>

TakeStore(t) ==
  /\ Runs(t) /\ pc[t] = "store"
  /\ count' = [count EXCEPT ![wants[t]] = Decremented(loaded[t])]
  /\ holds' = [holds EXCEPT ![t] = @ \cup ({wants[t]} \cap Lock)]
  /\ pc' = [pc EXCEPT ![t] = "run"]
  /\ wants' = [wants EXCEPT ![t] = NULL]
  /\ loaded' = [loaded EXCEPT ![t] = 0]
  /\ UNCHANGED <<tcbVars, listVars, currentThread, numberThreads, idCounter,
                 flagVars, depth>>

(***************************************************************************)
(* G8RTOS_ReleaseSemaphore: the first thread of the blocked list that waits*)
(* for s becomes runnable.  A lock is released by a thread that holds it.  *)
(***************************************************************************)
\* Mutant of Unblock: the thread is not taken out of the blocked list.
UnblockStillListed(s) ==
  \/ /\ \A u \in Members(blockedThreads) : blockedSem[u] # s
     /\ UNCHANGED <<blockedSem, blockedThreads, runningThreads>>
  \/ \E u \in Members(blockedThreads) :
       /\ blockedSem[u] = s
       /\ blockedSem' = [blockedSem EXCEPT ![u] = NULL]
       /\ runningThreads' = Append(runningThreads, u)
       /\ UNCHANGED blockedThreads

Unblock(s) ==
  \/ /\ \A u \in Members(blockedThreads) : blockedSem[u] # s
     /\ UNCHANGED <<blockedSem, blockedThreads, runningThreads>>
  \/ \E i \in 1..Len(blockedThreads) :
       /\ blockedSem[blockedThreads[i]] = s
       /\ \A j \in 1..(i - 1) : blockedSem[blockedThreads[j]] # s
       /\ blockedSem' = [blockedSem EXCEPT ![blockedThreads[i]] = NULL]
       /\ blockedThreads' = DropAt(blockedThreads, i)
       /\ runningThreads' = Append(runningThreads, blockedThreads[i])

G8RTOS_ReleaseSemaphore(t, s) ==
  /\ MayCall(t, "release") /\ (s \in Lock => s \in holds[t])
  /\ count' = [count EXCEPT ![s] = (@ + 1) % Wrap]
  /\ Unblock(s)
  /\ holds' = [holds EXCEPT ![t] = @ \ {s}]
  /\ primask' = FALSE
  /\ UNCHANGED <<alive, sleepTime, priority, id, sleepingThreads,
                 currentThread, numberThreads, idCounter,
                 isYielding, canContextSwitch, pendSV, pc, wants, loaded, depth>>
-----------------------------------------------------------------------------
(***************************************************************************)
(* G8RTOS_SleepThread; the request to switch comes after the section.      *)
(***************************************************************************)
G8RTOS_SleepThread(t, ms) ==
  /\ MayCall(t, "sleep")
  /\ sleepTime' = [sleepTime EXCEPT ![t] = ms]
  /\ runningThreads' = Without(runningThreads, t)
  /\ sleepingThreads' = Append(sleepingThreads, t)
  /\ primask' = FALSE
  /\ Park(t, "switch")
  /\ UNCHANGED <<alive, blockedSem, priority, id, blockedThreads,
                 currentThread, numberThreads, idCounter,
                 isYielding, canContextSwitch, pendSV, count,
                 wants, loaded, depth, holds>>

\* TriggerContextSwitch, at the end of G8RTOS_SleepThread and of a thread that
\* has killed itself, which then spins until the switch happens.
TriggerContextSwitch(t) ==
  /\ Runs(t) /\ pc[t] \in {"switch", "die"}
  /\ pendSV' = TRUE
  /\ pc' = [pc EXCEPT ![t] = IF @ = "switch" THEN "run" ELSE "dead"]
  /\ UNCHANGED <<tcbVars, listVars, currentThread, numberThreads, idCounter,
                 isYielding, canContextSwitch, primask, count,
                 wants, loaded, depth, holds>>

(***************************************************************************)
(* G8RTOS_AddThread: the first dead TCB is set up and put at the end of the*)
(* running list; with no dead TCB nothing happens.                         *)
(***************************************************************************)
\* Mutant of FreshTCB: the times and semaphores of the TCB's last thread stay.
StaleTCB(new, p) ==
  /\ alive' = [alive EXCEPT ![new] = TRUE]
  /\ priority' = [priority EXCEPT ![new] = p]
  /\ id' = [id EXCEPT ![new] = <<idCounter, new>>]
  /\ UNCHANGED <<sleepTime, blockedSem>>

\* The TCB that "*newThread = (TCB) {...}" sets up.
FreshTCB(new, p) ==
  /\ alive' = [alive EXCEPT ![new] = TRUE]
  /\ sleepTime' = [sleepTime EXCEPT ![new] = 0]
  /\ blockedSem' = [blockedSem EXCEPT ![new] = NULL]
  /\ priority' = [priority EXCEPT ![new] = p]
  /\ id' = [id EXCEPT ![new] = <<idCounter, new>>]

AddThread(t, p, new) ==
  /\ MayCall(t, "add") /\ t \in BootThreads /\ idCounter < MaxIds
  /\ numberThreads # MAX_THREADS
  /\ ~alive[new] /\ \A u \in 0..(new - 1) : alive[u]
  /\ FreshTCB(new, p)
  /\ idCounter' = idCounter + 1
  /\ runningThreads' = Append(runningThreads, new)
  /\ numberThreads' = numberThreads + 1
  /\ primask' = FALSE
  /\ pc' = [pc EXCEPT ![new] = "run"]
  /\ wants' = [wants EXCEPT ![new] = NULL]
  /\ depth' = [depth EXCEPT ![new] = 0]
  /\ UNCHANGED <<blockedThreads, sleepingThreads, currentThread,
                 isYielding, canContextSwitch, pendSV, count, loaded, holds>>

AddThreadRefused(t) ==
  /\ MayCall(t, "add") /\ t \in BootThreads
  /\ numberThreads # MAX_THREADS => \A u \in TCB : alive[u]
  /\ primask' = FALSE
  /\ UNCHANGED <<tcbVars, listVars, currentThread, numberThreads, idCounter,
                 isYielding, canContextSwitch, pendSV, count, threadVars>>

(***************************************************************************)
(* G8RTOS_KillThread, with the id of a thread added after the boot.  The   *)
(* refusals return from inside the critical section.                       *)
(***************************************************************************)
AddedIds == (Len(Boot)..(idCounter - 1)) \X TCB
Killable(k) == numberThreads # 1 /\ alive[k[2]] /\ id[k[2]] = k

KillThread(t, k) ==
  LET victim == k[2]
  IN  /\ MayCall(t, "kill") /\ Killable(k)
      /\ sleepingThreads' = IF IsThreadSleeping(victim)
                              THEN Without(sleepingThreads, victim) ELSE sleepingThreads
      /\ blockedThreads' = IF ~IsThreadSleeping(victim) /\ IsThreadBlocked(victim)
                             THEN Without(blockedThreads, victim) ELSE blockedThreads
      /\ runningThreads' = IF IsThreadSleeping(victim) \/ IsThreadBlocked(victim)
                             THEN runningThreads ELSE Without(runningThreads, victim)
      /\ alive' = [alive EXCEPT ![victim] = FALSE]
      /\ numberThreads' = numberThreads - 1
      /\ primask' = FALSE
      /\ pc' = [pc EXCEPT ![victim] = IF victim = t THEN "die" ELSE "dead"]
      /\ UNCHANGED <<sleepTime, blockedSem, priority, id, currentThread, idCounter,
                     isYielding, canContextSwitch, pendSV, count,
                     wants, loaded, depth, holds>>

KillThreadRefused(t, k) ==
  /\ MayCall(t, "kill") /\ ~Killable(k)
  /\ primask' = TRUE
  /\ UNCHANGED <<tcbVars, listVars, currentThread, numberThreads, idCounter,
                 isYielding, canContextSwitch, pendSV, count, threadVars>>

\* What a thread added later does when it returns; the boot threads never do.
G8RTOS_KillSelf(t) == t \notin BootThreads /\ KillThread(t, id[t])

(***************************************************************************)
(* A thread's own critical section.  EndCriticalSection restores PRIMASK   *)
(* from the word StartCriticalSection saved it to; SavedPRIMASK_ptr is the *)
(* constant 32, whose word is the zero of a reserved vector in flash, so   *)
(* that every end unmasks, the end of an inner section too.                *)
(***************************************************************************)
G8RTOS_StartCriticalSection(t) ==
  /\ MayCall(t, "section") /\ t \in BootThreads /\ depth[t] < MaxDepth
  /\ primask' = TRUE
  /\ depth' = [depth EXCEPT ![t] = @ + 1]
  /\ UNCHANGED <<tcbVars, listVars, currentThread, numberThreads, idCounter,
                 isYielding, canContextSwitch, pendSV, count,
                 pc, wants, loaded, holds>>

G8RTOS_EndCriticalSection(t) ==
  /\ MayCall(t, "section") /\ depth[t] > 0
  /\ primask' = FALSE
  /\ depth' = [depth EXCEPT ![t] = @ - 1]
  /\ UNCHANGED <<tcbVars, listVars, currentThread, numberThreads, idCounter,
                 isYielding, canContextSwitch, pendSV, count,
                 pc, wants, loaded, holds>>

G8RTOS_SetThreadSwitchable(t, b) ==
  /\ MayCall(t, "switchable") /\ t \in BootThreads
  /\ canContextSwitch' = b
  /\ UNCHANGED <<tcbVars, listVars, currentThread, numberThreads, idCounter,
                 isYielding, primask, pendSV, count, threadVars>>
-----------------------------------------------------------------------------
Interrupt == PendSV_Handler \/ SysTick_Handler

SemaphoreCall(t) ==
  \/ \E s \in Semaphore : AcquireFree(t, s) \/ AcquireBlock(t, s)
                          \/ G8RTOS_ReleaseSemaphore(t, s)
  \/ TakeLoad(t) \/ TakeStore(t)

SchedulerCall(t) ==
  \/ Yield(t) \/ YieldMark(t) \/ YieldPend(t)
  \/ \E ms \in Durations : G8RTOS_SleepThread(t, ms)
  \/ TriggerContextSwitch(t)
  \/ \E b \in BOOLEAN : G8RTOS_SetThreadSwitchable(t, b)

ThreadCall(t) ==
  \/ \E p \in Priorities, new \in TCB : AddThread(t, p, new)
  \/ AddThreadRefused(t)
  \/ \E k \in AddedIds : KillThread(t, k) \/ KillThreadRefused(t, k)
  \/ G8RTOS_KillSelf(t)

SectionCall(t) == G8RTOS_StartCriticalSection(t) \/ G8RTOS_EndCriticalSection(t)

ThreadStep(t) == SemaphoreCall(t) \/ SchedulerCall(t) \/ ThreadCall(t) \/ SectionCall(t)

Next == Interrupt \/ \E t \in TCB : ThreadStep(t)

Spec == Init /\ [][Next]_vars
-----------------------------------------------------------------------------
(***************************************************************************)
(* Every live thread is on exactly the list its flags call for, once, and  *)
(* numberThreads counts the live threads.  The kernel never stores which   *)
(* list a thread is in: G8RTOS_KillThread and the wake-ups guess it from   *)
(* sleepTime and blockedSem (G8RTOS_Scheduler.c 376-381), and a wrong guess*)
(* would splice a TCB out of a list it is not in.                          *)
(***************************************************************************)
ListsMatchFlags ==
  /\ Distinct(runningThreads) /\ Distinct(blockedThreads) /\ Distinct(sleepingThreads)
  /\ Members(runningThreads) = {t \in TCB : IsThreadActive(t)}
  /\ Members(blockedThreads) = {t \in TCB : alive[t] /\ IsThreadBlocked(t)}
  /\ Members(sleepingThreads) = {t \in TCB : alive[t] /\ IsThreadSleeping(t)}
  /\ \A t \in TCB : alive[t] => ~(IsThreadBlocked(t) /\ IsThreadSleeping(t))
  /\ numberThreads = Cardinality({t \in TCB : alive[t]})

(***************************************************************************)
(* The current thread is off the running list only on its way out: it has  *)
(* interrupts enabled and a context switch pending or still to be asked    *)
(* for in the tail of the call that took it off.  Hence every call that    *)
(* removes currentThread from runningThreads, and the scheduler's          *)
(* currentThread->next, finds it there (G8RTOS_Scheduler.c 73-74, 121-125; *)
(* G8RTOS_Semaphores.c 52-55).                                             *)
(***************************************************************************)
CurrentOffListOnlyLeaving ==
  ~IsThreadActive(currentThread) =>
    ~primask /\ (pendSV \/ pc[currentThread] \in {"mark", "pend", "switch", "die"})

(***************************************************************************)
(* A blocked thread still has its decrement ahead of it: it is blocked on  *)
(* the semaphore it asked for, and has not yet read that semaphore's count *)
(* (G8RTOS_Semaphores.c 50-59).                                            *)
(***************************************************************************)
BlockedBeforeTaking ==
  \A t \in Members(blockedThreads) :
    blockedSem[t] = wants[t] /\ pc[t] \in {"mark", "pend", "load"}

\* The scheduler "assumes that there is an available thread": there is, since
\* the idle thread makes no kernel call (G8RTOS_Scheduler.c 65; main.cpp 21).
SomeThreadRunnable == IdleThread \in Members(runningThreads)

(***************************************************************************)
(* A thread that yields hands the CPU to a running thread of the best      *)
(* priority among the others, whatever the lists became between the flag   *)
(* and the switch: the loop looks at each of them, and lets no later thread*)
(* overtake it (G8RTOS_Scheduler.c 84-102).                                *)
(***************************************************************************)
YieldPicksBest ==
  [][isYielding /\ ~isYielding' /\ Len(runningThreads) > 1 =>
       /\ currentThread' # currentThread
       /\ \A t \in Members(runningThreads) \ {currentThread} :
            priority[currentThread'] <= priority[t]]_vars

\* Thread t is counted down by one millisecond.
Ticked(t) == sleepTime'[t] = sleepTime[t] - 1

(***************************************************************************)
(* A tick that counts one sleeper down counts each of them, once, wakes    *)
(* those whose time is over and touches no other thread, though the loop   *)
(* takes threads off the list it is walking (G8RTOS_Scheduler.c 153-174).  *)
(***************************************************************************)
TicksReachAll ==
  [][(\E t \in Members(sleepingThreads) : Ticked(t)) =>
       /\ \A t \in TCB : IF t \in Members(sleepingThreads)
                           THEN Ticked(t) ELSE sleepTime'[t] = sleepTime[t]
       /\ Members(runningThreads') = Members(runningThreads) \cup
            {t \in Members(sleepingThreads) : sleepTime[t] = 1}]_vars

\* A lock is held by one thread at a time: Acquire "Decrements semaphore when
\* available", "THIS IS A CRITICAL SECTION" (G8RTOS_Semaphores.c 33, 36).
MutualExclusion ==
  \A s \in Lock, t, u \in TCB : s \in holds[t] /\ s \in holds[u] => t = u
-----------------------------------------------------------------------------
\* The tick comes back for ever (strongly fair, since the hardware keeps a tick
\* that arrives in a critical section pending until its end), and the CPU
\* executes: switches that are pending, and the code of the running thread up
\* to the end of its kernel call or of its critical section.
Fairness ==
  /\ SF_vars(SysTick_Handler)
  /\ WF_vars(PendSV_Handler)
  /\ \A t \in TCB : /\ WF_vars(YieldMark(t) \/ YieldPend(t) \/ TriggerContextSwitch(t))
                    /\ WF_vars(TakeLoad(t) \/ TakeStore(t))
                    /\ WF_vars(G8RTOS_EndCriticalSection(t))

FairSpec == Spec /\ Fairness

\* Round robin: a thread that is not blocked gets the CPU, a sleeping one once
\* it has been woken, unless it is killed first (G8RTOS_Scheduler.c 73-82).
UnblockedRuns ==
  \A t \in TCB : t \in Members(runningThreads) \cup Members(sleepingThreads)
                   ~> (currentThread = t \/ ~alive[t])
=============================================================================
