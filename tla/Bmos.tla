-------------------------------- MODULE Bmos --------------------------------
(***************************************************************************)
(* The kernel with the tasks and interrupt handlers that use it: the task  *)
(* switcher, semaphores and mutexes over one set of tasks.  The constants  *)
(* say which calls each task makes; in what order is left open.            *)
(***************************************************************************)
EXTENDS BmosSem, BmosMutex, Sequences, Subsequence

CONSTANTS
  WaitCalls,  \* [Task -> set of <<semaphore, tms>>]
  PostCalls,  \* [Task -> set of semaphores]
  LockCalls,  \* [Task -> set of <<mutex, tms>>]
  DelayCalls, \* [Task -> set of times]
  WakeCalls,  \* [Task -> set of tasks]
  Exiting,    \* the tasks whose function may return
  IsrPosts    \* the semaphores interrupt handlers post

(* The idle task only executes wfi (task.c:53-57).  task_wake, which       *)
(* nothing in the repository calls, is for a task in task_delay: in a wait *)
(* loop without a timeout it would fail the XASSERT of mutex_lock.         *)
ASSUME ClientAssumption ==
  /\ Sem \cap Mutex = {}
  /\ WaitCalls \in [Task -> SUBSET (Sem \X Int)]
  /\ PostCalls \in [Task -> SUBSET Sem]
  /\ LockCalls \in [Task -> SUBSET (Mutex \X Int)]
  /\ DelayCalls \in [Task -> SUBSET Int]
  /\ WakeCalls \in [Task -> SUBSET Task]
  /\ \A t \in Task : \A u \in WakeCalls[t] : WaitCalls[u] = {} /\ LockCalls[u] = {}
  /\ Exiting \subseteq Task \ {Idle}
  /\ IsrPosts \subseteq Sem
  /\ WaitCalls[Idle] = {} /\ PostCalls[Idle] = {} /\ LockCalls[Idle] = {}
  /\ DelayCalls[Idle] = {} /\ WakeCalls[Idle] = {}

vars == <<kernelVars, waitVars, count, mutexVars>>

TypeOK == TaskTypeOK /\ WaitTypeOK /\ SemTypeOK /\ MutexTypeOK

Init == TaskInit /\ WaitInit /\ sem_create /\ mutex_create

Wait(t) == \E c \in WaitCalls[t] : sem_wait_ms(t, c[1], c[2]) /\ UNCHANGED mutexVars
WaitResume(t) == \E s \in Sem : sem_wait_resume(t, s) /\ UNCHANGED mutexVars
Post(t) == AtCall(t) /\ \E s \in PostCalls[t] : sem_post(s) /\ UNCHANGED mutexVars
Lock(t) == \E c \in LockCalls[t] : mutex_lock_ms(t, c[1], c[2]) /\ UNCHANGED count
LockResume(t) == \E m \in Mutex : mutex_lock_resume(t, m) /\ UNCHANGED count
Unlock(t) == \E m \in Mutex : mutex_unlock(t, m) /\ UNCHANGED count

Delay(t) ==
  /\ AtCall(t)
  /\ \E time \in DelayCalls[t] : task_delay(t, time)
  /\ UNCHANGED <<waitVars, count, mutexVars>>

Wake(t) ==
  /\ AtCall(t)
  /\ \E u \in WakeCalls[t] : task_wake(t, u)
  /\ UNCHANGED <<waitVars, count, mutexVars>>

Exit(t) ==
  /\ AtCall(t)
  /\ t \in Exiting
  /\ task_cleanup(t)
  /\ UNCHANGED <<waitVars, count, mutexVars>>

(* A device interrupt, whose handler may post any number of times.         *)
IsrEnter == IsrPosts # {} /\ IrqEnter /\ UNCHANGED <<waitVars, count, mutexVars>>
IsrPost == irq /\ \E s \in IsrPosts : sem_post(s) /\ UNCHANGED mutexVars
IsrReturn == IrqReturn /\ UNCHANGED <<waitVars, count, mutexVars>>

Tick == systick_handler /\ UNCHANGED <<waitVars, count, mutexVars>>

PendSV == _pendsv_handler /\ UNCHANGED <<waitVars, count, mutexVars>>

TaskStep(t) ==
  \/ Wait(t) \/ WaitResume(t) \/ Post(t)
  \/ Lock(t) \/ LockResume(t) \/ Unlock(t)
  \/ Delay(t) \/ Wake(t) \/ Exit(t)

Next == Tick \/ PendSV \/ IsrEnter \/ IsrPost \/ IsrReturn \/ \E t \in Task : TaskStep(t)

Spec == Init /\ [][Next]_vars

(* SysTick comes every millisecond, PendSV when nothing else is pending,   *)
(* and handlers return.  A task that gets the CPU again and again comes to *)
(* its next critical section: a time slice is thousands of instructions.   *)
KernelFairness ==
  /\ SF_vars(Tick) /\ WF_vars(PendSV) /\ WF_vars(IsrReturn)
  /\ \A t \in {u \in Task : WaitCalls[u] # {} \/ LockCalls[u] # {}} :
       SF_vars(WaitResume(t) \/ LockResume(t))

(* Tasks unlock what they locked.                                          *)
ClientFairness ==
  \A t \in {u \in Task : LockCalls[u] # {}} : SF_vars(Unlock(t))

FairSpec == Spec /\ KernelFairness /\ ClientFairness

-----------------------------------------------------------------------------
(* Properties.                                                             *)

(* Code of a task runs only while the task is ready: one that went to      *)
(* sleep in task_delay or a wait loop, or that ended, does not come back   *)
(* from schedule() until it was woken.                                     *)
RunningIsReady == ~pendsv => state[CURRENT] = "RUN"

(* A task that was told OK by mutex_lock_ms and has not unlocked as often  *)
(* is the owner, alone, and the count is its depth of recursion: the       *)
(* XASSERT of mutex_unlock (mutex.c:50) holds for every such task.         *)
MutexExclusion ==
  \A m \in Mutex, t \in Task :
    held[m][t] > 0 => owner[m] = t /\ depth[m] = held[m][t]

(* The XASSERTs at the end of the wait loops (sem.c:116, sem.c:121,        *)
(* mutex.c:90, mutex.c:95, mutex.c:111): a task coming back was told how   *)
(* its sleep ended, a free mutex has no owner, and a call without a        *)
(* timeout does not time out.                                              *)
WaitLoopAsserts ==
  \A t \in Task : Running(t) /\ waitOn[t] # NULL =>
    /\ status[t] \in {"OK", "TIMEOUT"}
    /\ waitMs[t] = FOREVER => status[t] = "OK"
    /\ waitOn[t] \in Mutex /\ depth[waitOn[t]] = 0 => owner[waitOn[t]] = NULL

Sleepers(w) == {t \in Task : waitOn[t] = w /\ state[t] = "SLEEP"}

(* In the loop on w, awake and not told TIMEOUT: about to try again.       *)
Woken(w) == {t \in Task : waitOn[t] = w /\ state[t] = "RUN" /\ status[t] = "OK"}

Expired(w) == {t \in Task : waitOn[t] = w /\ state[t] = "RUN" /\ status[t] = "TIMEOUT"}

(* The waiter list of w, from first along next_waiter, in order.           *)
Waiting(w) ==
  LET nth == Nth(w)
      n == Cardinality({i \in 0..Cardinality(Task) : nth[i] # NULL})
  IN  [i \in 1..n |-> nth[i-1]]

(* Every call that waits for w waits without a timeout.                    *)
Timeless(w) ==
  \A t \in Task : \A c \in WaitCalls[t] \cup LockCalls[t] : c[1] = w => c[2] = FOREVER

Callers(w) == {t \in Task : \E c \in WaitCalls[t] \cup LockCalls[t] : c[1] = w}

(* Timed waits are by the only task that waits for the object: for a       *)
(* semaphore the only one that calls sem_wait_ms, for a mutex one of two   *)
(* that lock it.  Others behind it would miss posts: a task that timed out *)
(* is on the list until it runs, and _waiters_wake_first, which looks at   *)
(* the first waiter only, then wakes nobody.                               *)
TimedWaitsAlone ==
  /\ \A s \in Sem : Timeless(s) \/ \A t, u \in Callers(s) : t = u
  /\ \A m \in Mutex :
       Timeless(m) \/ \A t, u, v \in Callers(m) : t = u \/ t = v \/ u = v

(* Every waiter list is a proper list: it holds each task that sleeps on   *)
(* the object or timed out and has not come back yet, once, no other task, *)
(* it ends, and last is its end.                                           *)
WaitListOK ==
  \A w \in WaitList :
    LET l == Waiting(w)
    IN  /\ Len(l) = Cardinality(Sleepers(w) \cup Expired(w))
        /\ {l[i] : i \in DOMAIN l} = Sleepers(w) \cup Expired(w)
        /\ l # <<>> => last[w] = l[Len(l)]

(* No wakeup is lost: while a task sleeps on a semaphore every count it    *)
(* has is one that a woken task is on its way to take, and while a task    *)
(* sleeps on a free mutex a woken one is on its way to lock it.            *)
NoLostWakeup ==
  /\ \A s \in Sem : Sleepers(s) # {} => count[s] <= Cardinality(Woken(s))
  /\ \A m \in Mutex : Sleepers(m) # {} /\ depth[m] = 0 => Woken(m) # {}

-----------------------------------------------------------------------------
(* Liveness.                                                               *)

(* The task of the highest priority gets the CPU whenever it is ready,     *)
(* even if the tick that woke it came between its call of schedule() and   *)
(* the PendSV, which then switches away from it (task.c:240-244).          *)
TopTaskRuns ==
  \A t \in Task :
    (\A u \in Task : u # t => Prio[u] < Prio[t]) =>
      (state[t] = "RUN" ~> CURRENT = t /\ ~pendsv)

(* The tasks that make no call that could put them to sleep, idle apart.   *)
Spinners ==
  {t \in Task \ (Exiting \cup {Idle}) :
     WaitCalls[t] = {} /\ LockCalls[t] = {} /\ DelayCalls[t] = {}}

(* "round robin of tasks at this priority level" (task.c:223): of tasks    *)
(* that are ready all the time, all of one priority get the CPU if one     *)
(* does.                                                                   *)
RoundRobin ==
  \A t, u \in Spinners :
    Prio[t] = Prio[u] => ([]<>(CURRENT = t) => []<>(CURRENT = u))

(* The round robin works as long as no task of higher priority comes in    *)
(* between: of two tasks of one priority that stay ready both get turns,   *)
(* whatever their peers do (task.c:219-238).                               *)
PeersTakeTurns ==
  \A t, u \in Task \ {Idle} :
    t # u /\ Prio[t] = Prio[u] =>
      (/\ <>[](state[t] = "RUN" /\ state[u] = "RUN" /\ Prio[CURRENT] <= Prio[t])
       /\ []<>(CURRENT = t)
       => []<>(CURRENT = u))

(* A task of the highest priority that waits for a mutex gets it: its      *)
(* owner gets the CPU, unlocks, and nobody overtakes the waiter.           *)
TopLockerServed ==
  \A t \in Task, m \in Mutex :
    (\A u \in Task : u # t => Prio[u] < Prio[t]) =>
      (waitOn[t] = m ~> owner[m] = t)

(* A call with a timeout that never returns is told OK again and again,    *)
(* and finds the unit taken each time: the loop then starts over with the  *)
(* whole timeout (sem.c:100-113, mutex.c:75-88).  Or it is awake and tasks *)
(* above it never let it run.  A time that ran out ends every other one.   *)
TimedCallReturns ==
  \A t \in Task :
    <>[](waitOn[t] # NULL /\ waitMs[t] # FOREVER) =>
      \/ []<>(\E w \in WaitList : t \in Woken(w))
      \/ <>[](state[t] = "RUN" /\ ~Running(t))

-----------------------------------------------------------------------------
(* Refinement: each semaphore, and each mutex, keeps the promise of module *)
(* Semaphore.  The queue is the waiter list without the tasks that timed   *)
(* out but have not taken themselves off yet.                              *)
Asleep(w) == Kept(Waiting(w), Sleepers(w))

(* The units of w that can be taken: a free mutex is one.                  *)
Value(w) == IF w \in Sem THEN count[w] ELSE IF depth[w] = 0 THEN 1 ELSE 0

Promise(w) ==
  INSTANCE Semaphore WITH
    Initial <- IF w \in Sem THEN SemInit[w] ELSE 1, value <- Value(w),
    queue <- Asleep(w), awake <- Woken(w), expired <- Expired(w)

(* Through run list, wait loops and linked lists, every semaphore behaves  *)
(* as the abstract one: posts wake in the order tasks went to sleep, and   *)
(* no wait returns OK without a unit (sem.c, task.c:306-360).              *)
SemaphoresKeepPromise ==
  /\ \A s \in Sem : Promise(s)!SemaphoreInit
  /\ [][\A s \in Sem : Promise(s)!SemaphoreStep]_vars

(* The same of every mutex (mutex.c); its recursive locks change nothing.  *)
MutexesKeepPromise ==
  /\ \A m \in Mutex : Promise(m)!SemaphoreInit
  /\ [][\A m \in Mutex : Promise(m)!SemaphoreStep]_vars
=============================================================================
