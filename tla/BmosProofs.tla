----------------------------- MODULE BmosProofs -----------------------------
(***************************************************************************)
(* Proofs about the kernel, for every set of tasks, semaphores and         *)
(* mutexes, every timeout, and every pattern of calls and interrupts: the  *)
(* scheduler, mutual exclusion and the asserts of the wait loops first;    *)
(* then, for timed waits that are alone, the waiter lists, the wakeups and *)
(* the promise of the abstract semaphore.                                  *)
(***************************************************************************)
EXTENDS Bmos, InductionLemmas, TLAPS

-----------------------------------------------------------------------------
(* What schedule() does.                                                   *)

(* Every set of tasks has a first one in the order of TASK_LIST.           *)
LEMMA FirstExists ==
  ASSUME NEW S \in SUBSET Task, S # {}
  PROVE  FirstOf(S) \in S
<1>1. \E t \in S : \A u \in S : Pos[t] <= Pos[u]
  <2> DEFINE P == {Pos[t] : t \in S}
  <2>1. P \in SUBSET Nat /\ P # {}
    BY TaskAssumption DEF TaskAssumption
  <2> HIDE DEF P
  <2>2. PICK m \in P : \A n \in P : m <= n
    BY <2>1, LeastMember
  <2> QED
    BY <2>2 DEF P
<1> QED
  BY <1>1 DEF FirstOf

(* While the idle task is ready, schedule() has a ready task to choose.    *)
LEMMA PickReady ==
  ASSUME NEW st, st[Idle] = "RUN"
  PROVE  Pick(st) \in Task /\ st[Pick(st)] = "RUN"
<1>1. Idle \in Runnable(st) /\ Runnable(st) \in SUBSET Task
  BY TaskAssumption DEF TaskAssumption, Runnable
<1>2. FirstOf(Runnable(st)) \in Runnable(st)
  BY <1>1, FirstExists
<1>3. PeersBehind(st) \in SUBSET Runnable(st)
  BY DEF PeersBehind
<1>4. PeersBehind(st) # {} => FirstOf(PeersBehind(st)) \in PeersBehind(st)
  BY <1>1, <1>3, FirstExists
<1> QED
  BY <1>1, <1>2, <1>3, <1>4 DEF Pick, Runnable

(* The part of the state the switcher lives by: idle never blocks, the     *)
(* next task is ready, and it is the current one unless a switch pends.    *)
SchedInv ==
  /\ CURRENT \in Task /\ NEXT \in Task /\ pendsv \in BOOLEAN
  /\ state[Idle] = "RUN"
  /\ state[NEXT] = "RUN"
  /\ ~pendsv => CURRENT = NEXT

(* A call of schedule() re-establishes it from any task states in which no *)
(* task but CURRENT stopped being ready, whatever it finds pending.        *)
LEMMA ScheduleSafe ==
  ASSUME SchedInv, schedule(state'), state'[Idle] = "RUN",
         \A t \in Task : state[t] = "RUN" /\ state'[t] # "RUN" => t = CURRENT /\ ~pendsv
  PROVE  SchedInv'
<1>1. Pick(state') \in Task /\ state'[Pick(state')] = "RUN"
  BY PickReady
<1>2. CASE Pick(state') # CURRENT
  BY <1>1, <1>2 DEF SchedInv, schedule
<1>3. CASE Pick(state') = CURRENT
  BY <1>1, <1>3 DEF SchedInv, schedule, schedVars
<1> QED
  BY <1>2, <1>3

-----------------------------------------------------------------------------
(* The inductive invariant of the switcher and the wait loops.             *)

Waits(t) == WaitCalls[t] # {} \/ LockCalls[t] # {}

(* What is known of a task in a wait loop: it makes such calls; awake, it  *)
(* was told why; and without a timeout it sleeps until a post.             *)
WaitInv ==
  \A t \in Task : waitOn[t] # NULL =>
    /\ Waits(t)
    /\ state[t] = "RUN" => status[t] \in {"OK", "TIMEOUT"}
    /\ waitMs[t] = FOREVER /\ state[t] = "RUN" => status[t] = "OK"
    /\ waitMs[t] = FOREVER /\ state[t] = "SLEEP" => sleep[t] < 0

CoreInv == TaskTypeOK /\ WaitTypeOK /\ SchedInv /\ WaitInv

(* Idle makes no calls.                                                    *)
LEMMA IdleOutside ==
  ASSUME WaitInv
  PROVE  waitOn[Idle] = NULL /\ ~Waits(Idle)
BY TaskAssumption, ClientAssumption
   DEF TaskAssumption, ClientAssumption, WaitInv, Waits

(* A task that goes to sleep in a wait loop.                               *)
LEMMA BlockCore ==
  ASSUME CoreInv, NEW w \in WaitList, NEW t \in Task, NEW tms \in Int,
         Running(t), Waits(t), Block(w, t, tms)
  PROVE  CoreInv'
<1>1. t # Idle
  BY IdleOutside DEF CoreInv
<1>2. /\ next_waiter' \in [Task -> Task \cup {NULL}]
      /\ first' \in [WaitList -> Task \cup {NULL}]
      /\ last' \in [WaitList -> Task \cup {NULL}]
      /\ irq' \in BOOLEAN
  BY DEF CoreInv, TaskTypeOK, Block, _waiters_add
<1>3. /\ state' \in [Task -> TaskStates]
      /\ sleep' \in [Task -> Int]
      /\ status' \in [Task -> Statuses]
      /\ \A u \in Task \ {t} :
           state'[u] = state[u] /\ sleep'[u] = sleep[u] /\ status'[u] = status[u]
      /\ \/ tms = 0 /\ state'[t] = state[t] /\ status'[t] = "TIMEOUT"
         \/ state'[t] = "SLEEP" /\ sleep'[t] = tms
  BY DEF CoreInv, TaskTypeOK, Block, _waiters_add, TaskStates, Statuses
<1>4. SchedInv'
  <2>1. state'[Idle] = "RUN"
    BY <1>1, <1>3, TaskAssumption DEF TaskAssumption, CoreInv, SchedInv
  <2>2. \A u \in Task : state[u] = "RUN" /\ state'[u] # "RUN" => u = CURRENT /\ ~pendsv
    BY <1>3 DEF Running
  <2> QED
    BY <2>1, <2>2, ScheduleSafe DEF CoreInv, Block
<1>5. TaskTypeOK'
  BY <1>2, <1>3, <1>4 DEF TaskTypeOK, SchedInv
<1>6. WaitTypeOK'
  BY DEF CoreInv, WaitTypeOK, Block
<1>7. WaitInv'
  <2> SUFFICES ASSUME NEW u \in Task, waitOn'[u] # NULL
               PROVE  /\ Waits(u)
                      /\ state'[u] = "RUN" => status'[u] \in {"OK", "TIMEOUT"}
                      /\ waitMs'[u] = FOREVER /\ state'[u] = "RUN" => status'[u] = "OK"
                      /\ waitMs'[u] = FOREVER /\ state'[u] = "SLEEP" => sleep'[u] < 0
    BY DEF WaitInv, Waits
  <2>1. CASE u = t
    <3>1. waitMs'[t] = tms
      BY DEF CoreInv, WaitTypeOK, Block
    <3> QED
      BY <2>1, <3>1, <1>3 DEF FOREVER
  <2>2. CASE u # t
    BY <2>2, <1>3 DEF CoreInv, WaitTypeOK, WaitInv, Block
  <2> QED
    BY <2>1, <2>2
<1> QED
  BY <1>4, <1>5, <1>6, <1>7 DEF CoreInv

(* _waiters_wake_first, whatever the list holds.                           *)
LEMMA WakeFirstCore ==
  ASSUME CoreInv, NEW w \in WaitList, _waiters_wake_first(w), UNCHANGED waitVars
  PROVE  CoreInv'
<1>1. CASE UNCHANGED kernelVars
  BY <1>1 DEF CoreInv, TaskTypeOK, WaitTypeOK, SchedInv, WaitInv, kernelVars,
     taskVars, listVars, schedVars, waitVars
<1>2. CASE ~ UNCHANGED kernelVars
  <2> DEFINE t == first[w]
  <2>1. /\ t \in Task
        /\ state[t] = "SLEEP"
        /\ first' = [first EXCEPT ![w] = next_waiter[t]]
        /\ next_waiter' = [next_waiter EXCEPT ![t] = NULL]
        /\ state' = [state EXCEPT ![t] = "RUN"]
        /\ status' = [status EXCEPT ![t] = "OK"]
        /\ schedule(state')
        /\ UNCHANGED <<last, sleep, irq>>
    BY <1>2 DEF _waiters_wake_first, CoreInv, TaskTypeOK
  <2> HIDE DEF t
  <2>2. \A u \in Task : state'[u] = state[u] \/ (u = t /\ state'[u] = "RUN")
    BY <2>1 DEF CoreInv, TaskTypeOK
  <2>3. SchedInv'
    BY <2>1, <2>2, ScheduleSafe, TaskAssumption DEF TaskAssumption, CoreInv, SchedInv
  <2>4. TaskTypeOK'
    BY <2>1, <2>3 DEF CoreInv, TaskTypeOK, SchedInv, TaskStates, Statuses
  <2>5. WaitTypeOK'
    BY DEF CoreInv, WaitTypeOK, waitVars
  <2>6. WaitInv'
    BY <2>1, <2>2 DEF CoreInv, TaskTypeOK, WaitInv, waitVars
  <2> QED
    BY <2>3, <2>4, <2>5, <2>6 DEF CoreInv
<1> QED
  BY <1>1, <1>2

(* Leaving a wait loop with the kernel state as it is.                     *)
LEMMA LeaveCore ==
  ASSUME CoreInv, NEW t \in Task, UNCHANGED kernelVars,
         LeaveLoop(t) \/ UNCHANGED waitVars
  PROVE  CoreInv'
<1>1. TaskTypeOK' /\ SchedInv'
  BY DEF CoreInv, TaskTypeOK, SchedInv, kernelVars, taskVars, listVars, schedVars
<1>2. WaitTypeOK'
  BY DEF CoreInv, WaitTypeOK, LeaveLoop, waitVars
<1>3. \A u \in Task :
        waitOn'[u] = NULL \/ (waitOn'[u] = waitOn[u] /\ waitMs'[u] = waitMs[u])
  BY DEF CoreInv, WaitTypeOK, LeaveLoop, waitVars
<1>4. WaitInv'
  BY <1>3 DEF CoreInv, WaitInv, Waits, kernelVars, taskVars
<1> QED
  BY <1>1, <1>2, <1>4 DEF CoreInv

(* Leaving a wait loop after a timeout.                                    *)
LEMMA GiveUpCore ==
  ASSUME CoreInv, NEW w \in WaitList, NEW t \in Task, GiveUp(w, t)
  PROVE  CoreInv'
<1>1. UNCHANGED <<last, taskVars, schedVars, irq>>
  BY DEF GiveUp, _waiters_remove
<1>2. /\ first' \in [WaitList -> Task \cup {NULL}]
      /\ next_waiter' \in [Task -> Task \cup {NULL}]
  BY DEF CoreInv, TaskTypeOK, GiveUp, _waiters_remove
<1>3. TaskTypeOK' /\ SchedInv'
  BY <1>1, <1>2 DEF CoreInv, TaskTypeOK, SchedInv, taskVars, schedVars
<1>4. WaitTypeOK'
  BY DEF CoreInv, WaitTypeOK, GiveUp, LeaveLoop
<1>5. \A u \in Task :
        waitOn'[u] = NULL \/ (waitOn'[u] = waitOn[u] /\ waitMs'[u] = waitMs[u])
  BY DEF CoreInv, WaitTypeOK, GiveUp, LeaveLoop
<1>6. WaitInv'
  BY <1>1, <1>5 DEF CoreInv, WaitInv, Waits, taskVars
<1> QED
  BY <1>3, <1>4, <1>6 DEF CoreInv

(* The tick.                                                               *)
LEMMA TickCore ==
  ASSUME CoreInv, systick_handler, UNCHANGED waitVars
  PROVE  CoreInv'
<1>1. /\ state' \in [Task -> TaskStates]
      /\ sleep' \in [Task -> Int]
      /\ status' \in [Task -> Statuses]
      /\ UNCHANGED listVars /\ UNCHANGED irq
  BY DEF CoreInv, TaskTypeOK, systick_handler, TaskStates, Statuses
<1>2. \A u \in Task :
        \/ state'[u] = state[u] /\ status'[u] = status[u]
           /\ (sleep[u] < 0 => sleep'[u] = sleep[u])
        \/ state[u] = "SLEEP" /\ sleep[u] = 1
           /\ state'[u] = "RUN" /\ status'[u] = "TIMEOUT"
  BY DEF CoreInv, TaskTypeOK, systick_handler, Expires
<1>3. SchedInv'
  <2>1. state'[Idle] = "RUN"
    BY <1>2, TaskAssumption DEF TaskAssumption, CoreInv, SchedInv
  <2>2. \A u \in Task : ~ (state[u] = "RUN" /\ state'[u] # "RUN")
    BY <1>2
  <2> QED
    BY <2>1, <2>2, ScheduleSafe DEF CoreInv, systick_handler
<1>4. TaskTypeOK'
  BY <1>1, <1>3 DEF CoreInv, TaskTypeOK, SchedInv, listVars
<1>5. WaitTypeOK'
  BY DEF CoreInv, WaitTypeOK, waitVars
<1>6. WaitInv'
  BY <1>2 DEF CoreInv, WaitInv, Waits, waitVars, FOREVER
<1> QED
  BY <1>3, <1>4, <1>5, <1>6 DEF CoreInv

(* task_delay and the end of a task: CURRENT stops being ready outside of  *)
(* a wait loop.                                                            *)
LEMMA DelayCore ==
  ASSUME CoreInv, NEW t \in Task \ {Idle}, NEW time \in Int, AtCall(t),
         task_delay(t, time) \/ task_cleanup(t), UNCHANGED waitVars
  PROVE  CoreInv'
<1>1. /\ state' \in [Task -> TaskStates]
      /\ sleep' \in [Task -> Int]
      /\ status' \in [Task -> Statuses]
      /\ UNCHANGED listVars /\ UNCHANGED irq
      /\ schedule(state')
  BY DEF CoreInv, TaskTypeOK, task_delay, task_cleanup, TaskStates, Statuses
<1>2. \A u \in Task \ {t} :
        state'[u] = state[u] /\ sleep'[u] = sleep[u] /\ status'[u] = status[u]
  BY DEF CoreInv, TaskTypeOK, task_delay, task_cleanup
<1>3. SchedInv'
  <2>1. state'[Idle] = "RUN"
    BY <1>2, TaskAssumption DEF TaskAssumption, CoreInv, SchedInv
  <2>2. \A u \in Task : state[u] = "RUN" /\ state'[u] # "RUN" => u = CURRENT /\ ~pendsv
    BY <1>2 DEF AtCall, Running
  <2> QED
    BY <1>1, <2>1, <2>2, ScheduleSafe DEF CoreInv
<1>4. TaskTypeOK'
  BY <1>1, <1>3 DEF CoreInv, TaskTypeOK, SchedInv, listVars
<1>5. WaitTypeOK'
  BY DEF CoreInv, WaitTypeOK, waitVars
<1>6. WaitInv'
  BY <1>2 DEF CoreInv, WaitInv, Waits, waitVars, AtCall
<1> QED
  BY <1>3, <1>4, <1>5, <1>6 DEF CoreInv

(* task_wake of a task that is outside of the wait loops.                  *)
LEMMA WakeCore ==
  ASSUME CoreInv, NEW t \in Task, NEW u \in Task, waitOn[u] = NULL,
         task_wake(t, u), UNCHANGED waitVars
  PROVE  CoreInv'
<1>1. /\ state' = [state EXCEPT ![u] = "RUN"]
      /\ status' = [status EXCEPT ![u] = "TIMEOUT"]
      /\ UNCHANGED <<sleep, listVars, irq>>
      /\ schedule(state')
  BY DEF task_wake
<1>2. \A v \in Task : state'[v] = state[v] \/ (v = u /\ state'[v] = "RUN")
  BY <1>1 DEF CoreInv, TaskTypeOK
<1>3. SchedInv'
  BY <1>1, <1>2, ScheduleSafe, TaskAssumption DEF TaskAssumption, CoreInv, SchedInv
<1>4. TaskTypeOK'
  BY <1>1, <1>3 DEF CoreInv, TaskTypeOK, SchedInv, TaskStates, Statuses, listVars
<1>5. WaitTypeOK'
  BY DEF CoreInv, WaitTypeOK, waitVars
<1>6. WaitInv'
  BY <1>1 DEF CoreInv, TaskTypeOK, WaitInv, Waits, waitVars
<1> QED
  BY <1>3, <1>4, <1>5, <1>6 DEF CoreInv

(* The context switch, and the two ends of an interrupt handler.           *)
LEMMA SwitchCore ==
  ASSUME CoreInv, _pendsv_handler \/ IrqEnter \/ IrqReturn, UNCHANGED waitVars
  PROVE  CoreInv'
<1>1. UNCHANGED <<taskVars, listVars, NEXT>> /\ irq' \in BOOLEAN
  BY DEF CoreInv, TaskTypeOK, _pendsv_handler, IrqEnter, IrqReturn, schedVars
<1>2. SchedInv'
  BY DEF CoreInv, SchedInv, _pendsv_handler, IrqEnter, IrqReturn, schedVars, taskVars
<1>3. TaskTypeOK' /\ WaitTypeOK'
  BY <1>1, <1>2 DEF CoreInv, TaskTypeOK, WaitTypeOK, SchedInv, taskVars, listVars, waitVars
<1>4. WaitInv'
  BY <1>1 DEF CoreInv, WaitInv, Waits, taskVars, waitVars
<1> QED
  BY <1>2, <1>3, <1>4 DEF CoreInv

-----------------------------------------------------------------------------
(* Semaphores.                                                             *)

(* The steps of a semaphore.                                               *)
SemStep(t) == Wait(t) \/ WaitResume(t) \/ Post(t)

LEMMA SemCore ==
  ASSUME CoreInv, SemTypeOK, NEW t \in Task, SemStep(t) \/ IsrPost
  PROVE  CoreInv' /\ SemTypeOK' /\ UNCHANGED mutexVars
<1>1. UNCHANGED mutexVars
  BY DEF SemStep, Wait, WaitResume, Post, IsrPost
<1>2. Sem \subseteq WaitList
  BY SemAssumption DEF SemAssumption
<1>3. CASE Wait(t)
  <2>1. PICK c \in WaitCalls[t] : sem_wait_ms(t, c[1], c[2])
    BY <1>3 DEF Wait
  <2>2. c[1] \in Sem /\ c[2] \in Int /\ Waits(t)
    BY ClientAssumption DEF ClientAssumption, Waits
  <2>3. CASE Take(c[1]) /\ UNCHANGED waitVars
    BY <1>1, <2>2, <2>3, LeaveCore DEF Take, SemTypeOK
  <2>4. CASE UNCHANGED <<count, kernelVars, waitVars>>
    BY <1>1, <2>4, LeaveCore DEF SemTypeOK
  <2>5. CASE Block(c[1], t, c[2]) /\ UNCHANGED count
    BY <1>1, <1>2, <2>1, <2>2, <2>5, BlockCore DEF sem_wait_ms, AtCall, SemTypeOK
  <2> QED
    BY <2>1, <2>3, <2>4, <2>5 DEF sem_wait_ms
<1>4. CASE WaitResume(t)
  <2>1. PICK s \in Sem : sem_wait_resume(t, s)
    BY <1>4 DEF WaitResume
  <2>2. waitOn[t] = s /\ Running(t) /\ s # NULL
    BY <1>2, <2>1, TaskAssumption DEF sem_wait_resume, Resumes, TaskAssumption
  <2>3. Waits(t) /\ waitMs[t] \in Int
    BY <2>2 DEF CoreInv, WaitInv, WaitTypeOK
  <2>4. CASE Block(s, t, waitMs[t]) /\ UNCHANGED count
    BY <1>1, <1>2, <2>2, <2>3, <2>4, BlockCore DEF SemTypeOK
  <2>5. CASE GiveUp(s, t) /\ UNCHANGED count
    BY <1>1, <1>2, <2>5, GiveUpCore DEF SemTypeOK
  <2>6. CASE Take(s) /\ LeaveLoop(t)
    BY <1>1, <2>6, LeaveCore DEF Take, SemTypeOK
  <2> QED
    BY <2>1, <2>4, <2>5, <2>6 DEF sem_wait_resume
<1>5. CASE Post(t) \/ IsrPost
  <2>1. PICK s \in Sem : sem_post(s)
    BY <1>5, ClientAssumption DEF Post, IsrPost, ClientAssumption
  <2>2. SemTypeOK'
    BY <2>1 DEF sem_post, SemTypeOK
  <2> QED
    BY <1>1, <1>2, <2>1, <2>2, WakeFirstCore DEF sem_post
<1> QED
  BY <1>3, <1>4, <1>5 DEF SemStep

-----------------------------------------------------------------------------
(* Mutexes.                                                                *)

(* The count of a mutex is the number of lock calls its owner has not      *)
(* unlocked yet, and nobody else has any.                                  *)
MutexInv ==
  \A m \in Mutex :
    /\ owner[m] = NULL <=> depth[m] = 0
    /\ \A t \in Task : held[m][t] = IF owner[m] = t THEN depth[m] ELSE 0

(* The changes to the mutex variables, one by one.                         *)
LEMMA LockedAgain ==
  ASSUME MutexTypeOK, MutexInv, NEW m \in Mutex, NEW t \in Task,
         owner[m] = t, depth' = [depth EXCEPT ![m] = @ + 1], Locked(m, t), UNCHANGED owner
  PROVE  MutexTypeOK' /\ MutexInv'
<1>1. MutexTypeOK'
  BY DEF MutexTypeOK, Locked
<1>2. owner[m] # NULL
  BY TaskAssumption DEF TaskAssumption
<1>3. MutexInv'
  BY <1>2 DEF MutexTypeOK, MutexInv, Locked
<1> QED
  BY <1>1, <1>3

LEMMA Acquired ==
  ASSUME MutexTypeOK, MutexInv, NEW m \in Mutex, NEW t \in Task,
         depth[m] = 0, Acquire(m, t)
  PROVE  MutexTypeOK' /\ MutexInv'
<1>1. MutexTypeOK'
  BY DEF MutexTypeOK, Acquire, Locked
<1>2. t # NULL
  BY TaskAssumption DEF TaskAssumption
<1>3. MutexInv'
  BY <1>2 DEF MutexTypeOK, MutexInv, Acquire, Locked
<1> QED
  BY <1>1, <1>3

LEMMA Unlocked ==
  ASSUME MutexTypeOK, MutexInv, NEW m \in Mutex, NEW t \in Task, mutex_unlock(t, m)
  PROVE  MutexTypeOK' /\ MutexInv'
<1>1. owner[m] = t /\ depth[m] = held[m][t] /\ depth[m] > 0
  BY DEF MutexTypeOK, MutexInv, mutex_unlock
<1>2. /\ held' = [held EXCEPT ![m][t] = @ - 1]
      /\ depth' = [depth EXCEPT ![m] = @ - 1]
      /\ owner' = IF depth[m] = 1 THEN [owner EXCEPT ![m] = NULL] ELSE owner
  BY DEF mutex_unlock
<1>3. MutexTypeOK'
  BY <1>1, <1>2 DEF MutexTypeOK
<1>4. t # NULL
  BY TaskAssumption DEF TaskAssumption
<1>5. MutexInv'
  BY <1>1, <1>2, <1>4, TaskAssumption DEF MutexTypeOK, MutexInv, TaskAssumption
<1> QED
  BY <1>3, <1>5

(* The steps of a mutex.                                                   *)
MutexStep(t) == Lock(t) \/ LockResume(t) \/ Unlock(t)

LEMMA MutexCore ==
  ASSUME CoreInv, MutexTypeOK, MutexInv, NEW t \in Task, MutexStep(t)
  PROVE  CoreInv' /\ MutexTypeOK' /\ MutexInv' /\ UNCHANGED count
<1>1. UNCHANGED count
  BY DEF MutexStep, Lock, LockResume, Unlock
<1>2. Mutex \subseteq WaitList
  BY MutexAssumption DEF MutexAssumption
<1>3. UNCHANGED mutexVars => MutexTypeOK' /\ MutexInv'
  BY DEF mutexVars, MutexTypeOK, MutexInv
<1>4. CASE Lock(t)
  <2>1. PICK c \in LockCalls[t] : mutex_lock_ms(t, c[1], c[2])
    BY <1>4 DEF Lock
  <2>2. c[1] \in Mutex /\ c[2] \in Int /\ Waits(t)
    BY ClientAssumption DEF ClientAssumption, Waits
  <2>3. CASE owner[c[1]] = t
    BY <1>1, <2>1, <2>2, <2>3, LeaveCore, LockedAgain DEF mutex_lock_ms
  <2>4. CASE depth[c[1]] = 0 /\ Acquire(c[1], t) /\ UNCHANGED waitVars
    BY <1>1, <2>2, <2>4, LeaveCore, Acquired DEF Acquire
  <2>5. CASE Block(c[1], t, c[2]) /\ UNCHANGED mutexVars
    BY <1>1, <1>2, <1>3, <2>1, <2>2, <2>5, BlockCore DEF mutex_lock_ms, AtCall
  <2> QED
    BY <2>1, <2>3, <2>4, <2>5 DEF mutex_lock_ms
<1>5. CASE LockResume(t)
  <2>1. PICK m \in Mutex : mutex_lock_resume(t, m)
    BY <1>5 DEF LockResume
  <2>2. waitOn[t] = m /\ Running(t) /\ m # NULL
    BY <1>2, <2>1, TaskAssumption DEF mutex_lock_resume, Resumes, TaskAssumption
  <2>3. Waits(t) /\ waitMs[t] \in Int
    BY <2>2 DEF CoreInv, WaitInv, WaitTypeOK
  <2>4. CASE Block(m, t, waitMs[t]) /\ UNCHANGED mutexVars
    BY <1>1, <1>2, <1>3, <2>2, <2>3, <2>4, BlockCore
  <2>5. CASE GiveUp(m, t) /\ UNCHANGED mutexVars
    BY <1>1, <1>2, <1>3, <2>5, GiveUpCore
  <2>6. CASE depth[m] = 0 /\ Acquire(m, t) /\ LeaveLoop(t)
    BY <1>1, <2>6, LeaveCore, Acquired DEF Acquire
  <2> QED
    BY <2>1, <2>4, <2>5, <2>6 DEF mutex_lock_resume
<1>6. CASE Unlock(t)
  <2>1. PICK m \in Mutex : mutex_unlock(t, m)
    BY <1>6 DEF Unlock
  <2>2. CoreInv'
    BY <1>2, <2>1, WakeFirstCore, LeaveCore DEF mutex_unlock
  <2> QED
    BY <1>1, <2>1, <2>2, Unlocked
<1> QED
  BY <1>4, <1>5, <1>6 DEF MutexStep

-----------------------------------------------------------------------------
(* The kernel as a whole.                                                  *)

IInv == CoreInv /\ SemTypeOK /\ MutexTypeOK /\ MutexInv

LEMMA InitInv == Init => IInv
<1> SUFFICES ASSUME Init PROVE IInv
  OBVIOUS
<1> USE DEF Init
<1> Idle \in Task
  BY TaskAssumption DEF TaskAssumption
<1>1. TaskTypeOK /\ SchedInv
  <2>1. /\ state \in [Task -> TaskStates]
        /\ sleep \in [Task -> Int]
        /\ status \in [Task -> Statuses]
    BY DEF TaskInit, TaskStates, Statuses
  <2>2. /\ next_waiter \in [Task -> Task \cup {NULL}]
        /\ first \in [WaitList -> Task \cup {NULL}]
        /\ last \in [WaitList -> Task \cup {NULL}]
    BY DEF TaskInit
  <2>3. pendsv \in BOOLEAN /\ irq \in BOOLEAN
    BY Zenon DEF TaskInit
  <2>4. SchedInv
    BY <2>3 DEF TaskInit, SchedInv
  <2> QED
    BY <2>1, <2>2, <2>3, <2>4 DEF TaskTypeOK, SchedInv
<1>2. WaitTypeOK /\ WaitInv
  BY DEF WaitInit, WaitTypeOK, WaitInv
<1>3. SemTypeOK
  BY SemAssumption DEF SemAssumption, sem_create, SemTypeOK
<1>4. MutexTypeOK /\ MutexInv
  BY TaskAssumption DEF TaskAssumption, mutex_create, MutexTypeOK, MutexInv
<1> QED
  BY <1>1, <1>2, <1>3, <1>4 DEF IInv, CoreInv

LEMMA NextInv == IInv /\ [Next]_vars => IInv'
<1> SUFFICES ASSUME IInv, [Next]_vars PROVE IInv'
  OBVIOUS
<1>1. UNCHANGED count => SemTypeOK'
  BY DEF IInv, SemTypeOK
<1>2. UNCHANGED mutexVars => MutexTypeOK' /\ MutexInv'
  BY DEF IInv, mutexVars, MutexTypeOK, MutexInv
<1>3. CASE UNCHANGED vars
  BY <1>1, <1>2, <1>3, LeaveCore, TaskAssumption DEF IInv, vars, TaskAssumption
<1>4. CASE Tick
  BY <1>1, <1>2, <1>4, TickCore DEF IInv, Tick
<1>5. CASE PendSV \/ IsrEnter \/ IsrReturn
  BY <1>1, <1>2, <1>5, SwitchCore DEF IInv, PendSV, IsrEnter, IsrReturn
<1>6. CASE IsrPost
  BY <1>2, <1>6, SemCore, TaskAssumption DEF IInv, TaskAssumption
<1>7. ASSUME NEW t \in Task, TaskStep(t) PROVE IInv'
  <2>1. CASE SemStep(t)
    BY <1>2, <2>1, SemCore DEF IInv
  <2>2. CASE MutexStep(t)
    BY <1>1, <2>2, MutexCore DEF IInv
  <2>3. CASE Delay(t)
    <3>1. t # Idle
      BY <2>3, ClientAssumption DEF Delay, ClientAssumption
    <3>2. PICK time \in DelayCalls[t] : task_delay(t, time)
      BY <2>3 DEF Delay
    <3>3. time \in Int
      BY ClientAssumption DEF ClientAssumption
    <3> QED
      BY <1>1, <1>2, <2>3, <3>1, <3>2, <3>3, DelayCore DEF IInv, Delay
  <2>4. CASE Exit(t)
    <3>1. t # Idle
      BY <2>4, ClientAssumption DEF Exit, ClientAssumption
    <3> QED
      BY <1>1, <1>2, <2>4, <3>1, DelayCore DEF IInv, Exit
  <2>5. CASE Wake(t)
    <3>1. PICK u \in WakeCalls[t] : task_wake(t, u)
      BY <2>5 DEF Wake
    <3>2. u \in Task /\ ~Waits(u)
      BY ClientAssumption DEF ClientAssumption, Waits
    <3>3. waitOn[u] = NULL
      BY <3>2 DEF IInv, CoreInv, WaitInv
    <3> QED
      BY <1>1, <1>2, <2>5, <3>1, <3>2, <3>3, WakeCore DEF IInv, Wake
  <2> QED
    BY <1>7, <2>1, <2>2, <2>3, <2>4, <2>5 DEF TaskStep, SemStep, MutexStep
<1> QED
  BY <1>3, <1>4, <1>5, <1>6, <1>7 DEF Next

LEMMA Inductive == Spec => []IInv
BY InitInv, NextInv, PTL DEF Spec

(* Every variable keeps its type.                                          *)
THEOREM TypeCorrect == Spec => []TypeOK
<1>1. IInv => TypeOK
  BY DEF IInv, CoreInv, TypeOK
<1> QED
  BY <1>1, Inductive, PTL

(* No task runs that is asleep or has ended: the scheduler always has a    *)
(* ready task to switch to, and schedule() is called, and its switch       *)
(* performed, before a task that stopped being ready executes again.       *)
THEOREM BlockedNeverRuns == Spec => []RunningIsReady
<1>1. IInv => RunningIsReady
  BY DEF IInv, CoreInv, SchedInv, RunningIsReady
<1> QED
  BY <1>1, Inductive, PTL

(* Mutual exclusion, recursive locks and timeouts included, and with it    *)
(* the XASSERT of mutex_unlock (mutex.c:50).                               *)
THEOREM MutualExclusion == Spec => []MutexExclusion
<1>1. IInv => MutexExclusion
  BY DEF IInv, MutexTypeOK, MutexInv, MutexExclusion
<1> QED
  BY <1>1, Inductive, PTL

(* No XASSERT of the wait loops fails (sem.c:116, sem.c:121, mutex.c:90,   *)
(* mutex.c:95, mutex.c:111), for any mixture of timeouts.                  *)
THEOREM AssertsHold == Spec => []WaitLoopAsserts
<1>1. IInv => WaitLoopAsserts
  <2> SUFFICES ASSUME IInv, NEW t \in Task, Running(t), waitOn[t] # NULL
               PROVE  /\ status[t] \in {"OK", "TIMEOUT"}
                      /\ waitMs[t] = FOREVER => status[t] = "OK"
                      /\ waitOn[t] \in Mutex /\ depth[waitOn[t]] = 0
                           => owner[waitOn[t]] = NULL
    BY DEF WaitLoopAsserts
  <2>1. state[t] = "RUN"
    BY DEF IInv, CoreInv, SchedInv, Running
  <2>2. /\ status[t] \in {"OK", "TIMEOUT"}
        /\ waitMs[t] = FOREVER => status[t] = "OK"
    BY <2>1 DEF IInv, CoreInv, WaitInv
  <2>3. waitOn[t] \in Mutex /\ depth[waitOn[t]] = 0 => owner[waitOn[t]] = NULL
    BY DEF IInv, MutexInv
  <2> QED
    BY <2>2, <2>3
<1> QED
  BY <1>1, Inductive, PTL

-----------------------------------------------------------------------------
(* Waiter lists.                                                           *)

(* There are finitely many tasks: none is behind idle on TASK_LIST.        *)
LEMMA TasksFinite == IsFiniteSet(Task)
<1> DEFINE f == [t \in Task |-> Pos[t]]
<1>1. IsFiniteSet(0..Pos[Idle])
  BY TaskAssumption, FS_Interval DEF TaskAssumption
<1>2. f \in Injection(Task, 0..Pos[Idle])
  BY TaskAssumption DEF TaskAssumption, Injection, IsInjective
<1> QED
  BY <1>1, <1>2, FS_Injection

(* Who belongs on the list of w, and in what sense l is that list.         *)
Listed(w) == Sleepers(w) \cup Expired(w)

IsWaitList(w, l) ==
  /\ IsList(l, first[w], last[w], next_waiter, NULL)
  /\ Elements(l) = Listed(w)

ListsInv == \A w \in WaitList : \E l \in Seq(Task) : IsWaitList(w, l)

(* A list none of whose tasks and pointers changes.                        *)
LEMMA ListFrame ==
  ASSUME NEW w \in WaitList, NEW l \in Seq(Task), IsWaitList(w, l),
         first'[w] = first[w], last'[w] = last[w],
         \A x \in Listed(w) : next_waiter'[x] = next_waiter[x],
         Listed(w)' = Listed(w)
  PROVE  IsWaitList(w, l)'
<1>1. Linked(l, first[w], next_waiter', NULL)
  BY LinkedFrame DEF IsWaitList, IsList
<1> QED
  BY <1>1 DEF IsWaitList, IsList

(* A task is on no list but that of the object it waits for.               *)
LEMMA ListedWaits ==
  ASSUME NEW w \in WaitList, NEW t \in Listed(w)
  PROVE  t \in Task /\ waitOn[t] = w
BY DEF Listed, Sleepers, Expired

(* Steps that leave every list as it is.                                   *)
LEMMA SameLists ==
  ASSUME ListsInv, UNCHANGED listVars, \A w \in WaitList : Listed(w)' = Listed(w)
  PROVE  ListsInv'
<1>1. first' = first /\ last' = last /\ next_waiter' = next_waiter
  BY DEF listVars
<1>2. ASSUME NEW w \in WaitList, NEW l \in Seq(Task), IsWaitList(w, l)
      PROVE  IsWaitList(w, l)'
  BY <1>1, <1>2, ListFrame
<1> QED
  BY <1>2 DEF ListsInv

(* Two sets that agree on everything but t.                                *)
ButOne(A, B, t) ==
  /\ (t \in A <=> t \in B) => B = A
  /\ t \in A /\ t \notin B => B = A \ {t}
  /\ t \notin A /\ t \in B => B = A \cup {t}

LEMMA AgreeButOne ==
  ASSUME NEW A \in SUBSET Task, NEW B \in SUBSET Task, NEW t,
         \A u \in Task \ {t} : u \in B <=> u \in A
  PROVE  ButOne(A, B, t)
BY DEF ButOne

(* A step that changes the state of t only.                                *)
LEMMA OneTaskChanges ==
  ASSUME NEW v \in WaitList, NEW t \in Task,
         \A u \in Task \ {t} :
           state'[u] = state[u] /\ status'[u] = status[u] /\ waitOn'[u] = waitOn[u]
  PROVE  /\ ButOne(Listed(v), Listed(v)', t)
         /\ ButOne(Sleepers(v), Sleepers(v)', t)
         /\ ButOne(Woken(v), Woken(v)', t)
         /\ ButOne(Expired(v), Expired(v)', t)
<1>1. \A u \in Task \ {t} : /\ u \in Listed(v)' <=> u \in Listed(v)
                            /\ u \in Sleepers(v)' <=> u \in Sleepers(v)
                            /\ u \in Woken(v)' <=> u \in Woken(v)
                            /\ u \in Expired(v)' <=> u \in Expired(v)
  BY DEF Listed, Sleepers, Expired, Woken
<1>2. /\ Listed(v) \in SUBSET Task /\ Listed(v)' \in SUBSET Task
      /\ Sleepers(v) \in SUBSET Task /\ Sleepers(v)' \in SUBSET Task
      /\ Woken(v) \in SUBSET Task /\ Woken(v)' \in SUBSET Task
      /\ Expired(v) \in SUBSET Task /\ Expired(v)' \in SUBSET Task
  BY DEF Listed, Sleepers, Expired, Woken
<1> QED
  BY <1>1, <1>2, AgreeButOne

(* What Block does to the tasks.                                           *)
LEMMA BlockEffect ==
  ASSUME CoreInv, NEW w \in WaitList, NEW t \in Task, NEW tms \in Int,
         Running(t), Block(w, t, tms)
  PROVE  /\ \A u \in Task \ {t} :
              /\ state'[u] = state[u] /\ status'[u] = status[u]
              /\ waitOn'[u] = waitOn[u] /\ waitMs'[u] = waitMs[u]
         /\ waitOn'[t] = w /\ waitMs'[t] = tms
         /\ IF tms = 0 THEN state'[t] = "RUN" /\ status'[t] = "TIMEOUT"
                       ELSE state'[t] = "SLEEP"
<1>1. state[t] = "RUN"
  BY DEF Running, CoreInv, SchedInv
<1>2. /\ \A u \in Task \ {t} : state'[u] = state[u] /\ status'[u] = status[u]
      /\ IF tms = 0 THEN state'[t] = "RUN" /\ status'[t] = "TIMEOUT"
                    ELSE state'[t] = "SLEEP"
  BY <1>1 DEF CoreInv, TaskTypeOK, Block, _waiters_add
<1>3. /\ \A u \in Task \ {t} : waitOn'[u] = waitOn[u] /\ waitMs'[u] = waitMs[u]
      /\ waitOn'[t] = w /\ waitMs'[t] = tms
  BY DEF CoreInv, WaitTypeOK, Block
<1> QED
  BY <1>2, <1>3

(* t comes from outside of the loops, or was woken from this one.          *)
MayBlock(w, t) == waitOn[t] = NULL \/ (waitOn[t] = w /\ status[t] = "OK")

LEMMA BlockLinks ==
  ASSUME CoreInv, NEW w \in WaitList, NEW t \in Task, NEW tms \in Int,
         Running(t), MayBlock(w, t), Block(w, t, tms),
         NEW l \in Seq(Task), IsWaitList(w, l)
  PROVE  /\ IsWaitList(w, Append(l, t))'
         /\ \A v \in WaitList \ {w}, k \in Seq(Task) : IsWaitList(v, k) => IsWaitList(v, k)'
<1> USE TaskAssumption DEF TaskAssumption
<1>1. state[t] = "RUN"
  BY DEF Running, CoreInv, SchedInv
<1>2. \A v \in WaitList : t \notin Listed(v)
  BY <1>1 DEF Listed, Sleepers, Expired, MayBlock
<1>3. /\ Listed(w)' = Listed(w) \cup {t}
      /\ \A v \in WaitList \ {w} : Listed(v)' = Listed(v)
  <2>1. \A v \in WaitList : t \in Listed(v)' <=> v = w
    BY BlockEffect DEF Listed, Sleepers, Expired
  <2>2. \A u \in Task \ {t} :
          state'[u] = state[u] /\ status'[u] = status[u] /\ waitOn'[u] = waitOn[u]
    BY BlockEffect
  <2> QED
    BY <1>2, <2>1, <2>2, OneTaskChanges DEF ButOne
<1>4. /\ first' = [first EXCEPT ![w] = IF @ = NULL THEN t ELSE @]
      /\ last' = [last EXCEPT ![w] = t]
      /\ next_waiter' = [u \in Task |->
           IF u = t THEN NULL
           ELSE IF first[w] # NULL /\ u = last[w] THEN t ELSE next_waiter[u]]
  BY DEF Block, _waiters_add
<1>5. /\ first \in [WaitList -> Task \cup {NULL}]
      /\ last \in [WaitList -> Task \cup {NULL}]
      /\ next_waiter \in [Task -> Task \cup {NULL}]
  BY DEF CoreInv, TaskTypeOK
<1>6. IsWaitList(w, l)
  OBVIOUS
<1>7. IsWaitList(w, Append(l, t))'
  <2>1. t \in Task \ Elements(l) /\ NULL \notin Task
    BY <1>2, <1>6 DEF IsWaitList
  <2>2. IsList(l, first[w], last[w], next_waiter, NULL)
    BY <1>6 DEF IsWaitList
  <2>3. next_waiter' = PutLast(Task, first[w], next_waiter, last[w], t, NULL)
    BY <1>4 DEF PutLast
  <2>4. first'[w] = (IF first[w] = NULL THEN t ELSE first[w]) /\ last'[w] = t
    BY <1>4, <1>5
  <2>5. /\ IsList(Append(l, t), first'[w], t,
                  PutLast(Task, first[w], next_waiter, last[w], t, NULL), NULL)
        /\ Elements(Append(l, t)) = Elements(l) \cup {t}
    BY <1>5, <2>1, <2>2, <2>4, LinkLast
  <2>6. Elements(Append(l, t)) = Listed(w)'
    BY <1>3, <1>6, <2>5 DEF IsWaitList
  <2> QED
    BY <2>3, <2>4, <2>5, <2>6 DEF IsWaitList
<1>8. ASSUME NEW v \in WaitList \ {w}, NEW k \in Seq(Task), IsWaitList(v, k)
      PROVE  IsWaitList(v, k)'
  <2>1. first'[v] = first[v] /\ last'[v] = last[v]
    BY <1>4, <1>5
  <2>2. first[w] # NULL => last[w] \in Listed(w)
    <3> SUFFICES ASSUME first[w] # NULL PROVE last[w] \in Listed(w)
      OBVIOUS
    <3>1. l # <<>> /\ last[w] = l[Len(l)]
      BY <1>6 DEF IsWaitList, IsList, Linked
    <3>2. Len(l) \in DOMAIN l
      BY <3>1
    <3> QED
      BY <1>6, <3>1, <3>2 DEF IsWaitList, Elements
  <2>3. \A x \in Listed(v) : next_waiter'[x] = next_waiter[x]
    <3> SUFFICES ASSUME NEW x \in Listed(v) PROVE next_waiter'[x] = next_waiter[x]
      OBVIOUS
    <3>1. x \in Task /\ x # t /\ x \notin Listed(w)
      BY <1>2, ListedWaits
    <3> QED
      BY <1>4, <2>2, <3>1
  <2> QED
    BY <1>3, <1>8, <2>1, <2>3, ListFrame
<1> QED
  BY <1>7, <1>8

LEMMA BlockLists ==
  ASSUME CoreInv, ListsInv, NEW w \in WaitList, NEW t \in Task, NEW tms \in Int,
         Running(t), MayBlock(w, t), Block(w, t, tms)
  PROVE  ListsInv'
<1>1. PICK l \in Seq(Task) : IsWaitList(w, l)
  BY DEF ListsInv
<1>2. Append(l, t) \in Seq(Task)
  OBVIOUS
<1> QED
  BY <1>1, <1>2, BlockLinks DEF ListsInv

(* What _waiters_wake_first does when it does something.                   *)
LEMMA WakeEffect ==
  ASSUME CoreInv, NEW w \in WaitList, _waiters_wake_first(w), UNCHANGED waitVars,
         ~UNCHANGED kernelVars
  PROVE  LET t == first[w]
         IN  /\ t \in Task /\ state[t] = "SLEEP"
             /\ first' = [first EXCEPT ![w] = next_waiter[t]]
             /\ next_waiter' = [next_waiter EXCEPT ![t] = NULL]
             /\ UNCHANGED last
             /\ state'[t] = "RUN" /\ status'[t] = "OK"
             /\ \A u \in Task \ {t} : state'[u] = state[u] /\ status'[u] = status[u]
BY DEF _waiters_wake_first, CoreInv, TaskTypeOK

LEMMA WakeLinks ==
  ASSUME CoreInv, NEW w \in WaitList, _waiters_wake_first(w), UNCHANGED waitVars,
         ~UNCHANGED kernelVars, NEW l \in Seq(Task), IsWaitList(w, l)
  PROVE  /\ l # <<>> /\ l[1] = first[w] /\ IsWaitList(w, Tail(l))'
         /\ \A v \in WaitList \ {w}, k \in Seq(Task) : IsWaitList(v, k) => IsWaitList(v, k)'
<1> USE TaskAssumption DEF TaskAssumption
<1> DEFINE t == first[w]
<1>1. /\ t \in Task /\ state[t] = "SLEEP"
      /\ first' = [first EXCEPT ![w] = next_waiter[t]]
      /\ next_waiter' = [next_waiter EXCEPT ![t] = NULL]
      /\ UNCHANGED last
      /\ state'[t] = "RUN" /\ status'[t] = "OK"
      /\ \A u \in Task \ {t} : state'[u] = state[u] /\ status'[u] = status[u]
  BY WakeEffect
<1>2. IsWaitList(w, l)
  OBVIOUS
<1>3. /\ first \in [WaitList -> Task \cup {NULL}]
      /\ next_waiter \in [Task -> Task \cup {NULL}]
  BY DEF CoreInv, TaskTypeOK
<1>4. l # <<>>
  BY <1>1, <1>2 DEF IsWaitList, IsList, Linked
<1>5. /\ t \in Elements(l)
      /\ IsList(Tail(l), next_waiter[t], last[w], TakeFirst(t, next_waiter, NULL), NULL)
      /\ Elements(Tail(l)) = Elements(l) \ {t}
  <2>1. IsList(l, t, last[w], next_waiter, NULL) /\ NULL \notin Task
    BY <1>2 DEF IsWaitList
  <2> HIDE DEF t
  <2> QED
    BY <1>3, <1>4, <2>1, UnlinkFirst
<1>6. waitOn[t] = w
  BY <1>2, <1>5, ListedWaits DEF IsWaitList
<1>7. /\ Listed(w)' = Listed(w) \ {t}
      /\ \A v \in WaitList \ {w} : Listed(v)' = Listed(v)
  <2> HIDE DEF t
  <2>1. \A u \in Task \ {t} :
          state'[u] = state[u] /\ status'[u] = status[u] /\ waitOn'[u] = waitOn[u]
    BY <1>1 DEF waitVars
  <2>2. \A v \in WaitList : t \notin Listed(v)'
    BY <1>1 DEF Listed, Sleepers, Expired
  <2>3. t \in Listed(w) /\ \A v \in WaitList \ {w} : t \notin Listed(v)
    BY <1>2, <1>5, <1>6, ListedWaits DEF IsWaitList
  <2> QED
    BY <1>1, <2>1, <2>2, <2>3, OneTaskChanges DEF ButOne
<1>8. IsWaitList(w, Tail(l))'
  <2>1. first'[w] = next_waiter[t] /\ last'[w] = last[w]
    BY <1>1, <1>3
  <2>2. next_waiter' = TakeFirst(t, next_waiter, NULL)
    BY <1>1 DEF TakeFirst
  <2>3. Elements(Tail(l)) = Listed(w)'
    BY <1>2, <1>5, <1>7 DEF IsWaitList
  <2> QED
    BY <1>5, <2>1, <2>2, <2>3 DEF IsWaitList
<1>9. ASSUME NEW v \in WaitList \ {w}, NEW k \in Seq(Task), IsWaitList(v, k)
      PROVE  IsWaitList(v, k)'
  <2>1. first'[v] = first[v] /\ last'[v] = last[v]
    BY <1>1, <1>3
  <2>2. \A x \in Listed(v) : next_waiter'[x] = next_waiter[x]
    BY <1>1, <1>3, <1>6, ListedWaits
  <2> QED
    BY <1>7, <1>9, <2>1, <2>2, ListFrame
<1> QED
  BY <1>4, <1>8, <1>9 DEF IsWaitList, IsList, Linked

LEMMA WakeLists ==
  ASSUME CoreInv, ListsInv, NEW w \in WaitList, _waiters_wake_first(w),
         UNCHANGED waitVars
  PROVE  ListsInv'
<1> USE TaskAssumption DEF TaskAssumption
<1>1. CASE UNCHANGED kernelVars
  <2>1. \A v \in WaitList : Listed(v)' = Listed(v)
    BY <1>1 DEF Listed, Sleepers, Expired, kernelVars, taskVars, waitVars
  <2>2. UNCHANGED listVars
    BY <1>1 DEF kernelVars
  <2> QED
    BY <2>1, <2>2, SameLists
<1>2. CASE ~UNCHANGED kernelVars
  <2>1. PICK l \in Seq(Task) : IsWaitList(w, l)
    BY DEF ListsInv
  <2>2. /\ l # <<>> /\ IsWaitList(w, Tail(l))'
        /\ \A v \in WaitList \ {w}, k \in Seq(Task) : IsWaitList(v, k) => IsWaitList(v, k)'
    BY <1>2, <2>1, WakeLinks
  <2>3. \E m \in Seq(Task) : IsWaitList(w, m)'
    <3>1. Tail(l) \in Seq(Task)
      BY <2>2
    <3> QED
      BY <2>2, <3>1
  <2>4. ASSUME NEW v \in WaitList \ {w} PROVE \E m \in Seq(Task) : IsWaitList(v, m)'
    BY <2>2 DEF ListsInv
  <2> QED
    BY <2>3, <2>4 DEF ListsInv
<1> QED
  BY <1>1, <1>2

(* A task gives up the loop on w, where it is alone.                       *)
LEMMA GiveUpLinks ==
  ASSUME CoreInv, ListsInv, NEW w \in WaitList, NEW t \in Task,
         Resumes(w, t), GiveUp(w, t), \A u \in Task : waitOn[u] = w => u = t
  PROVE  /\ IsWaitList(w, <<>>)'
         /\ \A v \in WaitList \ {w}, k \in Seq(Task) : IsWaitList(v, k) => IsWaitList(v, k)'
<1> USE TaskAssumption DEF TaskAssumption
<1>1. state[t] = "RUN" /\ waitOn[t] = w /\ status[t] = "TIMEOUT"
  BY DEF Resumes, Running, CoreInv, SchedInv, GiveUp
<1>2. Listed(w) = {t}
  BY <1>1 DEF Listed, Sleepers, Expired
<1>3. PICK l \in Seq(Task) : IsWaitList(w, l)
  BY DEF ListsInv
<1>4. PICK k \in Nat : k = Len(l) /\ DOMAIN l = 1..k
  OBVIOUS
<1>5. k = 1 /\ l[1] = t
  <2>1. \A i \in 1..k : l[i] = t
    BY <1>2, <1>3, <1>4 DEF IsWaitList, Elements
  <2>2. k # 0
    <3>1. t \in Elements(l)
      BY <1>2, <1>3 DEF IsWaitList
    <3>2. PICK i \in 1..k : l[i] = t
      BY <1>4, <3>1 DEF Elements
    <3> QED
      BY <1>4, <3>2
  <2>3. 1 \in 1..k /\ k \in 1..k
    BY <2>2
  <2> QED
    BY <1>3, <1>4, <2>1, <2>3 DEF IsWaitList, IsList, Distinct
<1>6. first[w] = t /\ next_waiter[t] = NULL
  <2>1. l # <<>> /\ 1 \in 1..Len(l) /\ 1 = Len(l)
    BY <1>4, <1>5
  <2> QED
    BY <1>3, <1>5, <2>1 DEF IsWaitList, IsList, Linked
<1>7. first' = [first EXCEPT ![w] = NULL] /\ next_waiter' = [next_waiter EXCEPT ![t] = NULL]
  <2>1. Nth(w)[0] = t
    <3>1. Nth(w) = Walk(first[w], next_waiter, NULL)
      BY DEF Nth, Walk
    <3>2. Linked(l, first[w], next_waiter, NULL) /\ NULL \notin Task
      BY <1>3 DEF IsWaitList, IsList
    <3>3. \A i \in Nat : Nth(w)[i] = IF i < Len(l) THEN l[i + 1] ELSE NULL
      BY <3>1, <3>2, WalkAlong
    <3>4. 0 < Len(l) /\ 0 + 1 = 1
      BY <1>4, <1>5
    <3> QED
      BY <1>5, <3>3, <3>4
  <2>2. ~ \A j \in 0..Cardinality(Task) : Nth(w)[j] # t
    <3>1. Cardinality(Task) \in Nat
      BY TasksFinite, FS_CardinalityType
    <3> QED
      BY <2>1, <3>1
  <2>3. \A i \in 1..Cardinality(Task) : ~ \A j \in 0..i-1 : Nth(w)[j] # t
    <3> SUFFICES ASSUME NEW i \in 1..Cardinality(Task) PROVE 0 \in 0..i-1
      BY <2>1
    <3> QED
      BY TasksFinite, FS_CardinalityType
  <2> QED
    BY <1>6, <2>2, <2>3 DEF GiveUp, _waiters_remove
<1>8. UNCHANGED <<last, taskVars>> /\ waitOn' = [waitOn EXCEPT ![t] = NULL]
  BY DEF GiveUp, _waiters_remove, LeaveLoop
<1>9. /\ first \in [WaitList -> Task \cup {NULL}]
      /\ next_waiter \in [Task -> Task \cup {NULL}]
      /\ waitOn \in [Task -> WaitList \cup {NULL}]
  BY DEF CoreInv, TaskTypeOK, WaitTypeOK
<1>10. Listed(w)' = {} /\ \A v \in WaitList \ {w} : Listed(v)' = Listed(v)
  <2>1. \A u \in Task \ {t} :
          state'[u] = state[u] /\ status'[u] = status[u] /\ waitOn'[u] = waitOn[u]
    BY <1>8, <1>9 DEF taskVars
  <2>2. waitOn'[t] = NULL
    BY <1>8, <1>9
  <2>3. \A v \in WaitList : t \notin Listed(v)'
    BY <2>2 DEF Listed, Sleepers, Expired
  <2>4. \A v \in WaitList \ {w} : t \notin Listed(v)
    BY <1>1, ListedWaits
  <2>5. \A v \in WaitList \ {w} : Listed(v)' = Listed(v)
    BY <2>1, <2>3, <2>4, OneTaskChanges DEF ButOne
  <2>6. Listed(w)' = Listed(w) \ {t}
    BY <1>2, <2>1, <2>3, OneTaskChanges DEF ButOne
  <2> QED
    BY <1>2, <2>5, <2>6
<1>11. IsWaitList(w, <<>>)'
  <2>1. first'[w] = NULL
    BY <1>7, <1>9
  <2>2. Elements(<<>>) = {} /\ Distinct(<<>>)
    BY DEF Elements, Distinct
  <2> QED
    BY <1>10, <2>1, <2>2 DEF IsWaitList, IsList, Linked
<1>12. ASSUME NEW v \in WaitList \ {w}, NEW q \in Seq(Task), IsWaitList(v, q)
       PROVE  IsWaitList(v, q)'
  <2>1. first'[v] = first[v] /\ last'[v] = last[v]
    BY <1>7, <1>8, <1>9
  <2>2. \A x \in Listed(v) : next_waiter'[x] = next_waiter[x]
    BY <1>1, <1>7, <1>9, ListedWaits
  <2> QED
    BY <1>10, <1>12, <2>1, <2>2, ListFrame
<1> QED
  BY <1>11, <1>12

LEMMA GiveUpLists ==
  ASSUME CoreInv, ListsInv, NEW w \in WaitList, NEW t \in Task,
         Resumes(w, t), GiveUp(w, t), \A u \in Task : waitOn[u] = w => u = t
  PROVE  ListsInv'
<1>1. <<>> \in Seq(Task)
  OBVIOUS
<1> QED
  BY <1>1, GiveUpLinks DEF ListsInv

(* The task t, outside of the loops, or on its way out of one after it was *)
(* woken, makes a step that changes no list.                               *)
LEMMA OutsideLists ==
  ASSUME ListsInv, UNCHANGED listVars, NEW t \in Task,
         \A u \in Task \ {t} :
           state'[u] = state[u] /\ status'[u] = status[u] /\ waitOn'[u] = waitOn[u],
         waitOn'[t] = NULL, waitOn[t] = NULL \/ (state[t] = "RUN" /\ status[t] = "OK")
  PROVE  ListsInv'
<1> USE TaskAssumption DEF TaskAssumption
<1>1. ASSUME NEW v \in WaitList PROVE t \notin Listed(v) /\ t \notin Listed(v)'
  BY DEF Listed, Sleepers, Expired
<1>2. \A v \in WaitList : Listed(v)' = Listed(v)
  BY <1>1, OneTaskChanges DEF ButOne
<1> QED
  BY <1>2, SameLists

LEMMA TickLists ==
  ASSUME CoreInv, ListsInv, systick_handler, UNCHANGED waitVars
  PROVE  ListsInv'
<1>1. \A u \in Task :
        \/ state'[u] = state[u] /\ status'[u] = status[u]
        \/ state[u] = "SLEEP" /\ state'[u] = "RUN" /\ status'[u] = "TIMEOUT"
  BY DEF CoreInv, TaskTypeOK, systick_handler, Expires
<1>2. UNCHANGED listVars
  BY DEF systick_handler
<1>3. \A w \in WaitList : Listed(w)' = Listed(w)
  BY <1>1 DEF Listed, Sleepers, Expired, waitVars
<1> QED
  BY <1>2, <1>3, SameLists

-----------------------------------------------------------------------------
(* Who is in a wait loop.                                                  *)

(* A task in a loop made the call that leads there, and owners are among   *)
(* the tasks that lock and are not in the loop of their own mutex.         *)
CallInv ==
  /\ \A t \in Task : waitOn[t] # NULL =>
       /\ waitOn[t] \in Sem \cup Mutex
       /\ <<waitOn[t], waitMs[t]>> \in WaitCalls[t] \cup LockCalls[t]
  /\ \A m \in Mutex, t \in Task : owner[m] = t => t \in Callers(m) /\ waitOn[t] # m

AloneInv ==
  \A w \in Sem \cup Mutex, t, u \in Task :
    waitOn[t] = w /\ waitOn[u] = w => Timeless(w) \/ t = u

(* Who timed out is alone.                                                 *)
LEMMA TimedOutAlone ==
  ASSUME WaitInv, CallInv, AloneInv, NEW w \in WaitList, NEW t \in Expired(w),
         NEW u \in Task, waitOn[u] = w
  PROVE  u = t
<1> USE TaskAssumption DEF TaskAssumption
<1>1. t \in Task /\ waitOn[t] = w /\ state[t] = "RUN" /\ status[t] = "TIMEOUT"
  BY DEF Expired
<1>2. waitMs[t] # FOREVER
  BY <1>1 DEF WaitInv
<1>3. w \in Sem \cup Mutex /\ <<w, waitMs[t]>> \in WaitCalls[t] \cup LockCalls[t]
  BY <1>1 DEF CallInv
<1>4. ~Timeless(w)
  BY <1>1, <1>2, <1>3 DEF Timeless
<1> QED
  BY <1>1, <1>3, <1>4 DEF AloneInv

(* Entering a loop, or going round in it.                                  *)
LEMMA EnterLoop ==
  ASSUME WaitTypeOK, CallInv, AloneInv, TimedWaitsAlone,
         NEW w \in Sem \cup Mutex, NEW t \in Task, NEW tms \in Int,
         <<w, tms>> \in WaitCalls[t] \cup LockCalls[t],
         waitOn' = [waitOn EXCEPT ![t] = w], waitMs' = [waitMs EXCEPT ![t] = tms],
         UNCHANGED owner,
         w \in Mutex => owner[w] \in Task \ {t}
  PROVE  CallInv' /\ AloneInv'
<1> USE TaskAssumption DEF TaskAssumption
<1>1. /\ waitOn'[t] = w /\ waitMs'[t] = tms
      /\ \A u \in Task \ {t} : waitOn'[u] = waitOn[u] /\ waitMs'[u] = waitMs[u]
  BY DEF WaitTypeOK
<1>2. ASSUME NEW u \in Task, waitOn[u] = w PROVE u \in Callers(w)
  <2>1. w # NULL
    BY SemAssumption, MutexAssumption DEF SemAssumption, MutexAssumption
  <2>2. <<w, waitMs[u]>> \in WaitCalls[u] \cup LockCalls[u]
    BY <1>2, <2>1 DEF CallInv
  <2> DEFINE c == <<w, waitMs[u]>>
  <2>3. c \in WaitCalls[u] \cup LockCalls[u] /\ c[1] = w
    BY <2>2
  <2> QED
    BY <2>3 DEF Callers
<1>3. t \in Callers(w)
  BY DEF Callers
<1>4. ASSUME NEW u \in Task, waitOn[u] = w PROVE Timeless(w) \/ u = t
  <2>1. CASE w \in Sem
    BY <1>2, <1>3, <1>4, <2>1 DEF TimedWaitsAlone
  <2>2. CASE w \in Mutex
    <3>1. owner[w] \in Callers(w) /\ owner[w] # u /\ owner[w] # t
      BY <1>4, <2>2 DEF CallInv
    <3> QED
      BY <1>2, <1>3, <1>4, <2>2, <3>1 DEF TimedWaitsAlone
  <2> QED
    BY <2>1, <2>2
<1>5. AloneInv'
  <2> SUFFICES ASSUME NEW v \in Sem \cup Mutex, NEW u \in Task, NEW x \in Task,
                      waitOn'[u] = v, waitOn'[x] = v
               PROVE  Timeless(v) \/ u = x
    BY DEF AloneInv, Timeless
  <2>1. CASE v = w
    BY <1>1, <1>4, <2>1 DEF AloneInv
  <2>2. CASE v # w
    BY <1>1, <2>2 DEF AloneInv
  <2> QED
    BY <2>1, <2>2
<1>6. CallInv'
  <2>1. ASSUME NEW u \in Task, waitOn'[u] # NULL
        PROVE  /\ waitOn'[u] \in Sem \cup Mutex
               /\ <<waitOn'[u], waitMs'[u]>> \in WaitCalls[u] \cup LockCalls[u]
    BY <1>1, <2>1 DEF CallInv
  <2>2. ASSUME NEW m \in Mutex, NEW u \in Task, owner'[m] = u
        PROVE  u \in Callers(m) /\ waitOn'[u] # m
    BY <1>1, <2>2 DEF CallInv
  <2> QED
    BY <2>1, <2>2 DEF CallInv, Callers
<1> QED
  BY <1>5, <1>6

(* Any other step: nobody enters a loop, and who becomes the owner of a    *)
(* mutex has called for it.                                                *)
LEMMA StayOut ==
  ASSUME CallInv, AloneInv,
         \A u \in Task : \/ waitOn'[u] = NULL
                         \/ waitOn'[u] = waitOn[u] /\ waitMs'[u] = waitMs[u],
         \A m \in Mutex, u \in Task :
           owner'[m] = u => owner[m] = u \/ (u \in Callers(m) /\ waitOn'[u] # m)
  PROVE  CallInv' /\ AloneInv'
<1> USE TaskAssumption, SemAssumption, MutexAssumption
    DEF TaskAssumption, SemAssumption, MutexAssumption
<1>1. AloneInv'
  BY DEF AloneInv, Timeless
<1>2. ASSUME NEW u \in Task, waitOn'[u] # NULL
      PROVE  /\ waitOn'[u] \in Sem \cup Mutex
             /\ <<waitOn'[u], waitMs'[u]>> \in WaitCalls[u] \cup LockCalls[u]
  BY <1>2 DEF CallInv
<1>3. ASSUME NEW m \in Mutex, NEW u \in Task, owner'[m] = u
      PROVE  u \in Callers(m) /\ waitOn'[u] # m
  BY <1>3 DEF CallInv
<1>4. CallInv'
  BY <1>2, <1>3 DEF CallInv, Callers
<1> QED
  BY <1>1, <1>4

-----------------------------------------------------------------------------
(* The invariant of the lists, step by step.                               *)

WInv == IInv /\ ListsInv /\ CallInv /\ AloneInv

LEMMA InitW == Init => WInv
<1> SUFFICES ASSUME Init PROVE WInv
  OBVIOUS
<1> USE TaskAssumption DEF TaskAssumption
<1>1. \A w \in WaitList : Listed(w) = {}
  BY DEF Init, WaitInit, Listed, Sleepers, Expired
<1>2. <<>> \in Seq(Task) /\ Elements(<<>>) = {} /\ Distinct(<<>>)
  BY DEF Elements, Distinct
<1>3. ASSUME NEW w \in WaitList PROVE IsWaitList(w, <<>>)
  <2>1. first[w] = NULL
    BY DEF Init, TaskInit
  <2>2. Linked(<<>>, first[w], next_waiter, NULL)
    BY <2>1 DEF Linked
  <2> QED
    BY <1>1, <1>2, <2>2 DEF IsWaitList, IsList
<1>4. ListsInv
  BY <1>2, <1>3 DEF ListsInv
<1>5. CallInv /\ AloneInv
  BY SemAssumption, MutexAssumption
     DEF Init, WaitInit, mutex_create, CallInv, AloneInv, SemAssumption, MutexAssumption
<1> QED
  BY <1>4, <1>5, InitInv DEF WInv

(* What a task that comes back to the loop on w finds.                     *)
LEMMA BackInLoop ==
  ASSUME CoreInv, CallInv, NEW w \in Sem \cup Mutex, NEW t \in Task, Resumes(w, t)
  PROVE  /\ w \in WaitList /\ w # NULL /\ waitOn[t] = w /\ Running(t)
         /\ state[t] = "RUN" /\ status[t] \in {"OK", "TIMEOUT"}
         /\ <<w, waitMs[t]>> \in WaitCalls[t] \cup LockCalls[t] /\ waitMs[t] \in Int
<1> USE TaskAssumption, SemAssumption, MutexAssumption
    DEF TaskAssumption, SemAssumption, MutexAssumption
<1>1. w \in WaitList /\ w # NULL /\ waitOn[t] = w /\ Running(t)
  BY DEF Resumes
<1>2. state[t] = "RUN"
  BY <1>1 DEF Running, CoreInv, SchedInv
<1>3. status[t] \in {"OK", "TIMEOUT"}
  BY <1>1, <1>2 DEF CoreInv, WaitInv
<1>4. <<w, waitMs[t]>> \in WaitCalls[t] \cup LockCalls[t] /\ waitMs[t] \in Int
  BY <1>1 DEF CallInv, CoreInv, WaitTypeOK
<1> QED
  BY <1>1, <1>2, <1>3, <1>4

(* Going to sleep on w, by a call or once more.                            *)
LEMMA BlockW ==
  ASSUME WInv, TimedWaitsAlone, NEW w \in Sem \cup Mutex, NEW t \in Task,
         NEW tms \in Int, Running(t), MayBlock(w, t), Block(w, t, tms),
         <<w, tms>> \in WaitCalls[t] \cup LockCalls[t], UNCHANGED owner,
         w \in Mutex => owner[w] \in Task \ {t}
  PROVE  ListsInv' /\ CallInv' /\ AloneInv'
<1>1. w \in WaitList
  BY SemAssumption, MutexAssumption DEF SemAssumption, MutexAssumption
<1>2. ListsInv'
  BY <1>1, BlockLists DEF WInv, IInv
<1>3. waitOn' = [waitOn EXCEPT ![t] = w] /\ waitMs' = [waitMs EXCEPT ![t] = tms]
  BY DEF Block
<1>4. CallInv' /\ AloneInv'
  BY <1>3, EnterLoop DEF WInv, IInv, CoreInv
<1> QED
  BY <1>2, <1>4

(* Giving up.                                                              *)
LEMMA GiveUpW ==
  ASSUME WInv, NEW w \in Sem \cup Mutex, NEW t \in Task, Resumes(w, t),
         GiveUp(w, t), UNCHANGED owner
  PROVE  ListsInv' /\ CallInv' /\ AloneInv'
<1>1. w \in WaitList /\ t \in Expired(w)
  BY BackInLoop DEF WInv, IInv, GiveUp, Expired
<1>2. \A u \in Task : waitOn[u] = w => u = t
  BY <1>1, TimedOutAlone DEF WInv, IInv, CoreInv
<1>3. ListsInv'
  BY <1>1, <1>2, GiveUpLists DEF WInv, IInv
<1>4. \A u \in Task : \/ waitOn'[u] = NULL
                      \/ waitOn'[u] = waitOn[u] /\ waitMs'[u] = waitMs[u]
  BY DEF WInv, IInv, CoreInv, WaitTypeOK, GiveUp, LeaveLoop
<1>5. CallInv' /\ AloneInv'
  BY <1>4, StayOut DEF WInv
<1> QED
  BY <1>3, <1>5

(* Leaving the loop with what it was for.                                  *)
LEMMA LeaveW ==
  ASSUME WInv, NEW w \in Sem \cup Mutex, NEW t \in Task, Resumes(w, t),
         status[t] # "TIMEOUT", LeaveLoop(t), UNCHANGED kernelVars,
         \A m \in Mutex, u \in Task :
           owner'[m] = u => owner[m] = u \/ (u \in Callers(m) /\ waitOn'[u] # m)
  PROVE  ListsInv' /\ CallInv' /\ AloneInv'
<1>1. /\ waitOn'[t] = NULL
      /\ \A u \in Task \ {t} : waitOn'[u] = waitOn[u] /\ waitMs'[u] = waitMs[u]
  BY DEF WInv, IInv, CoreInv, WaitTypeOK, LeaveLoop
<1>2. state[t] = "RUN" /\ status[t] = "OK"
  BY BackInLoop DEF WInv, IInv
<1>3. ListsInv'
  BY <1>1, <1>2, OutsideLists DEF WInv, kernelVars, taskVars
<1>4. CallInv' /\ AloneInv'
  BY <1>1, StayOut DEF WInv
<1> QED
  BY <1>3, <1>4

(* Steps at which only the kernel is busy, and those outside of the loops. *)
LEMMA UnchangedW ==
  ASSUME WInv, UNCHANGED listVars, UNCHANGED taskVars, UNCHANGED waitVars,
         \A m \in Mutex, u \in Task :
           owner'[m] = u => owner[m] = u \/ (u \in Callers(m) /\ waitOn'[u] # m)
  PROVE  ListsInv' /\ CallInv' /\ AloneInv'
<1>1. \A w \in WaitList : Listed(w)' = Listed(w)
  BY DEF Listed, Sleepers, Expired, taskVars, waitVars
<1>2. ListsInv'
  BY <1>1, SameLists DEF WInv
<1>3. CallInv' /\ AloneInv'
  BY StayOut DEF WInv, waitVars
<1> QED
  BY <1>2, <1>3

LEMMA SemW ==
  ASSUME WInv, TimedWaitsAlone, NEW t \in Task, SemStep(t) \/ IsrPost
  PROVE  ListsInv' /\ CallInv' /\ AloneInv'
<1> USE SemAssumption DEF SemAssumption
<1>1. UNCHANGED mutexVars /\ UNCHANGED owner
  BY DEF SemStep, Wait, WaitResume, Post, IsrPost, mutexVars
<1>2. CASE Wait(t)
  <2>1. PICK c \in WaitCalls[t] : sem_wait_ms(t, c[1], c[2])
    BY <1>2 DEF Wait
  <2>2. /\ c[1] \in Sem /\ c[2] \in Int /\ c[1] \notin Mutex
        /\ <<c[1], c[2]>> \in WaitCalls[t] \cup LockCalls[t]
    BY ClientAssumption DEF ClientAssumption
  <2>3. CASE UNCHANGED <<kernelVars, waitVars>>
    BY <1>1, <2>3, UnchangedW DEF kernelVars
  <2>4. CASE Block(c[1], t, c[2])
    BY <1>1, <2>1, <2>2, <2>4, BlockW DEF sem_wait_ms, AtCall, MayBlock
  <2> QED
    BY <2>1, <2>3, <2>4 DEF sem_wait_ms, Take
<1>3. CASE WaitResume(t)
  <2>1. PICK s \in Sem : sem_wait_resume(t, s)
    BY <1>3 DEF WaitResume
  <2>2. Resumes(s, t) /\ s \notin Mutex
    BY <2>1, ClientAssumption DEF sem_wait_resume, ClientAssumption
  <2>3. /\ waitOn[t] = s /\ Running(t) /\ status[t] \in {"OK", "TIMEOUT"}
        /\ <<s, waitMs[t]>> \in WaitCalls[t] \cup LockCalls[t] /\ waitMs[t] \in Int
    BY <2>2, BackInLoop DEF WInv, IInv
  <2>4. CASE status[t] # "TIMEOUT" /\ Block(s, t, waitMs[t])
    BY <1>1, <2>2, <2>3, <2>4, BlockW DEF MayBlock
  <2>5. CASE GiveUp(s, t)
    BY <1>1, <2>2, <2>5, GiveUpW
  <2>6. CASE status[t] # "TIMEOUT" /\ Take(s) /\ LeaveLoop(t)
    BY <1>1, <2>2, <2>6, LeaveW DEF Take
  <2> QED
    BY <2>1, <2>4, <2>5, <2>6 DEF sem_wait_resume
<1>4. CASE Post(t) \/ IsrPost
  <2>1. PICK s \in Sem : sem_post(s)
    BY <1>4, ClientAssumption DEF Post, IsrPost, ClientAssumption
  <2>2. ListsInv'
    BY <2>1, WakeLists DEF WInv, IInv, sem_post
  <2>3. CallInv' /\ AloneInv'
    BY <1>1, <2>1, StayOut DEF WInv, sem_post, waitVars
  <2> QED
    BY <2>2, <2>3
<1> QED
  BY <1>2, <1>3, <1>4 DEF SemStep

LEMMA MutexW ==
  ASSUME WInv, TimedWaitsAlone, NEW t \in Task, MutexStep(t)
  PROVE  ListsInv' /\ CallInv' /\ AloneInv'
<1> USE MutexAssumption, TaskAssumption DEF MutexAssumption, TaskAssumption
(* A mutex that is held is held by another task.                           *)
<1>1. \A m \in Mutex : depth[m] > 0 /\ owner[m] # t => owner[m] \in Task \ {t}
  BY DEF WInv, IInv, MutexTypeOK, MutexInv
(* A task that takes one has called for it.                                *)
<1>2. ASSUME NEW m \in Mutex, Acquire(m, t), t \in Callers(m), waitOn'[t] # m
      PROVE  \A n \in Mutex, u \in Task :
               owner'[n] = u => owner[n] = u \/ (u \in Callers(n) /\ waitOn'[u] # n)
  BY <1>2 DEF WInv, IInv, MutexTypeOK, Acquire
<1>3. CASE Lock(t)
  <2>1. PICK c \in LockCalls[t] : mutex_lock_ms(t, c[1], c[2])
    BY <1>3 DEF Lock
  <2>2. /\ c[1] \in Mutex /\ c[2] \in Int
        /\ <<c[1], c[2]>> \in WaitCalls[t] \cup LockCalls[t]
    BY ClientAssumption DEF ClientAssumption
  <2>3. CASE UNCHANGED <<owner, kernelVars, waitVars>>
    BY <2>3, UnchangedW DEF kernelVars
  <2>4. CASE Acquire(c[1], t) /\ UNCHANGED waitVars
    <3>1. t \in Callers(c[1]) /\ waitOn'[t] # c[1]
      BY <2>1, <2>2, <2>4 DEF Callers, mutex_lock_ms, AtCall, waitVars
    <3> QED
      BY <1>2, <2>2, <2>4, <3>1, UnchangedW DEF Acquire, kernelVars
  <2>5. CASE owner[c[1]] # t /\ depth[c[1]] > 0 /\ Block(c[1], t, c[2]) /\ UNCHANGED mutexVars
    BY <1>1, <2>1, <2>2, <2>5, BlockW DEF mutex_lock_ms, AtCall, MayBlock, mutexVars
  <2> QED
    BY <2>1, <2>3, <2>4, <2>5 DEF mutex_lock_ms
<1>4. CASE LockResume(t)
  <2>1. PICK m \in Mutex : mutex_lock_resume(t, m)
    BY <1>4 DEF LockResume
  <2>2. Resumes(m, t)
    BY <2>1 DEF mutex_lock_resume
  <2>3. /\ waitOn[t] = m /\ Running(t) /\ status[t] \in {"OK", "TIMEOUT"} /\ m # NULL
        /\ <<m, waitMs[t]>> \in WaitCalls[t] \cup LockCalls[t] /\ waitMs[t] \in Int
    BY <2>2, BackInLoop DEF WInv, IInv
  <2>4. CASE depth[m] > 0 /\ status[t] # "TIMEOUT" /\ Block(m, t, waitMs[t])
             /\ UNCHANGED mutexVars
    <3>1. owner[m] # t
      BY <2>3 DEF WInv, CallInv
    <3> QED
      BY <1>1, <2>2, <2>3, <2>4, <3>1, BlockW DEF MayBlock, mutexVars
  <2>5. CASE GiveUp(m, t) /\ UNCHANGED mutexVars
    BY <2>2, <2>5, GiveUpW DEF mutexVars
  <2>6. CASE status[t] # "TIMEOUT" /\ Acquire(m, t) /\ LeaveLoop(t)
    <3>1. t \in Callers(m)
      <4> DEFINE c == <<m, waitMs[t]>>
      <4>1. c \in WaitCalls[t] \cup LockCalls[t] /\ c[1] = m
        BY <2>3
      <4> QED
        BY <4>1 DEF Callers
    <3>2. waitOn'[t] # m
      BY <2>3, <2>6 DEF LeaveLoop, WInv, IInv, CoreInv, WaitTypeOK
    <3> QED
      BY <1>2, <2>2, <2>6, <3>1, <3>2, LeaveW DEF Acquire
  <2> QED
    BY <2>1, <2>4, <2>5, <2>6 DEF mutex_lock_resume
<1>5. CASE Unlock(t)
  <2>1. PICK m \in Mutex : mutex_unlock(t, m)
    BY <1>5 DEF Unlock
  <2>2. \A n \in Mutex, u \in Task : owner'[n] = u => owner[n] = u
    BY <2>1 DEF mutex_unlock, WInv, IInv, MutexTypeOK
  <2>3. CASE UNCHANGED kernelVars
    BY <2>1, <2>2, <2>3, UnchangedW DEF mutex_unlock, kernelVars
  <2>4. CASE _waiters_wake_first(m)
    <3>1. ListsInv'
      BY <2>1, <2>4, WakeLists DEF WInv, IInv, mutex_unlock
    <3>2. CallInv' /\ AloneInv'
      BY <2>1, <2>2, StayOut DEF WInv, mutex_unlock, waitVars
    <3> QED
      BY <3>1, <3>2
  <2> QED
    BY <2>1, <2>3, <2>4 DEF mutex_unlock
<1> QED
  BY <1>3, <1>4, <1>5 DEF MutexStep

(* The calls that concern one task, and that outside of the loops.         *)
LEMMA OneOutside ==
  ASSUME WInv, NEW t \in Task, Delay(t) \/ Exit(t) \/ Wake(t)
  PROVE  \E u \in Task :
           /\ waitOn[u] = NULL
           /\ \A v \in Task \ {u} : state'[v] = state[v] /\ status'[v] = status[v]
           /\ UNCHANGED listVars /\ UNCHANGED waitVars /\ UNCHANGED mutexVars
<1>1. CASE Delay(t) \/ Exit(t)
  <2>1. /\ state' = [state EXCEPT ![t] = state'[t]] /\ waitOn[t] = NULL
        /\ UNCHANGED listVars /\ UNCHANGED waitVars /\ UNCHANGED mutexVars
    BY <1>1 DEF Delay, Exit, AtCall, task_delay, task_cleanup,
                WInv, IInv, CoreInv, TaskTypeOK
  <2>2. \A v \in Task \ {t} : status'[v] = status[v]
    BY <1>1 DEF Delay, Exit, task_delay, task_cleanup, WInv, IInv, CoreInv, TaskTypeOK
  <2>3. \A v \in Task \ {t} : state'[v] = state[v]
    BY <2>1 DEF WInv, IInv, CoreInv, TaskTypeOK
  <2> QED
    BY <2>1, <2>2, <2>3
<1>2. CASE Wake(t)
  <2>1. PICK u \in WakeCalls[t] : task_wake(t, u)
    BY <1>2 DEF Wake
  <2>2. u \in Task /\ ~Waits(u)
    BY ClientAssumption DEF ClientAssumption, Waits
  <2>3. waitOn[u] = NULL
    BY <2>2 DEF WInv, IInv, CoreInv, WaitInv
  <2>4. \A v \in Task \ {u} : state'[v] = state[v] /\ status'[v] = status[v]
    BY <2>1 DEF task_wake, WInv, IInv, CoreInv, TaskTypeOK
  <2>5. UNCHANGED listVars /\ UNCHANGED waitVars /\ UNCHANGED mutexVars
    BY <1>2, <2>1 DEF Wake, task_wake
  <2> QED
    BY <2>2, <2>3, <2>4, <2>5
<1> QED
  BY <1>1, <1>2

LEMMA NextW == TimedWaitsAlone /\ WInv /\ [Next]_vars => WInv'
<1> SUFFICES ASSUME TimedWaitsAlone, WInv, [Next]_vars PROVE WInv'
  OBVIOUS
<1>1. IInv'
  BY NextInv DEF WInv
<1>2. UNCHANGED mutexVars => \A m \in Mutex, u \in Task : owner'[m] = u => owner[m] = u
  BY DEF mutexVars
<1>3. CASE UNCHANGED vars \/ PendSV \/ IsrEnter \/ IsrReturn
  <2>1. UNCHANGED listVars /\ UNCHANGED taskVars /\ UNCHANGED waitVars /\ UNCHANGED mutexVars
    BY <1>3 DEF vars, kernelVars, PendSV, IsrEnter, IsrReturn,
                _pendsv_handler, IrqEnter, IrqReturn
  <2> QED
    BY <1>1, <1>2, <2>1, UnchangedW DEF WInv
<1>4. CASE Tick
  <2>1. systick_handler /\ UNCHANGED waitVars /\ UNCHANGED mutexVars
    BY <1>4 DEF Tick
  <2>2. ListsInv'
    BY <2>1, TickLists DEF WInv, IInv
  <2>3. CallInv' /\ AloneInv'
    BY <1>2, <2>1, StayOut DEF WInv, waitVars
  <2> QED
    BY <1>1, <2>2, <2>3 DEF WInv
<1>5. CASE IsrPost
  <2>1. Idle \in Task
    BY TaskAssumption DEF TaskAssumption
  <2> QED
    BY <1>1, <1>5, <2>1, SemW DEF WInv
<1>6. ASSUME NEW t \in Task, TaskStep(t) PROVE WInv'
  <2>1. CASE SemStep(t)
    BY <1>1, <2>1, SemW DEF WInv
  <2>2. CASE MutexStep(t)
    BY <1>1, <2>2, MutexW DEF WInv
  <2>3. CASE Delay(t) \/ Exit(t) \/ Wake(t)
    <3>1. PICK u \in Task :
            /\ waitOn[u] = NULL
            /\ \A v \in Task \ {u} : state'[v] = state[v] /\ status'[v] = status[v]
            /\ UNCHANGED listVars /\ UNCHANGED waitVars /\ UNCHANGED mutexVars
      BY <1>6, <2>3, OneOutside
    <3>2. ListsInv'
      BY <3>1, OutsideLists DEF WInv, waitVars
    <3>3. CallInv' /\ AloneInv'
      BY <1>2, <3>1, StayOut DEF WInv, waitVars
    <3> QED
      BY <1>1, <3>2, <3>3 DEF WInv
  <2> QED
    BY <1>6, <2>1, <2>2, <2>3 DEF TaskStep, SemStep, MutexStep
<1> QED
  BY <1>3, <1>4, <1>5, <1>6 DEF Next

LEMMA WInvariant ==
  ASSUME TimedWaitsAlone
  PROVE  Spec => []WInv
BY InitW, NextW, PTL DEF Spec

(* The list that a walk comes by is the one the invariant is about.        *)
LEMMA WaitingIs ==
  ASSUME NEW w \in WaitList, NEW l \in Seq(Task), IsWaitList(w, l)
  PROVE  Waiting(w) = l
<1>1. PICK N \in Nat : N = Cardinality(Task)
  BY TasksFinite, FS_CardinalityType
<1>2. Distinct(l) /\ Linked(l, first[w], next_waiter, NULL)
  BY DEF IsWaitList, IsList
<1>3. Len(l) <= N
  BY <1>1, <1>2, TasksFinite, DistinctFits
<1>4. Len(l) <= N + 1 /\ NULL \notin Task
  BY <1>1, <1>3, TaskAssumption DEF TaskAssumption
<1>5. Nth(w) = Walk(first[w], next_waiter, NULL)
  BY DEF Nth, Walk
<1>6. Collected(Nth(w), N, NULL) = l
  BY <1>2, <1>4, <1>5, WalkCollects
<1>7. Waiting(w) = Collected(Nth(w), Cardinality(Task), NULL)
  BY DEF Waiting, Collected
<1> QED
  BY <1>1, <1>6, <1>7

(* Every waiter list is a proper list of the tasks that sleep on its       *)
(* object or timed out and did not come back yet, through any sequence of  *)
(* waits, posts, ticks and timeouts (task.c:306-360).                      *)
THEOREM WaitListsProper ==
  ASSUME TimedWaitsAlone
  PROVE  Spec => []WaitListOK
<1>1. WInv => WaitListOK
  <2> SUFFICES ASSUME WInv, NEW w \in WaitList
               PROVE  LET l == Waiting(w)
                      IN  /\ Len(l) = Cardinality(Sleepers(w) \cup Expired(w))
                          /\ {l[i] : i \in DOMAIN l} = Sleepers(w) \cup Expired(w)
                          /\ l # <<>> => last[w] = l[Len(l)]
    BY DEF WaitListOK
  <2>1. PICK l \in Seq(Task) : IsWaitList(w, l)
    BY DEF WInv, ListsInv
  <2>2. Waiting(w) = l
    BY <2>1, WaitingIs
  <2>3. Distinct(l) /\ Elements(l) = Listed(w) /\ (l # <<>> => last[w] = l[Len(l)])
    BY <2>1 DEF IsWaitList, IsList
  <2>4. Len(l) = Cardinality(Elements(l))
    BY <2>3, DistinctLength
  <2> QED
    BY <2>2, <2>3, <2>4 DEF Listed, Elements
<1> QED
  BY <1>1, WInvariant, PTL

-----------------------------------------------------------------------------
(* Wakeups.                                                                *)

(* A set of woken tasks is finite.                                         *)
LEMMA WokenFinite ==
  ASSUME NEW w
  PROVE  IsFiniteSet(Woken(w)) /\ Cardinality(Woken(w)) \in Nat
<1>1. Woken(w) \in SUBSET Task
  BY DEF Woken
<1> QED
  BY <1>1, TasksFinite, FS_Subset, FS_CardinalityType

(* The first waiter is asleep if any is, and it is the one that is woken.  *)
LEMMA WakeWakes ==
  ASSUME WInv, NEW w \in WaitList, _waiters_wake_first(w), UNCHANGED waitVars
  PROVE  /\ \A v \in WaitList \ {w} :
              Sleepers(v)' = Sleepers(v) /\ Woken(v)' = Woken(v)
         /\ \/ Sleepers(w) = {} /\ Sleepers(w)' = {}
            \/ \E t \in Sleepers(w) : t \notin Woken(w) /\ Woken(w)' = Woken(w) \cup {t}
<1> USE TaskAssumption DEF TaskAssumption
<1>1. CASE UNCHANGED kernelVars
  <2>1. \A v \in WaitList : Sleepers(v)' = Sleepers(v) /\ Woken(v)' = Woken(v)
    BY <1>1 DEF Sleepers, Woken, kernelVars, taskVars, waitVars
  <2>2. Sleepers(w) = {}
    <3> SUFFICES ASSUME NEW x \in Sleepers(w) PROVE FALSE
      OBVIOUS
    <3>1. PICK l \in Seq(Task) : IsWaitList(w, l)
      BY DEF WInv, ListsInv
    <3>2. x \in Elements(l)
      BY <3>1 DEF IsWaitList, Listed
    <3>3. 1 \in DOMAIN l /\ l # <<>>
      BY <3>2 DEF Elements
    <3>4. first[w] = l[1] /\ l[1] \in Elements(l)
      BY <3>1, <3>3 DEF IsWaitList, IsList, Linked, Elements
    <3>5. first[w] \in Listed(w) /\ first[w] \in Task
      BY <3>1, <3>4, ListedWaits DEF IsWaitList
    <3>6. state[first[w]] # "SLEEP"
      <4> SUFFICES ASSUME state[first[w]] = "SLEEP" PROVE FALSE
        OBVIOUS
      <4>1. state' = [state EXCEPT ![first[w]] = "RUN"]
        BY <3>5 DEF _waiters_wake_first
      <4>2. state'[first[w]] = "RUN"
        BY <3>5, <4>1 DEF WInv, IInv, CoreInv, TaskTypeOK
      <4> QED
        BY <1>1, <4>2 DEF kernelVars, taskVars
    <3>7. first[w] \in Expired(w)
      BY <3>5, <3>6 DEF Listed, Sleepers
    <3>8. x = first[w]
      BY <3>7, TimedOutAlone DEF WInv, IInv, CoreInv, Sleepers
    <3> QED
      BY <3>6, <3>8 DEF Sleepers
  <2> QED
    BY <2>1, <2>2
<1>2. CASE ~UNCHANGED kernelVars
  <2>1. PICK t \in Task : t = first[w] /\ state[t] = "SLEEP"
          /\ state'[t] = "RUN" /\ status'[t] = "OK"
          /\ \A u \in Task \ {t} : state'[u] = state[u] /\ status'[u] = status[u]
    BY <1>2, WakeEffect DEF WInv, IInv
  <2>2. t \in Listed(w)
    <3>1. PICK l \in Seq(Task) : IsWaitList(w, l)
      BY DEF WInv, ListsInv
    <3>2. l # <<>> /\ t = l[1]
      BY <2>1, <3>1 DEF IsWaitList, IsList, Linked
    <3>3. 1 \in DOMAIN l
      BY <3>2
    <3> QED
      BY <3>1, <3>2, <3>3 DEF IsWaitList, Elements
  <2>3. waitOn[t] = w /\ waitOn' = waitOn
    BY <2>2, ListedWaits DEF waitVars
  <2>4. t \in Sleepers(w) /\ t \notin Woken(w) /\ t \in Woken(w)'
    BY <2>1, <2>3 DEF Sleepers, Woken
  <2>5. \A v \in WaitList \ {w} : /\ t \notin Sleepers(v) /\ t \notin Sleepers(v)'
                                  /\ t \notin Woken(v) /\ t \notin Woken(v)'
    BY <2>3 DEF Sleepers, Woken
  <2>6. \A v \in WaitList : /\ ButOne(Sleepers(v), Sleepers(v)', t)
                            /\ ButOne(Woken(v), Woken(v)', t)
    BY <2>1, <2>3, OneTaskChanges
  <2>7. Woken(w)' = Woken(w) \cup {t}
    BY <2>4, <2>6 DEF ButOne
  <2>8. \A v \in WaitList \ {w} : Sleepers(v)' = Sleepers(v) /\ Woken(v)' = Woken(v)
    BY <2>5, <2>6 DEF ButOne
  <2> QED
    BY <2>4, <2>7, <2>8
<1> QED
  BY <1>1, <1>2

(* A step by which nobody goes to sleep, nobody woken gets lost, and       *)
(* nothing becomes free.                                                   *)
LEMMA NothingLost ==
  ASSUME SemTypeOK, NoLostWakeup,
         \A w \in WaitList : Sleepers(w)' \subseteq Sleepers(w) /\ Woken(w)' = Woken(w),
         count' \in [Sem -> Nat], \A s \in Sem : count'[s] <= count[s],
         \A m \in Mutex : depth'[m] = 0 => depth[m] = 0
  PROVE  NoLostWakeup'
<1> USE SemAssumption, MutexAssumption DEF SemAssumption, MutexAssumption
<1>1. ASSUME NEW s \in Sem, Sleepers(s)' # {} PROVE count'[s] <= Cardinality(Woken(s)')
  <2>1. count[s] <= Cardinality(Woken(s))
    BY <1>1 DEF NoLostWakeup
  <2>2. Woken(s)' = Woken(s) /\ count[s] \in Nat /\ count'[s] \in Nat
    BY DEF SemTypeOK
  <2>3. PICK n \in Nat : n = Cardinality(Woken(s))
    BY WokenFinite
  <2> QED
    BY <2>1, <2>2, <2>3
<1>2. ASSUME NEW m \in Mutex, Sleepers(m)' # {}, depth'[m] = 0 PROVE Woken(m)' # {}
  BY <1>2 DEF NoLostWakeup
<1> QED
  BY <1>1, <1>2 DEF NoLostWakeup

(* t goes to sleep on something it cannot have.                            *)
LEMMA BlockLost ==
  ASSUME WInv, NoLostWakeup, NEW w \in Sem \cup Mutex, NEW t \in Task, NEW tms \in Int,
         Running(t), MayBlock(w, t), Block(w, t, tms), UNCHANGED <<count, depth>>,
         w \in Sem => count[w] = 0, w \in Mutex => depth[w] > 0
  PROVE  NoLostWakeup'
<1> USE SemAssumption, MutexAssumption, TaskAssumption
    DEF SemAssumption, MutexAssumption, TaskAssumption
<1>1. w \in WaitList
  OBVIOUS
<1>2. /\ \A u \in Task \ {t} :
           state'[u] = state[u] /\ status'[u] = status[u] /\ waitOn'[u] = waitOn[u]
      /\ waitOn'[t] = w
  BY <1>1, BlockEffect DEF WInv, IInv
<1>3. ASSUME NEW v \in WaitList \ {w}
      PROVE  Sleepers(v)' = Sleepers(v) /\ Woken(v)' = Woken(v)
  <2>1. t \notin Sleepers(v) /\ t \notin Sleepers(v)' /\ t \notin Woken(v) /\ t \notin Woken(v)'
    BY <1>2 DEF MayBlock, Sleepers, Woken
  <2>2. ButOne(Sleepers(v), Sleepers(v)', t) /\ ButOne(Woken(v), Woken(v)', t)
    BY <1>2, OneTaskChanges
  <2> QED
    BY <2>1, <2>2 DEF ButOne
<1>4. ASSUME NEW s \in Sem, Sleepers(s)' # {} PROVE count'[s] <= Cardinality(Woken(s)')
  <2>1. CASE s = w
    <3>1. PICK n \in Nat : n = Cardinality(Woken(w)')
      <4>1. Woken(w)' \in SUBSET Task
        BY DEF Woken
      <4> QED
        BY <4>1, TasksFinite, FS_Subset, FS_CardinalityType
    <3> QED
      BY <2>1, <3>1
  <2>2. CASE s # w
    BY <1>3, <1>4, <2>2 DEF NoLostWakeup
  <2> QED
    BY <2>1, <2>2
<1>5. ASSUME NEW m \in Mutex, Sleepers(m)' # {}, depth'[m] = 0 PROVE Woken(m)' # {}
  <2>1. m # w
    BY <1>5
  <2> QED
    BY <1>3, <1>5, <2>1 DEF NoLostWakeup
<1> QED
  BY <1>4, <1>5 DEF NoLostWakeup

(* t gives up or leaves the loop on w with what it was woken for.          *)
LEMMA LeaveLost ==
  ASSUME WInv, NEW w \in WaitList, NEW t \in Task, Resumes(w, t), UNCHANGED taskVars,
         LeaveLoop(t)
  PROVE  /\ \A v \in WaitList : Sleepers(v)' = Sleepers(v)
         /\ \A v \in WaitList \ {w} : Woken(v)' = Woken(v)
         /\ status[t] = "TIMEOUT" => Woken(w)' = Woken(w)
         /\ status[t] = "OK" => t \in Woken(w) /\ Woken(w)' = Woken(w) \ {t}
<1> USE TaskAssumption DEF TaskAssumption
<1>1. /\ \A u \in Task \ {t} :
           state'[u] = state[u] /\ status'[u] = status[u] /\ waitOn'[u] = waitOn[u]
      /\ waitOn'[t] = NULL /\ waitOn[t] = w /\ state[t] = "RUN"
  BY DEF WInv, IInv, CoreInv, WaitTypeOK, SchedInv, LeaveLoop, taskVars, Resumes, Running
<1>2. ASSUME NEW v \in WaitList
      PROVE  /\ t \notin Sleepers(v) /\ t \notin Sleepers(v)' /\ t \notin Woken(v)'
             /\ t \in Woken(v) <=> v = w /\ status[t] = "OK"
  BY <1>1 DEF Sleepers, Woken
<1>3. \A v \in WaitList : /\ ButOne(Sleepers(v), Sleepers(v)', t)
                          /\ ButOne(Woken(v), Woken(v)', t)
  BY <1>1, OneTaskChanges
<1> QED
  BY <1>2, <1>3 DEF ButOne

(* t, outside of the loops, comes or goes.                                 *)
LEMMA OutsideLost ==
  ASSUME WInv, NoLostWakeup, NEW t \in Task,
         \A u \in Task \ {t} : state'[u] = state[u] /\ status'[u] = status[u],
         waitOn[t] = NULL, UNCHANGED waitVars, UNCHANGED <<count, depth>>
  PROVE  NoLostWakeup'
<1> USE TaskAssumption DEF TaskAssumption
<1>1. waitOn' = waitOn
  BY DEF waitVars
<1>2. ASSUME NEW v \in WaitList
      PROVE  t \notin Sleepers(v) /\ t \notin Sleepers(v)' /\ t \notin Woken(v) /\ t \notin Woken(v)'
  BY <1>1 DEF Sleepers, Woken
<1>3. \A v \in WaitList : /\ ButOne(Sleepers(v), Sleepers(v)', t)
                          /\ ButOne(Woken(v), Woken(v)', t)
  BY <1>1, OneTaskChanges
<1>4. \A v \in WaitList : Sleepers(v)' \subseteq Sleepers(v) /\ Woken(v)' = Woken(v)
  BY <1>2, <1>3 DEF ButOne
<1>5. SemTypeOK /\ count' \in [Sem -> Nat] /\ \A s \in Sem : count'[s] <= count[s]
  BY DEF WInv, IInv, SemTypeOK
<1> QED
  BY <1>4, <1>5, NothingLost

LEMMA SemLost ==
  ASSUME WInv, NoLostWakeup, NEW t \in Task, SemStep(t) \/ IsrPost
  PROVE  NoLostWakeup'
<1> USE SemAssumption DEF SemAssumption
<1>1. UNCHANGED mutexVars /\ UNCHANGED depth
  BY DEF SemStep, Wait, WaitResume, Post, IsrPost, mutexVars
<1>2. SemTypeOK /\ count \in [Sem -> Nat]
  BY DEF WInv, IInv, SemTypeOK
<1>3. ASSUME UNCHANGED kernelVars, UNCHANGED waitVars
      PROVE  \A w \in WaitList : Sleepers(w)' \subseteq Sleepers(w) /\ Woken(w)' = Woken(w)
  BY <1>3 DEF Sleepers, Woken, kernelVars, taskVars, waitVars
<1>4. CASE Wait(t)
  <2>1. PICK c \in WaitCalls[t] : sem_wait_ms(t, c[1], c[2])
    BY <1>4 DEF Wait
  <2>2. c[1] \in Sem /\ c[2] \in Int /\ c[1] \notin Mutex
    BY ClientAssumption DEF ClientAssumption
  <2>3. CASE (Take(c[1]) \/ UNCHANGED <<count, kernelVars>>) /\ UNCHANGED waitVars
    <3>1. UNCHANGED kernelVars
      BY <2>3 DEF Take
    <3>2. count' \in [Sem -> Nat] /\ \A s \in Sem : count'[s] <= count[s]
      BY <1>2, <2>2, <2>3 DEF Take
    <3> QED
      BY <1>1, <1>2, <1>3, <2>3, <3>1, <3>2, NothingLost
  <2>4. CASE count[c[1]] = 0 /\ Block(c[1], t, c[2]) /\ UNCHANGED count
    BY <1>1, <2>1, <2>2, <2>4, BlockLost DEF sem_wait_ms, AtCall, MayBlock
  <2> QED
    BY <2>1, <2>3, <2>4 DEF sem_wait_ms
<1>5. CASE WaitResume(t)
  <2>1. PICK s \in Sem : sem_wait_resume(t, s)
    BY <1>5 DEF WaitResume
  <2>2. Resumes(s, t) /\ s \notin Mutex
    BY <2>1, ClientAssumption DEF sem_wait_resume, ClientAssumption
  <2>3. waitOn[t] = s /\ Running(t) /\ status[t] \in {"OK", "TIMEOUT"} /\ waitMs[t] \in Int
    BY <2>2, BackInLoop DEF WInv, IInv
  <2>4. CASE count[s] = 0 /\ status[t] # "TIMEOUT" /\ Block(s, t, waitMs[t]) /\ UNCHANGED count
    BY <1>1, <2>2, <2>3, <2>4, BlockLost DEF MayBlock
  <2>5. CASE GiveUp(s, t) /\ UNCHANGED count
    <3>1. UNCHANGED taskVars /\ LeaveLoop(t) /\ status[t] = "TIMEOUT"
      BY <2>5 DEF GiveUp, _waiters_remove
    <3>2. \A w \in WaitList : Sleepers(w)' \subseteq Sleepers(w) /\ Woken(w)' = Woken(w)
      BY <2>2, <3>1, LeaveLost
    <3>3. count' \in [Sem -> Nat] /\ \A r \in Sem : count'[r] <= count[r]
      BY <1>2, <2>5
    <3> QED
      BY <1>1, <1>2, <3>2, <3>3, NothingLost
  <2>6. CASE status[t] # "TIMEOUT" /\ Take(s) /\ LeaveLoop(t)
    <3>1. UNCHANGED taskVars /\ status[t] = "OK"
      BY <2>3, <2>6 DEF Take, kernelVars
    <3>2. /\ \A v \in WaitList : Sleepers(v)' = Sleepers(v)
          /\ \A v \in WaitList \ {s} : Woken(v)' = Woken(v)
          /\ t \in Woken(s) /\ Woken(s)' = Woken(s) \ {t}
      BY <2>2, <2>6, <3>1, LeaveLost
    <3>3. /\ \A r \in Sem \ {s} : count'[r] = count[r]
          /\ count'[s] = count[s] - 1
      BY <1>2, <2>6 DEF Take
    <3>4. ASSUME NEW r \in Sem, Sleepers(r)' # {} PROVE count'[r] <= Cardinality(Woken(r)')
      <4>1. count[r] <= Cardinality(Woken(r))
        BY <3>2, <3>4 DEF NoLostWakeup
      <4>2. CASE r = s
        <5>1. PICK n \in Nat : n = Cardinality(Woken(s))
          BY WokenFinite
        <5>2. Cardinality(Woken(s)') = n - 1
          BY <3>2, <5>1, WokenFinite, FS_RemoveElement
        <5>3. count[s] \in Nat /\ count'[s] = count[s] - 1
          BY <1>2, <3>3
        <5> QED
          BY <4>1, <4>2, <5>1, <5>2, <5>3
      <4>3. CASE r # s
        BY <3>2, <3>3, <4>1, <4>3
      <4> QED
        BY <4>2, <4>3
    <3>5. ASSUME NEW m \in Mutex, Sleepers(m)' # {}, depth'[m] = 0 PROVE Woken(m)' # {}
      <4>1. m # s /\ m \in WaitList
        BY <2>2, MutexAssumption DEF MutexAssumption
      <4> QED
        BY <1>1, <3>2, <3>5, <4>1 DEF NoLostWakeup
    <3> QED
      BY <3>4, <3>5 DEF NoLostWakeup
  <2> QED
    BY <2>1, <2>4, <2>5, <2>6 DEF sem_wait_resume
<1>6. CASE Post(t) \/ IsrPost
  <2>1. PICK s \in Sem : sem_post(s)
    BY <1>6, ClientAssumption DEF Post, IsrPost, ClientAssumption
  <2>2. s \in WaitList /\ s \notin Mutex
    BY ClientAssumption DEF ClientAssumption
  <2>3. /\ \A v \in WaitList \ {s} : Sleepers(v)' = Sleepers(v) /\ Woken(v)' = Woken(v)
        /\ \/ Sleepers(s) = {} /\ Sleepers(s)' = {}
           \/ \E x \in Sleepers(s) : x \notin Woken(s) /\ Woken(s)' = Woken(s) \cup {x}
    BY <2>1, <2>2, WakeWakes DEF sem_post
  <2>4. count'[s] = count[s] + 1 /\ \A r \in Sem \ {s} : count'[r] = count[r]
    BY <1>2, <2>1 DEF sem_post
  <2>5. ASSUME NEW r \in Sem, Sleepers(r)' # {} PROVE count'[r] <= Cardinality(Woken(r)')
    <3>1. CASE r = s
      <4>1. PICK x \in Sleepers(s) : x \notin Woken(s) /\ Woken(s)' = Woken(s) \cup {x}
        BY <2>3, <2>5, <3>1
      <4>2. PICK n \in Nat : n = Cardinality(Woken(s))
        BY WokenFinite
      <4>3. Cardinality(Woken(s)') = n + 1
        BY <4>1, <4>2, WokenFinite, FS_AddElement
      <4>4. count[s] <= n /\ count[s] \in Nat
        BY <1>2, <4>1, <4>2 DEF NoLostWakeup
      <4> QED
        BY <2>4, <3>1, <4>3, <4>4
    <3>2. CASE r # s
      BY <2>3, <2>4, <2>5, <3>2 DEF NoLostWakeup
    <3> QED
      BY <3>1, <3>2
  <2>6. ASSUME NEW m \in Mutex, Sleepers(m)' # {}, depth'[m] = 0 PROVE Woken(m)' # {}
    <3>1. m # s /\ m \in WaitList
      BY <2>2, MutexAssumption DEF MutexAssumption
    <3> QED
      BY <1>1, <2>3, <2>6, <3>1 DEF NoLostWakeup
  <2> QED
    BY <2>5, <2>6 DEF NoLostWakeup
<1> QED
  BY <1>4, <1>5, <1>6 DEF SemStep

LEMMA MutexLost ==
  ASSUME WInv, NoLostWakeup, NEW t \in Task, MutexStep(t)
  PROVE  NoLostWakeup'
<1> USE MutexAssumption DEF MutexAssumption
<1>1. UNCHANGED count
  BY DEF MutexStep, Lock, LockResume, Unlock
<1>2. SemTypeOK /\ count' \in [Sem -> Nat] /\ \A s \in Sem : count'[s] <= count[s]
  BY <1>1 DEF WInv, IInv, SemTypeOK
<1>3. depth \in [Mutex -> Nat]
  BY DEF WInv, IInv, MutexTypeOK
<1>4. ASSUME UNCHANGED kernelVars, UNCHANGED waitVars
      PROVE  \A w \in WaitList : Sleepers(w)' \subseteq Sleepers(w) /\ Woken(w)' = Woken(w)
  BY <1>4 DEF Sleepers, Woken, kernelVars, taskVars, waitVars
<1>5. CASE Lock(t)
  <2>1. PICK c \in LockCalls[t] : mutex_lock_ms(t, c[1], c[2])
    BY <1>5 DEF Lock
  <2>2. c[1] \in Mutex /\ c[2] \in Int /\ c[1] \notin Sem
    BY ClientAssumption DEF ClientAssumption
  <2>3. CASE UNCHANGED <<kernelVars, waitVars>> /\ depth' = [depth EXCEPT ![c[1]] = @ + 1]
    <3>1. \A m \in Mutex : depth'[m] = 0 => depth[m] = 0
      BY <1>3, <2>2, <2>3
    <3> QED
      BY <1>2, <1>4, <2>3, <3>1, NothingLost
  <2>4. CASE depth[c[1]] > 0 /\ Block(c[1], t, c[2]) /\ UNCHANGED mutexVars
    BY <1>1, <2>1, <2>2, <2>4, BlockLost DEF mutex_lock_ms, AtCall, MayBlock, mutexVars
  <2> QED
    BY <2>1, <2>3, <2>4 DEF mutex_lock_ms, Acquire
<1>6. CASE LockResume(t)
  <2>1. PICK m \in Mutex : mutex_lock_resume(t, m)
    BY <1>6 DEF LockResume
  <2>2. Resumes(m, t) /\ m \notin Sem
    BY <2>1, ClientAssumption DEF mutex_lock_resume, ClientAssumption
  <2>3. waitOn[t] = m /\ Running(t) /\ status[t] \in {"OK", "TIMEOUT"} /\ waitMs[t] \in Int
    BY <2>2, BackInLoop DEF WInv, IInv
  <2>4. CASE depth[m] > 0 /\ status[t] # "TIMEOUT" /\ Block(m, t, waitMs[t])
             /\ UNCHANGED mutexVars
    BY <1>1, <2>2, <2>3, <2>4, BlockLost DEF MayBlock, mutexVars
  <2>5. CASE GiveUp(m, t) /\ UNCHANGED mutexVars
    <3>1. UNCHANGED taskVars /\ LeaveLoop(t) /\ status[t] = "TIMEOUT"
      BY <2>5 DEF GiveUp, _waiters_remove
    <3>2. \A w \in WaitList : Sleepers(w)' \subseteq Sleepers(w) /\ Woken(w)' = Woken(w)
      BY <2>2, <3>1, LeaveLost
    <3> QED
      BY <1>2, <2>5, <3>2, NothingLost DEF mutexVars
  <2>6. CASE status[t] # "TIMEOUT" /\ Acquire(m, t) /\ LeaveLoop(t)
    <3>1. UNCHANGED taskVars /\ status[t] = "OK"
      BY <2>3, <2>6 DEF Acquire, kernelVars
    <3>2. /\ \A v \in WaitList : Sleepers(v)' = Sleepers(v)
          /\ \A v \in WaitList \ {m} : Woken(v)' = Woken(v)
      BY <2>2, <2>6, <3>1, LeaveLost
    <3>3. depth'[m] # 0 /\ \A n \in Mutex \ {m} : depth'[n] = depth[n]
      BY <1>3, <2>6 DEF Acquire
    <3>4. ASSUME NEW s \in Sem, Sleepers(s)' # {} PROVE count'[s] <= Cardinality(Woken(s)')
      <4>1. s # m /\ s \in WaitList
        BY <2>2, SemAssumption DEF SemAssumption
      <4> QED
        BY <1>1, <3>2, <3>4, <4>1 DEF NoLostWakeup
    <3>5. ASSUME NEW n \in Mutex, Sleepers(n)' # {}, depth'[n] = 0 PROVE Woken(n)' # {}
      BY <3>2, <3>3, <3>5 DEF NoLostWakeup
    <3> QED
      BY <3>4, <3>5 DEF NoLostWakeup
  <2> QED
    BY <2>1, <2>4, <2>5, <2>6 DEF mutex_lock_resume
<1>7. CASE Unlock(t)
  <2>1. PICK m \in Mutex : mutex_unlock(t, m)
    BY <1>7 DEF Unlock
  <2>2. m \notin Sem /\ UNCHANGED waitVars
    BY <2>1, ClientAssumption DEF mutex_unlock, ClientAssumption
  <2>3. CASE depth[m] # 1 /\ UNCHANGED kernelVars
    <3>1. \A n \in Mutex : depth'[n] = 0 => depth[n] = 0
      BY <1>3, <2>1, <2>3 DEF mutex_unlock
    <3> QED
      BY <1>2, <1>4, <2>2, <2>3, <3>1, NothingLost
  <2>4. CASE _waiters_wake_first(m)
    <3>1. /\ \A v \in WaitList \ {m} : Sleepers(v)' = Sleepers(v) /\ Woken(v)' = Woken(v)
          /\ \/ Sleepers(m) = {} /\ Sleepers(m)' = {}
             \/ \E x \in Sleepers(m) : x \notin Woken(m) /\ Woken(m)' = Woken(m) \cup {x}
      BY <2>2, <2>4, WakeWakes
    <3>2. \A n \in Mutex \ {m} : depth'[n] = depth[n]
      BY <1>3, <2>1 DEF mutex_unlock
    <3>3. ASSUME NEW s \in Sem, Sleepers(s)' # {} PROVE count'[s] <= Cardinality(Woken(s)')
      <4>1. s # m /\ s \in WaitList
        BY <2>2, SemAssumption DEF SemAssumption
      <4> QED
        BY <1>1, <3>1, <3>3, <4>1 DEF NoLostWakeup
    <3>4. ASSUME NEW n \in Mutex, Sleepers(n)' # {}, depth'[n] = 0 PROVE Woken(n)' # {}
      <4>1. CASE n = m
        BY <3>1, <3>4, <4>1
      <4>2. CASE n # m
        BY <3>1, <3>2, <3>4, <4>2 DEF NoLostWakeup
      <4> QED
        BY <4>1, <4>2
    <3> QED
      BY <3>3, <3>4 DEF NoLostWakeup
  <2> QED
    BY <2>1, <2>3, <2>4 DEF mutex_unlock
<1> QED
  BY <1>5, <1>6, <1>7 DEF MutexStep

LEMMA InitLost == Init => NoLostWakeup
<1> USE TaskAssumption, SemAssumption, MutexAssumption
    DEF TaskAssumption, SemAssumption, MutexAssumption
<1> SUFFICES ASSUME Init PROVE NoLostWakeup
  OBVIOUS
<1>1. \A w \in WaitList : Sleepers(w) = {}
  BY DEF Init, WaitInit, Sleepers
<1> QED
  BY <1>1 DEF NoLostWakeup

LEMMA NextLost == WInv /\ NoLostWakeup /\ [Next]_vars => NoLostWakeup'
<1> SUFFICES ASSUME WInv, NoLostWakeup, [Next]_vars PROVE NoLostWakeup'
  OBVIOUS
<1> Idle \in Task
  BY TaskAssumption DEF TaskAssumption
<1>1. ASSUME UNCHANGED count, UNCHANGED depth,
             \A w \in WaitList : Sleepers(w)' \subseteq Sleepers(w) /\ Woken(w)' = Woken(w)
      PROVE  NoLostWakeup'
  <2>1. SemTypeOK /\ count' \in [Sem -> Nat] /\ \A s \in Sem : count'[s] <= count[s]
    BY <1>1 DEF WInv, IInv, SemTypeOK
  <2> QED
    BY <1>1, <2>1, NothingLost
<1>2. CASE UNCHANGED vars \/ PendSV \/ IsrEnter \/ IsrReturn
  <2>1. UNCHANGED taskVars /\ UNCHANGED waitVars /\ UNCHANGED count /\ UNCHANGED depth
    BY <1>2 DEF vars, kernelVars, PendSV, IsrEnter, IsrReturn,
                _pendsv_handler, IrqEnter, IrqReturn, mutexVars
  <2>2. \A w \in WaitList : Sleepers(w)' \subseteq Sleepers(w) /\ Woken(w)' = Woken(w)
    BY <2>1 DEF Sleepers, Woken, taskVars, waitVars
  <2> QED
    BY <1>1, <2>1, <2>2
<1>3. CASE Tick
  <2>1. systick_handler /\ waitOn' = waitOn /\ UNCHANGED count /\ UNCHANGED depth
    BY <1>3 DEF Tick, waitVars, mutexVars
  <2>2. \A u \in Task :
          \/ state'[u] = state[u] /\ status'[u] = status[u]
          \/ state[u] = "SLEEP" /\ state'[u] = "RUN" /\ status'[u] = "TIMEOUT"
    BY <2>1 DEF WInv, IInv, CoreInv, TaskTypeOK, systick_handler, Expires
  <2>3. \A w \in WaitList : Sleepers(w)' \subseteq Sleepers(w) /\ Woken(w)' = Woken(w)
    BY <2>1, <2>2 DEF Sleepers, Woken
  <2> QED
    BY <1>1, <2>1, <2>3
<1>4. CASE IsrPost
  BY <1>4, SemLost
<1>5. ASSUME NEW t \in Task, TaskStep(t) PROVE NoLostWakeup'
  <2>1. CASE SemStep(t)
    BY <2>1, SemLost
  <2>2. CASE MutexStep(t)
    BY <2>2, MutexLost
  <2>3. CASE Delay(t) \/ Exit(t) \/ Wake(t)
    <3>1. UNCHANGED waitVars /\ UNCHANGED <<count, depth>>
      BY <2>3 DEF Delay, Exit, Wake, mutexVars
    <3>2. PICK u \in Task :
            /\ waitOn[u] = NULL
            /\ \A v \in Task \ {u} : state'[v] = state[v] /\ status'[v] = status[v]
      BY <1>5, <2>3, OneOutside
    <3> QED
      BY <3>1, <3>2, OutsideLost
  <2> QED
    BY <1>5, <2>1, <2>2, <2>3 DEF TaskStep, SemStep, MutexStep
<1> QED
  BY <1>2, <1>3, <1>4, <1>5 DEF Next

(* No wakeup is lost: no task sleeps on a semaphore that has a count to    *)
(* spare, or on a free mutex, unless tasks already woken are on their way  *)
(* to it, whatever posts, ticks and timeouts come in between (sem.c:100,   *)
(* mutex.c:75).                                                            *)
THEOREM WakeupsKept ==
  ASSUME TimedWaitsAlone
  PROVE  Spec => []NoLostWakeup
BY WInvariant, InitLost, NextLost, PTL DEF Spec

-----------------------------------------------------------------------------
(* The abstract semaphore of each object.                                  *)

(* Who timed out is alone, so either nobody did and the queue of sleepers  *)
(* is the whole list, or nobody sleeps.                                    *)
QueueInv ==
  \A w \in WaitList :
    /\ \A t \in Expired(w), u \in Task : waitOn[u] = w => u = t
    /\ Elements(Asleep(w)) = Sleepers(w)
    /\ \A l \in Seq(Task) :
         IsWaitList(w, l) => Asleep(w) = IF Expired(w) = {} THEN l ELSE <<>>

LEMMA QueueIs == WInv => QueueInv
<1> SUFFICES ASSUME WInv, NEW w \in WaitList
             PROVE  /\ \A t \in Expired(w), u \in Task : waitOn[u] = w => u = t
                    /\ Elements(Asleep(w)) = Sleepers(w)
                    /\ \A l \in Seq(Task) :
                         IsWaitList(w, l) => Asleep(w) = IF Expired(w) = {} THEN l ELSE <<>>
  BY DEF QueueInv
<1>1. \A t \in Expired(w), u \in Task : waitOn[u] = w => u = t
  BY TimedOutAlone DEF WInv, IInv, CoreInv
<1>2. Expired(w) # {} => Sleepers(w) = {}
  BY <1>1 DEF Sleepers, Expired
<1>3. ASSUME NEW l \in Seq(Task), IsWaitList(w, l)
      PROVE  /\ Asleep(w) = IF Expired(w) = {} THEN l ELSE <<>>
             /\ Elements(l) = Sleepers(w) \cup Expired(w)
  <2>1. Asleep(w) = Kept(l, Sleepers(w))
    BY <1>3, WaitingIs DEF Asleep
  <2>2. Elements(l) = Sleepers(w) \cup Expired(w)
    BY <1>3 DEF IsWaitList, Listed
  <2>3. CASE Expired(w) = {}
    BY <2>1, <2>2, <2>3, KeptAll
  <2>4. CASE Expired(w) # {}
    BY <1>2, <2>1, <2>2, <2>4, KeptNone
  <2> QED
    BY <2>2, <2>3, <2>4
<1>4. Elements(Asleep(w)) = Sleepers(w)
  <2>1. PICK l \in Seq(Task) : IsWaitList(w, l)
    BY DEF WInv, ListsInv
  <2>2. Elements(<<>>) = {}
    BY DEF Elements
  <2> QED
    BY <1>2, <1>3, <2>1, <2>2
<1> QED
  BY <1>1, <1>3, <1>4

(* The abstract semaphore stands still.                                    *)
Still(w) ==
  /\ Asleep(w)' = Asleep(w)
  /\ Woken(w)' = Woken(w)
  /\ Expired(w)' = Expired(w)

LEMMA StillKeeps ==
  ASSUME NEW w, Still(w), Value(w)' = Value(w)
  PROVE  Promise(w)!SemaphoreStep
BY DEF Still, Promise!SemaphoreStep, Promise!semaphoreVars

LEMMA EmptyList ==
  ASSUME NEW S, NEW l \in Seq(S), Elements(l) = {}
  PROVE  l = <<>>
BY DEF Elements

LEMMA SameQueue ==
  ASSUME QueueInv, QueueInv', NEW w \in WaitList, NEW l \in Seq(Task),
         IsWaitList(w, l), IsWaitList(w, l)', Expired(w)' = Expired(w)
  PROVE  Asleep(w)' = Asleep(w)
BY DEF QueueInv

(* A call with a timeout of zero is never asleep, and is not woken.        *)
ZeroInv ==
  \A t \in Task :
    waitOn[t] # NULL /\ waitMs[t] = 0 => state[t] = "RUN" /\ status[t] = "TIMEOUT"

LEMMA BlockPromise ==
  ASSUME WInv, ZeroInv, QueueInv, QueueInv', NEW w \in Sem \cup Mutex, NEW t \in Task,
         NEW tms \in Int, Running(t), MayBlock(w, t), Block(w, t, tms),
         waitOn[t] = w => tms = waitMs[t], Value(w) = 0, Value(w)' = 0
  PROVE  /\ ZeroInv' /\ Promise(w)!SemaphoreStep
         /\ \A v \in WaitList \ {w} : Still(v)
<1> USE SemAssumption, MutexAssumption, TaskAssumption
    DEF SemAssumption, MutexAssumption, TaskAssumption
<1>1. w \in WaitList /\ w # NULL
  OBVIOUS
<1>2. /\ \A u \in Task \ {t} :
           /\ state'[u] = state[u] /\ status'[u] = status[u]
           /\ waitOn'[u] = waitOn[u] /\ waitMs'[u] = waitMs[u]
      /\ waitOn'[t] = w /\ waitMs'[t] = tms
      /\ IF tms = 0 THEN state'[t] = "RUN" /\ status'[t] = "TIMEOUT"
                    ELSE state'[t] = "SLEEP"
  BY <1>1, BlockEffect DEF WInv, IInv
<1>3. ZeroInv'
  BY <1>2 DEF ZeroInv
<1>4. PICK l \in Seq(Task) : IsWaitList(w, l)
  BY <1>1 DEF WInv, ListsInv
<1>5. /\ IsWaitList(w, Append(l, t))' /\ Append(l, t) \in Seq(Task)
      /\ \A v \in WaitList \ {w}, k \in Seq(Task) : IsWaitList(v, k) => IsWaitList(v, k)'
  BY <1>1, <1>4, BlockLinks DEF WInv, IInv
<1>6. \A v \in WaitList : ButOne(Woken(v), Woken(v)', t) /\ ButOne(Expired(v), Expired(v)', t)
  BY <1>2, OneTaskChanges
<1>7. ASSUME NEW v \in WaitList \ {w} PROVE Still(v)
  <2>1. t \notin Woken(v) /\ t \notin Woken(v)' /\ t \notin Expired(v) /\ t \notin Expired(v)'
    BY <1>2 DEF MayBlock, Woken, Expired
  <2>2. Woken(v)' = Woken(v) /\ Expired(v)' = Expired(v)
    BY <1>6, <2>1 DEF ButOne
  <2>3. PICK k \in Seq(Task) : IsWaitList(v, k)
    BY DEF WInv, ListsInv
  <2> QED
    BY <1>5, <2>2, <2>3, SameQueue DEF Still
<1>8. state[t] = "RUN"
  BY DEF Running, WInv, IInv, CoreInv, SchedInv
<1>9. t \notin Expired(w) /\ t \notin Sleepers(w)
  BY <1>1, <1>8 DEF MayBlock, Expired, Sleepers
<1>10. Elements(Asleep(w)) = Sleepers(w)
  BY <1>1 DEF QueueInv
<1>11. CASE tms # 0
  <2>1. t \notin Expired(w)' /\ t \notin Woken(w)'
    BY <1>2, <1>11 DEF Expired, Woken
  <2>2. Expired(w)' = Expired(w) /\ Woken(w)' = Woken(w) \ {t}
    BY <1>1, <1>6, <1>9, <2>1 DEF ButOne
  <2>3. Expired(w) = {}
    BY <1>1, <1>2, <1>9, <2>2 DEF QueueInv
  <2>4. Asleep(w)' = Append(Asleep(w), t)
    <3>1. Asleep(w) = l
      BY <1>1, <1>4, <2>3 DEF QueueInv
    <3> DEFINE k == Append(l, t)
    <3>2. k \in Seq(Task) /\ IsWaitList(w, k)'
      BY <1>5
    <3> HIDE DEF k
    <3>3. Asleep(w)' = k
      BY <1>1, <2>2, <2>3, <3>2 DEF QueueInv
    <3> QED
      BY <3>1, <3>3 DEF k
  <2>5. Promise(w)!Idling(t) \/ t \in Woken(w)
    BY <1>1, <1>8, <1>9, <1>10 DEF Promise!Idling, Promise!Queued, Elements, MayBlock, Woken
  <2>6. Promise(w)!Sleep(t)
    BY <2>2, <2>4, <2>5 DEF Promise!Sleep
  <2> QED
    BY <1>3, <1>7, <2>6 DEF Promise!SemaphoreStep, Promise!SemaphoreNext
<1>12. CASE tms = 0
  <2>1. waitOn[t] = NULL
    BY <1>1, <1>12 DEF MayBlock, ZeroInv
  <2>2. t \in Expired(w)' /\ t \notin Woken(w)' /\ t \notin Woken(w)
    BY <1>1, <1>2, <1>12, <2>1 DEF Expired, Woken
  <2>3. Woken(w)' = Woken(w) /\ Expired(w)' = Expired(w) \cup {t}
    BY <1>1, <1>6, <1>9, <2>2 DEF ButOne
  <2>4. ASSUME NEW u \in Task, waitOn[u] = w PROVE FALSE
    <3>1. u # t /\ waitOn'[u] = w
      BY <1>1, <1>2, <2>1, <2>4
    <3> QED
      BY <1>1, <2>2, <3>1 DEF QueueInv
  <2>5. Expired(w) = {} /\ Sleepers(w) = {}
    BY <2>4 DEF Expired, Sleepers
  <2>6. Asleep(w) = <<>>
    <3>1. Asleep(w) = l
      BY <1>1, <1>4, <2>5 DEF QueueInv
    <3>2. Elements(l) = {}
      BY <1>10, <2>5, <3>1
    <3> QED
      BY <3>1, <3>2, EmptyList
  <2>7. Asleep(w)' = <<>>
    BY <1>1, <1>5, <2>2 DEF QueueInv
  <2>8. Promise(w)!ExpireAtOnce(t)
    BY <1>9, <1>10, <2>2, <2>3, <2>6, <2>7
       DEF Promise!ExpireAtOnce, Promise!Idling, Promise!Queued, Elements
  <2> QED
    BY <1>3, <1>7, <2>8 DEF Promise!SemaphoreStep, Promise!SemaphoreNext
<1> QED
  BY <1>11, <1>12

(* Steps of task t that change no list and nothing about another task.     *)
LEMMA StillBut ==
  ASSUME WInv, QueueInv, QueueInv', NEW t \in Task, UNCHANGED listVars,
         \A u \in Task \ {t} :
           state'[u] = state[u] /\ status'[u] = status[u] /\ waitOn'[u] = waitOn[u],
         NEW v \in WaitList, waitOn[t] # v, waitOn'[t] # v
  PROVE  Still(v)
<1>1. /\ t \notin Listed(v) /\ t \notin Listed(v)' /\ t \notin Woken(v) /\ t \notin Woken(v)'
      /\ t \notin Expired(v) /\ t \notin Expired(v)'
  BY DEF Listed, Sleepers, Expired, Woken
<1>2. /\ ButOne(Listed(v), Listed(v)', t) /\ ButOne(Woken(v), Woken(v)', t)
      /\ ButOne(Expired(v), Expired(v)', t)
  BY OneTaskChanges
<1>3. Listed(v)' = Listed(v) /\ Woken(v)' = Woken(v) /\ Expired(v)' = Expired(v)
  BY <1>1, <1>2 DEF ButOne
<1>4. PICK l \in Seq(Task) : IsWaitList(v, l)
  BY DEF WInv, ListsInv
<1>5. IsWaitList(v, l)'
  BY <1>3, <1>4, ListFrame DEF listVars
<1> QED
  BY <1>3, <1>4, <1>5, SameQueue DEF Still

(* A task outside of the loops comes or goes.                              *)
LEMMA OutsidePromise ==
  ASSUME WInv, ZeroInv, QueueInv, QueueInv', NEW t \in Task, waitOn[t] = NULL,
         \A u \in Task \ {t} : state'[u] = state[u] /\ status'[u] = status[u],
         UNCHANGED listVars, UNCHANGED waitVars
  PROVE  ZeroInv' /\ \A v \in WaitList : Still(v)
<1>1. waitOn' = waitOn /\ waitMs' = waitMs
  BY DEF waitVars
<1>2. ZeroInv'
  BY <1>1 DEF ZeroInv
<1>3. \A v \in WaitList : v # NULL
  BY TaskAssumption DEF TaskAssumption
<1> QED
  BY <1>1, <1>2, <1>3, StillBut

(* A unit is taken by a task that finds one at once.                       *)
LEMMA TakePromise ==
  ASSUME WInv, ZeroInv, QueueInv, QueueInv', NEW w \in WaitList, NEW t \in Task,
         waitOn[t] = NULL, UNCHANGED kernelVars, UNCHANGED waitVars,
         Value(w) > 0, Value(w)' = Value(w) - 1
  PROVE  /\ ZeroInv' /\ Promise(w)!SemaphoreStep
         /\ \A v \in WaitList \ {w} : Still(v)
<1>1. ZeroInv' /\ \A v \in WaitList : Still(v)
  BY OutsidePromise DEF kernelVars, taskVars
<1>2. t \notin Sleepers(w) /\ t \notin Woken(w) /\ t \notin Expired(w)
  BY TaskAssumption DEF Sleepers, Woken, Expired, TaskAssumption
<1>3. Elements(Asleep(w)) = Sleepers(w)
  BY DEF QueueInv
<1>4. Promise(w)!TakeAtOnce(t)
  BY <1>1, <1>2, <1>3
     DEF Promise!TakeAtOnce, Promise!Idling, Promise!Queued, Elements, Still
<1> QED
  BY <1>1, <1>4 DEF Promise!SemaphoreStep, Promise!SemaphoreNext

(* A woken task takes the unit.                                            *)
LEMMA LeavePromise ==
  ASSUME WInv, ZeroInv, QueueInv, QueueInv', NEW w \in Sem \cup Mutex, NEW t \in Task,
         Resumes(w, t), status[t] # "TIMEOUT", LeaveLoop(t), UNCHANGED kernelVars,
         Value(w) > 0, Value(w)' = Value(w) - 1
  PROVE  /\ ZeroInv' /\ Promise(w)!SemaphoreStep
         /\ \A v \in WaitList \ {w} : Still(v)
<1>1. /\ w \in WaitList /\ w # NULL /\ waitOn[t] = w
      /\ state[t] = "RUN" /\ status[t] = "OK"
  BY BackInLoop DEF WInv, IInv
<1>2. /\ waitOn'[t] = NULL
      /\ \A u \in Task \ {t} : waitOn'[u] = waitOn[u] /\ waitMs'[u] = waitMs[u]
  BY DEF WInv, IInv, CoreInv, WaitTypeOK, LeaveLoop
<1>3. state' = state /\ status' = status /\ UNCHANGED listVars
  BY DEF kernelVars, taskVars
<1>4. ZeroInv'
  BY <1>2, <1>3 DEF ZeroInv
<1>5. \A v \in WaitList : v # NULL
  BY TaskAssumption DEF TaskAssumption
<1>6. \A v \in WaitList \ {w} : Still(v)
  BY <1>1, <1>2, <1>3, <1>5, StillBut
<1>7. /\ ButOne(Listed(w), Listed(w)', t) /\ ButOne(Woken(w), Woken(w)', t)
      /\ ButOne(Expired(w), Expired(w)', t)
  BY <1>1, <1>2, <1>3, OneTaskChanges
<1>8. /\ t \notin Listed(w) /\ t \notin Listed(w)' /\ t \in Woken(w) /\ t \notin Woken(w)'
      /\ t \notin Expired(w) /\ t \notin Expired(w)'
  BY <1>1, <1>2, <1>3 DEF Listed, Sleepers, Expired, Woken
<1>9. /\ Listed(w)' = Listed(w) /\ Woken(w)' = Woken(w) \ {t}
      /\ Expired(w)' = Expired(w)
  BY <1>7, <1>8 DEF ButOne
<1>10. Asleep(w)' = Asleep(w)
  <2>1. PICK l \in Seq(Task) : IsWaitList(w, l)
    BY <1>1 DEF WInv, ListsInv
  <2>2. IsWaitList(w, l)'
    BY <1>1, <1>3, <1>9, <2>1, ListFrame DEF listVars
  <2> QED
    BY <1>1, <1>9, <2>1, <2>2, SameQueue
<1>11. Promise(w)!TakeAwake(t)
  BY <1>8, <1>9, <1>10 DEF Promise!TakeAwake
<1> QED
  BY <1>4, <1>6, <1>11 DEF Promise!SemaphoreStep, Promise!SemaphoreNext

(* A task that timed out gives up.                                         *)
LEMMA GiveUpPromise ==
  ASSUME WInv, ZeroInv, QueueInv, QueueInv', NEW w \in Sem \cup Mutex, NEW t \in Task,
         Resumes(w, t), GiveUp(w, t), Value(w)' = Value(w)
  PROVE  /\ ZeroInv' /\ Promise(w)!SemaphoreStep
         /\ \A v \in WaitList \ {w} : Still(v)
<1>1. /\ w \in WaitList /\ w # NULL /\ waitOn[t] = w
      /\ state[t] = "RUN" /\ status[t] = "TIMEOUT"
  BY BackInLoop DEF WInv, IInv, GiveUp
<1>2. /\ waitOn'[t] = NULL
      /\ \A u \in Task \ {t} : waitOn'[u] = waitOn[u] /\ waitMs'[u] = waitMs[u]
  BY DEF WInv, IInv, CoreInv, WaitTypeOK, GiveUp, LeaveLoop
<1>3. state' = state /\ status' = status
  BY DEF GiveUp, _waiters_remove, taskVars
<1>4. ZeroInv'
  BY <1>2, <1>3 DEF ZeroInv
<1>5. t \in Expired(w)
  BY <1>1 DEF Expired
<1>6. \A u \in Task : waitOn[u] = w => u = t
  BY <1>1, <1>5 DEF QueueInv
<1>7. /\ IsWaitList(w, <<>>)'
      /\ \A v \in WaitList \ {w}, k \in Seq(Task) : IsWaitList(v, k) => IsWaitList(v, k)'
  BY <1>1, <1>6, GiveUpLinks DEF WInv, IInv
<1>8. \A v \in WaitList : ButOne(Woken(v), Woken(v)', t) /\ ButOne(Expired(v), Expired(v)', t)
  BY <1>2, <1>3, OneTaskChanges
<1>9. ASSUME NEW v \in WaitList \ {w} PROVE Still(v)
  <2>1. v # NULL
    BY TaskAssumption DEF TaskAssumption
  <2>2. t \notin Woken(v) /\ t \notin Woken(v)' /\ t \notin Expired(v) /\ t \notin Expired(v)'
    BY <1>1, <1>2, <2>1 DEF Woken, Expired
  <2>3. Woken(v)' = Woken(v) /\ Expired(v)' = Expired(v)
    BY <1>8, <2>2 DEF ButOne
  <2>4. PICK k \in Seq(Task) : IsWaitList(v, k)
    BY DEF WInv, ListsInv
  <2> QED
    BY <1>7, <2>3, <2>4, SameQueue DEF Still
<1>10. t \notin Woken(w) /\ t \notin Woken(w)' /\ t \notin Expired(w)'
  BY <1>1, <1>2 DEF Woken, Expired
<1>11. Woken(w)' = Woken(w) /\ Expired(w)' = Expired(w) \ {t}
  BY <1>1, <1>5, <1>8, <1>10 DEF ButOne
<1>12. Asleep(w) = <<>> /\ Asleep(w)' = <<>>
  <2>1. PICK l \in Seq(Task) : IsWaitList(w, l)
    BY <1>1 DEF WInv, ListsInv
  <2>2. <<>> \in Seq(Task)
    OBVIOUS
  <2> QED
    BY <1>1, <1>5, <1>7, <2>1, <2>2 DEF QueueInv
<1>13. Promise(w)!GiveUp(t)
  BY <1>5, <1>11, <1>12 DEF Promise!GiveUp
<1> QED
  BY <1>4, <1>9, <1>13 DEF Promise!SemaphoreStep, Promise!SemaphoreNext

(* A post, or an unlock.                                                   *)
LEMMA PostPromise ==
  ASSUME WInv, ZeroInv, QueueInv, QueueInv', NEW w \in WaitList,
         _waiters_wake_first(w), UNCHANGED waitVars, Value(w)' = Value(w) + 1
  PROVE  /\ ZeroInv' /\ Promise(w)!SemaphoreStep
         /\ \A v \in WaitList \ {w} : Still(v)
<1> USE TaskAssumption DEF TaskAssumption
<1>1. waitOn' = waitOn /\ waitMs' = waitMs
  BY DEF waitVars
<1>2. PICK l \in Seq(Task) : IsWaitList(w, l)
  BY DEF WInv, ListsInv
<1>3. CASE UNCHANGED kernelVars
  <2>1. ZeroInv' /\ \A v \in WaitList : Still(v)
    <3>1. Idle \in Task /\ waitOn[Idle] = NULL
      BY IdleOutside DEF WInv, IInv, CoreInv
    <3> QED
      BY <1>3, <3>1, OutsidePromise DEF kernelVars, taskVars
  <2>2. Sleepers(w) = {}
    BY <2>1, WakeWakes DEF Still
  <2>3. Asleep(w) = <<>>
    <3>1. Asleep(w) = l \/ Asleep(w) = <<>>
      BY <1>2 DEF QueueInv
    <3>2. Elements(Asleep(w)) = {}
      BY <2>2 DEF QueueInv
    <3> QED
      BY <3>1, <3>2, EmptyList
  <2>4. Promise(w)!Post
    BY <2>1, <2>3 DEF Promise!Post, Still
  <2> QED
    BY <2>1, <2>4 DEF Promise!SemaphoreStep, Promise!SemaphoreNext
<1>4. CASE ~UNCHANGED kernelVars
  <2>1. PICK t \in Task : t = first[w] /\ state[t] = "SLEEP"
          /\ state'[t] = "RUN" /\ status'[t] = "OK"
          /\ \A u \in Task \ {t} : state'[u] = state[u] /\ status'[u] = status[u]
    BY <1>4, WakeEffect DEF WInv, IInv
  <2>2. /\ l # <<>> /\ l[1] = t /\ IsWaitList(w, Tail(l))'
        /\ \A v \in WaitList \ {w}, k \in Seq(Task) : IsWaitList(v, k) => IsWaitList(v, k)'
    BY <1>2, <1>4, <2>1, WakeLinks DEF WInv, IInv
  <2>3. t \in Elements(l)
    <3>1. 1 \in DOMAIN l
      BY <2>2
    <3> QED
      BY <2>2, <3>1 DEF Elements
  <2>4. waitOn[t] = w
    BY <1>2, <2>3, ListedWaits DEF IsWaitList
  <2>5. ZeroInv'
    BY <1>1, <2>1, <2>4 DEF ZeroInv
  <2>6. \A v \in WaitList : ButOne(Woken(v), Woken(v)', t) /\ ButOne(Expired(v), Expired(v)', t)
    BY <1>1, <2>1, OneTaskChanges
  <2>7. ASSUME NEW v \in WaitList \ {w} PROVE Still(v)
    <3>1. t \notin Woken(v) /\ t \notin Woken(v)' /\ t \notin Expired(v) /\ t \notin Expired(v)'
      BY <1>1, <2>4 DEF Woken, Expired
    <3>2. Woken(v)' = Woken(v) /\ Expired(v)' = Expired(v)
      BY <2>6, <3>1 DEF ButOne
    <3>3. PICK k \in Seq(Task) : IsWaitList(v, k)
      BY DEF WInv, ListsInv
    <3> QED
      BY <2>2, <3>2, <3>3, SameQueue DEF Still
  <2>8. /\ t \notin Woken(w) /\ t \in Woken(w)'
        /\ t \notin Expired(w) /\ t \notin Expired(w)'
    BY <1>1, <2>1, <2>4 DEF Woken, Expired
  <2>9. Woken(w)' = Woken(w) \cup {t} /\ Expired(w)' = Expired(w)
    BY <2>6, <2>8 DEF ButOne
  <2>10. Expired(w) = {}
    BY <2>4, <2>8 DEF QueueInv
  <2>11. Asleep(w) = l
    BY <1>2, <2>10 DEF QueueInv
  <2>12. Asleep(w)' = Tail(l)
    <3> DEFINE k == Tail(l)
    <3>1. k \in Seq(Task) /\ IsWaitList(w, k)'
      BY <2>2
    <3> HIDE DEF k
    <3>2. Asleep(w)' = k
      BY <2>9, <2>10, <3>1 DEF QueueInv
    <3> QED
      BY <3>2 DEF k
  <2>13. Promise(w)!Post
    <3>1. Head(l) = t
      BY <2>2
    <3> QED
      BY <2>2, <2>9, <2>11, <2>12, <3>1 DEF Promise!Post
  <2> QED
    BY <2>5, <2>7, <2>13 DEF Promise!SemaphoreStep, Promise!SemaphoreNext
<1> QED
  BY <1>3, <1>4

(* A tick ends sleeps.                                                     *)
LEMMA TickPromise ==
  ASSUME WInv, ZeroInv, QueueInv, QueueInv', systick_handler, UNCHANGED waitVars,
         NEW w \in WaitList, Value(w)' = Value(w)
  PROVE  ZeroInv' /\ Promise(w)!SemaphoreStep
<1> USE TaskAssumption DEF TaskAssumption
<1>1. \A u \in Task :
        \/ state'[u] = state[u] /\ status'[u] = status[u]
        \/ state[u] = "SLEEP" /\ state'[u] = "RUN" /\ status'[u] = "TIMEOUT"
  BY DEF WInv, IInv, CoreInv, TaskTypeOK, systick_handler, Expires
<1>2. waitOn' = waitOn /\ waitMs' = waitMs
  BY DEF waitVars
<1>3. ZeroInv'
  BY <1>1, <1>2 DEF ZeroInv
<1> DEFINE S == {u \in Sleepers(w) : state'[u] = "RUN"}
<1>4. /\ Woken(w)' = Woken(w) /\ Expired(w)' = Expired(w) \cup S
      /\ Listed(w)' = Listed(w)
  BY <1>1, <1>2 DEF Woken, Expired, Sleepers, Listed
<1>5. PICK l \in Seq(Task) : IsWaitList(w, l)
  BY DEF WInv, ListsInv
<1>6. IsWaitList(w, l)'
  BY <1>4, <1>5, ListFrame DEF systick_handler, listVars
<1>7. CASE S = {}
  <2>1. Expired(w)' = Expired(w)
    BY <1>4, <1>7
  <2>2. Asleep(w)' = Asleep(w)
    BY <1>5, <1>6, <2>1, SameQueue
  <2> QED
    BY <1>3, <1>4, <2>1, <2>2, StillKeeps DEF Still
<1>8. CASE S # {}
  <2>1. PICK t \in S : TRUE
    BY <1>8
  <2>2. t \in Task /\ waitOn[t] = w /\ state[t] = "SLEEP" /\ t \in Expired(w)'
    BY <1>4, <2>1 DEF Sleepers
  <2>3. \A u \in Task : waitOn[u] = w => u = t
    BY <1>2, <2>2 DEF QueueInv
  <2>4. Sleepers(w) = {t} /\ Expired(w) = {} /\ S = {t}
    BY <2>1, <2>2, <2>3 DEF Sleepers, Expired
  <2>5. Asleep(w) = l /\ Asleep(w)' = <<>> /\ Elements(l) = {t}
    BY <1>5, <1>6, <2>2, <2>4 DEF QueueInv
  <2>6. Kept(l, Elements(l) \ S) = <<>>
    <3>1. Elements(l) \cap (Elements(l) \ S) = {}
      BY <2>4, <2>5
    <3> QED
      BY <3>1, KeptNone
  <2> HIDE DEF S
  <2>7. Promise(w)!Queued = Elements(l)
    BY <2>5 DEF Promise!Queued, Elements
  <2>8. S \in SUBSET Promise(w)!Queued
    BY <2>4, <2>5, <2>7
  <2>9. Asleep(w)' = Kept(Asleep(w), Promise(w)!Queued \ S)
    BY <2>5, <2>6, <2>7
  <2>10. Promise(w)!Kept(Asleep(w), Promise(w)!Queued \ S) = Kept(Asleep(w), Promise(w)!Queued \ S)
    BY DEF Promise!Kept, Kept, Promise!Cardinality, Cardinality
  <2>11. Promise(w)!Expire(S)
    BY <1>4, <1>8, <2>9, <2>10 DEF Promise!Expire
  <2> QED
    BY <1>3, <2>8, <2>11 DEF Promise!SemaphoreStep, Promise!SemaphoreNext
<1> QED
  BY <1>7, <1>8

(* A step that concerns w keeps all promises if it keeps that of w.        *)
LEMMA AllKeep ==
  ASSUME NEW w \in Sem \cup Mutex, Promise(w)!SemaphoreStep,
         \A v \in WaitList \ {w} : Still(v),
         \A v \in (Sem \cup Mutex) \ {w} : Value(v)' = Value(v)
  PROVE  \A v \in Sem \cup Mutex : Promise(v)!SemaphoreStep
<1>1. Sem \cup Mutex \subseteq WaitList
  BY SemAssumption, MutexAssumption DEF SemAssumption, MutexAssumption
<1> QED
  BY <1>1, StillKeeps

LEMMA SemValues ==
  ASSUME NEW s \in Sem, \A r \in Sem \ {s} : count'[r] = count[r], UNCHANGED depth
  PROVE  /\ Value(s) = count[s] /\ Value(s)' = count'[s]
         /\ \A v \in (Sem \cup Mutex) \ {s} : Value(v)' = Value(v)
BY DEF Value

LEMMA SemKeeps ==
  ASSUME WInv, ZeroInv, QueueInv, QueueInv', NEW t \in Task, SemStep(t) \/ IsrPost
  PROVE  ZeroInv' /\ \A w \in Sem \cup Mutex : Promise(w)!SemaphoreStep
<1> USE SemAssumption DEF SemAssumption
<1>1. UNCHANGED depth
  BY DEF SemStep, Wait, WaitResume, Post, IsrPost, mutexVars
<1>2. count \in [Sem -> Nat]
  BY DEF WInv, IInv, SemTypeOK
<1>3. CASE Wait(t)
  <2>1. PICK c \in WaitCalls[t] : sem_wait_ms(t, c[1], c[2])
    BY <1>3 DEF Wait
  <2>2. c[1] \in Sem /\ c[2] \in Int /\ AtCall(t)
    BY <2>1, ClientAssumption DEF ClientAssumption, sem_wait_ms
  <2> DEFINE s == c[1]
  <2>3. s \in Sem
    BY <2>2
  <2>4. CASE Take(s) /\ UNCHANGED waitVars
    <3>1. count[s] > 0 /\ count'[s] = count[s] - 1 /\ \A r \in Sem \ {s} : count'[r] = count[r]
      BY <1>2, <2>3, <2>4 DEF Take
    <3>2. /\ Value(s) > 0 /\ Value(s)' = Value(s) - 1
          /\ \A v \in (Sem \cup Mutex) \ {s} : Value(v)' = Value(v)
      BY <1>1, <2>3, <3>1, SemValues
    <3>3. /\ ZeroInv' /\ Promise(s)!SemaphoreStep
          /\ \A v \in WaitList \ {s} : Still(v)
      BY <2>2, <2>3, <2>4, <3>2, TakePromise DEF Take, AtCall
    <3> QED
      BY <2>3, <3>2, <3>3, AllKeep
  <2>5. CASE UNCHANGED <<count, kernelVars, waitVars>>
    <3>1. /\ \A v \in (Sem \cup Mutex) \ {s} : Value(v)' = Value(v)
          /\ Value(s)' = Value(s)
      BY <1>1, <2>3, <2>5, SemValues
    <3>2. ZeroInv' /\ \A v \in WaitList : Still(v)
      BY <2>2, <2>5, OutsidePromise DEF AtCall, kernelVars, taskVars
    <3> QED
      BY <2>3, <3>1, <3>2, StillKeeps, AllKeep
  <2>6. CASE count[s] = 0 /\ Block(s, t, c[2]) /\ UNCHANGED count
    <3>1. /\ Value(s) = 0 /\ Value(s)' = 0
          /\ \A v \in (Sem \cup Mutex) \ {s} : Value(v)' = Value(v)
      BY <1>1, <2>3, <2>6, SemValues
    <3>2. MayBlock(s, t) /\ Running(t) /\ waitOn[t] # s
      BY <2>2, <2>3, TaskAssumption DEF AtCall, MayBlock, TaskAssumption
    <3>3. /\ ZeroInv' /\ Promise(s)!SemaphoreStep
          /\ \A v \in WaitList \ {s} : Still(v)
      BY <2>2, <2>3, <2>6, <3>1, <3>2, BlockPromise
    <3> QED
      BY <2>3, <3>1, <3>3, AllKeep
  <2> QED
    BY <2>1, <2>4, <2>5, <2>6 DEF sem_wait_ms
<1>4. CASE WaitResume(t)
  <2>1. PICK s \in Sem : sem_wait_resume(t, s)
    BY <1>4 DEF WaitResume
  <2>2. Resumes(s, t)
    BY <2>1 DEF sem_wait_resume
  <2>3. waitOn[t] = s /\ Running(t) /\ status[t] \in {"OK", "TIMEOUT"} /\ waitMs[t] \in Int
    BY <2>2, BackInLoop DEF WInv, IInv
  <2>4. CASE count[s] = 0 /\ status[t] # "TIMEOUT" /\ Block(s, t, waitMs[t]) /\ UNCHANGED count
    <3>1. /\ Value(s) = 0 /\ Value(s)' = 0
          /\ \A v \in (Sem \cup Mutex) \ {s} : Value(v)' = Value(v)
      BY <1>1, <2>4, SemValues
    <3>2. /\ ZeroInv' /\ Promise(s)!SemaphoreStep
          /\ \A v \in WaitList \ {s} : Still(v)
      BY <2>3, <2>4, <3>1, BlockPromise DEF MayBlock
    <3> QED
      BY <3>1, <3>2, AllKeep
  <2>5. CASE GiveUp(s, t) /\ UNCHANGED count
    <3>1. /\ Value(s)' = Value(s)
          /\ \A v \in (Sem \cup Mutex) \ {s} : Value(v)' = Value(v)
      BY <1>1, <2>5, SemValues
    <3>2. /\ ZeroInv' /\ Promise(s)!SemaphoreStep
          /\ \A v \in WaitList \ {s} : Still(v)
      BY <2>2, <2>5, <3>1, GiveUpPromise
    <3> QED
      BY <3>1, <3>2, AllKeep
  <2>6. CASE status[t] # "TIMEOUT" /\ Take(s) /\ LeaveLoop(t)
    <3>1. count[s] > 0 /\ count'[s] = count[s] - 1 /\ \A r \in Sem \ {s} : count'[r] = count[r]
      BY <1>2, <2>6 DEF Take
    <3>2. /\ Value(s) > 0 /\ Value(s)' = Value(s) - 1
          /\ \A v \in (Sem \cup Mutex) \ {s} : Value(v)' = Value(v)
      BY <1>1, <3>1, SemValues
    <3>3. /\ ZeroInv' /\ Promise(s)!SemaphoreStep
          /\ \A v \in WaitList \ {s} : Still(v)
      BY <2>2, <2>6, <3>2, LeavePromise DEF Take
    <3> QED
      BY <3>2, <3>3, AllKeep
  <2> QED
    BY <2>1, <2>4, <2>5, <2>6 DEF sem_wait_resume
<1>5. CASE Post(t) \/ IsrPost
  <2>1. PICK s \in Sem : sem_post(s)
    BY <1>5, ClientAssumption DEF Post, IsrPost, ClientAssumption
  <2>2. count'[s] = count[s] + 1 /\ \A r \in Sem \ {s} : count'[r] = count[r]
    BY <1>2, <2>1 DEF sem_post
  <2>3. /\ Value(s)' = Value(s) + 1
        /\ \A v \in (Sem \cup Mutex) \ {s} : Value(v)' = Value(v)
    BY <1>1, <2>2, SemValues
  <2>4. /\ ZeroInv' /\ Promise(s)!SemaphoreStep
        /\ \A v \in WaitList \ {s} : Still(v)
    BY <2>1, <2>3, PostPromise DEF sem_post
  <2> QED
    BY <2>3, <2>4, AllKeep
<1> QED
  BY <1>3, <1>4, <1>5 DEF SemStep

LEMMA MutexValues ==
  ASSUME NEW m \in Mutex, \A n \in Mutex \ {m} : depth'[n] = depth[n], UNCHANGED count
  PROVE  /\ Value(m) = IF depth[m] = 0 THEN 1 ELSE 0
         /\ Value(m)' = IF depth'[m] = 0 THEN 1 ELSE 0
         /\ \A v \in (Sem \cup Mutex) \ {m} : Value(v)' = Value(v)
BY ClientAssumption DEF Value, ClientAssumption

LEMMA MutexKeeps ==
  ASSUME WInv, ZeroInv, QueueInv, QueueInv', NEW t \in Task, MutexStep(t)
  PROVE  ZeroInv' /\ \A w \in Sem \cup Mutex : Promise(w)!SemaphoreStep
<1> USE MutexAssumption DEF MutexAssumption
<1>1. UNCHANGED count
  BY DEF MutexStep, Lock, LockResume, Unlock
<1>2. depth \in [Mutex -> Nat]
  BY DEF WInv, IInv, MutexTypeOK
<1>3. \A m \in Mutex : depth[m] = 0 => owner[m] # t
  BY TaskAssumption DEF WInv, IInv, MutexInv, TaskAssumption
<1>4. CASE Lock(t)
  <2>1. PICK c \in LockCalls[t] : mutex_lock_ms(t, c[1], c[2])
    BY <1>4 DEF Lock
  <2>2. c[1] \in Mutex /\ c[2] \in Int /\ AtCall(t)
    BY <2>1, ClientAssumption DEF ClientAssumption, mutex_lock_ms
  <2> DEFINE m == c[1]
  <2>3. m \in Mutex
    BY <2>2
  <2>4. CASE owner[m] = t /\ depth' = [depth EXCEPT ![m] = @ + 1]
             /\ UNCHANGED <<kernelVars, waitVars>>
    <3>1. depth[m] # 0 /\ depth'[m] # 0 /\ \A n \in Mutex \ {m} : depth'[n] = depth[n]
      BY <1>2, <1>3, <2>3, <2>4
    <3>2. /\ \A v \in (Sem \cup Mutex) \ {m} : Value(v)' = Value(v)
          /\ Value(m)' = Value(m)
      BY <1>1, <2>3, <3>1, MutexValues
    <3>3. ZeroInv' /\ \A v \in WaitList : Still(v)
      BY <2>2, <2>4, OutsidePromise DEF AtCall, kernelVars, taskVars
    <3> QED
      BY <2>3, <3>2, <3>3, StillKeeps, AllKeep
  <2>5. CASE depth[m] = 0 /\ Acquire(m, t) /\ UNCHANGED waitVars
    <3>1. depth'[m] # 0 /\ \A n \in Mutex \ {m} : depth'[n] = depth[n]
      BY <1>2, <2>3, <2>5 DEF Acquire
    <3>2. /\ Value(m) > 0 /\ Value(m)' = Value(m) - 1
          /\ \A v \in (Sem \cup Mutex) \ {m} : Value(v)' = Value(v)
      BY <1>1, <2>3, <2>5, <3>1, MutexValues
    <3>3. /\ ZeroInv' /\ Promise(m)!SemaphoreStep
          /\ \A v \in WaitList \ {m} : Still(v)
      BY <2>2, <2>3, <2>5, <3>2, TakePromise DEF Acquire, AtCall
    <3> QED
      BY <2>3, <3>2, <3>3, AllKeep
  <2>6. CASE depth[m] > 0 /\ Block(m, t, c[2]) /\ UNCHANGED mutexVars
    <3>1. depth[m] # 0 /\ depth' = depth
      BY <1>2, <2>3, <2>6 DEF mutexVars
    <3>2. /\ Value(m) = 0 /\ Value(m)' = 0
          /\ \A v \in (Sem \cup Mutex) \ {m} : Value(v)' = Value(v)
      BY <1>1, <2>3, <3>1, MutexValues
    <3>3. MayBlock(m, t) /\ Running(t) /\ waitOn[t] # m
      BY <2>2, <2>3, TaskAssumption DEF AtCall, MayBlock, TaskAssumption
    <3>4. /\ ZeroInv' /\ Promise(m)!SemaphoreStep
          /\ \A v \in WaitList \ {m} : Still(v)
      BY <2>2, <2>3, <2>6, <3>2, <3>3, BlockPromise
    <3> QED
      BY <2>3, <3>2, <3>4, AllKeep
  <2> QED
    BY <2>1, <2>4, <2>5, <2>6 DEF mutex_lock_ms
<1>5. CASE LockResume(t)
  <2>1. PICK m \in Mutex : mutex_lock_resume(t, m)
    BY <1>5 DEF LockResume
  <2>2. Resumes(m, t)
    BY <2>1 DEF mutex_lock_resume
  <2>3. waitOn[t] = m /\ Running(t) /\ status[t] \in {"OK", "TIMEOUT"} /\ waitMs[t] \in Int
    BY <2>2, BackInLoop DEF WInv, IInv
  <2>4. CASE depth[m] > 0 /\ status[t] # "TIMEOUT" /\ Block(m, t, waitMs[t])
             /\ UNCHANGED mutexVars
    <3>1. depth[m] # 0 /\ depth' = depth
      BY <1>2, <2>4 DEF mutexVars
    <3>2. /\ Value(m) = 0 /\ Value(m)' = 0
          /\ \A v \in (Sem \cup Mutex) \ {m} : Value(v)' = Value(v)
      BY <1>1, <3>1, MutexValues
    <3>3. /\ ZeroInv' /\ Promise(m)!SemaphoreStep
          /\ \A v \in WaitList \ {m} : Still(v)
      BY <2>3, <2>4, <3>2, BlockPromise DEF MayBlock
    <3> QED
      BY <3>2, <3>3, AllKeep
  <2>5. CASE GiveUp(m, t) /\ UNCHANGED mutexVars
    <3>1. depth' = depth
      BY <2>5 DEF mutexVars
    <3>2. /\ Value(m)' = Value(m)
          /\ \A v \in (Sem \cup Mutex) \ {m} : Value(v)' = Value(v)
      BY <1>1, <3>1, MutexValues
    <3>3. /\ ZeroInv' /\ Promise(m)!SemaphoreStep
          /\ \A v \in WaitList \ {m} : Still(v)
      BY <2>2, <2>5, <3>2, GiveUpPromise
    <3> QED
      BY <3>2, <3>3, AllKeep
  <2>6. CASE depth[m] = 0 /\ status[t] # "TIMEOUT" /\ Acquire(m, t) /\ LeaveLoop(t)
    <3>1. depth'[m] # 0 /\ \A n \in Mutex \ {m} : depth'[n] = depth[n]
      BY <1>2, <2>6 DEF Acquire
    <3>2. /\ Value(m) > 0 /\ Value(m)' = Value(m) - 1
          /\ \A v \in (Sem \cup Mutex) \ {m} : Value(v)' = Value(v)
      BY <1>1, <2>6, <3>1, MutexValues
    <3>3. /\ ZeroInv' /\ Promise(m)!SemaphoreStep
          /\ \A v \in WaitList \ {m} : Still(v)
      BY <2>2, <2>6, <3>2, LeavePromise DEF Acquire
    <3> QED
      BY <3>2, <3>3, AllKeep
  <2> QED
    BY <2>1, <2>4, <2>5, <2>6 DEF mutex_lock_resume
<1>6. CASE Unlock(t)
  <2>1. PICK m \in Mutex : mutex_unlock(t, m)
    BY <1>6 DEF Unlock
  <2>2. depth[m] # 0 /\ UNCHANGED waitVars /\ waitOn[t] = NULL
    BY <2>1 DEF mutex_unlock, AtCall, WInv, IInv, MutexTypeOK, MutexInv
  <2>3. depth'[m] = depth[m] - 1 /\ \A n \in Mutex \ {m} : depth'[n] = depth[n]
    BY <1>2, <2>1 DEF mutex_unlock
  <2>4. CASE depth[m] # 1
    <3>1. depth'[m] # 0 /\ UNCHANGED kernelVars
      BY <1>2, <2>1, <2>3, <2>4 DEF mutex_unlock
    <3>2. /\ \A v \in (Sem \cup Mutex) \ {m} : Value(v)' = Value(v)
          /\ Value(m)' = Value(m)
      BY <1>1, <2>2, <2>3, <3>1, MutexValues
    <3>3. ZeroInv' /\ \A v \in WaitList : Still(v)
      BY <2>2, <3>1, OutsidePromise DEF kernelVars, taskVars
    <3> QED
      BY <3>2, <3>3, StillKeeps, AllKeep
  <2>5. CASE depth[m] = 1
    <3>1. /\ Value(m)' = Value(m) + 1
          /\ \A v \in (Sem \cup Mutex) \ {m} : Value(v)' = Value(v)
      BY <1>1, <2>3, <2>5, MutexValues
    <3>2. /\ ZeroInv' /\ Promise(m)!SemaphoreStep
          /\ \A v \in WaitList \ {m} : Still(v)
      BY <2>1, <2>2, <2>5, <3>1, PostPromise DEF mutex_unlock
    <3> QED
      BY <3>1, <3>2, AllKeep
  <2> QED
    BY <2>4, <2>5
<1> QED
  BY <1>4, <1>5, <1>6 DEF MutexStep

LEMMA NextKeeps ==
  WInv /\ QueueInv /\ QueueInv' /\ ZeroInv /\ [Next]_vars
    => ZeroInv' /\ \A w \in Sem \cup Mutex : Promise(w)!SemaphoreStep
<1> SUFFICES ASSUME WInv, QueueInv, QueueInv', ZeroInv, [Next]_vars
             PROVE  ZeroInv' /\ \A w \in Sem \cup Mutex : Promise(w)!SemaphoreStep
  OBVIOUS
<1>1. Sem \cup Mutex \subseteq WaitList
  BY SemAssumption, MutexAssumption DEF SemAssumption, MutexAssumption
<1>2. ASSUME NEW t \in Task, waitOn[t] = NULL,
             \A u \in Task \ {t} : state'[u] = state[u] /\ status'[u] = status[u],
             UNCHANGED listVars, UNCHANGED waitVars, UNCHANGED <<count, depth>>
      PROVE  ZeroInv' /\ \A w \in Sem \cup Mutex : Promise(w)!SemaphoreStep
  <2>1. ZeroInv' /\ \A v \in WaitList : Still(v)
    BY <1>2, OutsidePromise
  <2>2. \A w \in Sem \cup Mutex : Value(w)' = Value(w)
    BY <1>2 DEF Value
  <2> QED
    BY <1>1, <2>1, <2>2, StillKeeps
<1>3. Idle \in Task /\ waitOn[Idle] = NULL
  BY IdleOutside, TaskAssumption DEF WInv, IInv, CoreInv, TaskAssumption
<1>4. CASE UNCHANGED vars \/ PendSV \/ IsrEnter \/ IsrReturn
  <2>1. /\ UNCHANGED taskVars /\ UNCHANGED listVars /\ UNCHANGED waitVars
        /\ UNCHANGED <<count, depth>>
    BY <1>4 DEF vars, kernelVars, PendSV, IsrEnter, IsrReturn,
                _pendsv_handler, IrqEnter, IrqReturn, mutexVars
  <2> QED
    BY <1>2, <1>3, <2>1 DEF taskVars
<1>5. CASE Tick
  <2>1. systick_handler /\ UNCHANGED waitVars /\ UNCHANGED <<count, depth>>
    BY <1>5 DEF Tick, mutexVars
  <2>2. \A w \in Sem \cup Mutex : Value(w)' = Value(w)
    BY <2>1 DEF Value
  <2>3. \A w \in Sem \cup Mutex : ZeroInv' /\ Promise(w)!SemaphoreStep
    BY <1>1, <2>1, <2>2, TickPromise
  <2>4. ZeroInv'
    BY <2>1 DEF WInv, IInv, CoreInv, TaskTypeOK, ZeroInv, systick_handler, Expires, waitVars
  <2> QED
    BY <2>3, <2>4
<1>6. CASE IsrPost
  BY <1>3, <1>6, SemKeeps
<1>7. ASSUME NEW t \in Task, TaskStep(t)
      PROVE  ZeroInv' /\ \A w \in Sem \cup Mutex : Promise(w)!SemaphoreStep
  <2>1. CASE SemStep(t)
    BY <2>1, SemKeeps
  <2>2. CASE MutexStep(t)
    BY <2>2, MutexKeeps
  <2>3. CASE Delay(t) \/ Exit(t) \/ Wake(t)
    <3>1. UNCHANGED <<count, depth>>
      BY <2>3 DEF Delay, Exit, Wake, mutexVars
    <3>2. PICK u \in Task :
            /\ waitOn[u] = NULL
            /\ \A v \in Task \ {u} : state'[v] = state[v] /\ status'[v] = status[v]
            /\ UNCHANGED listVars /\ UNCHANGED waitVars /\ UNCHANGED mutexVars
      BY <1>7, <2>3, OneOutside
    <3> QED
      BY <1>2, <3>1, <3>2
  <2> QED
    BY <1>7, <2>1, <2>2, <2>3 DEF TaskStep, SemStep, MutexStep
<1> QED
  BY <1>4, <1>5, <1>6, <1>7 DEF Next

LEMMA InitKeeps ==
  Init => ZeroInv /\ \A w \in Sem \cup Mutex : Promise(w)!SemaphoreInit
<1> USE SemAssumption, MutexAssumption, TaskAssumption
    DEF SemAssumption, MutexAssumption, TaskAssumption
<1> SUFFICES ASSUME Init
             PROVE  ZeroInv /\ \A w \in Sem \cup Mutex : Promise(w)!SemaphoreInit
  OBVIOUS
<1>1. ZeroInv
  BY DEF Init, WaitInit, ZeroInv
<1>2. ASSUME NEW w \in Sem \cup Mutex PROVE Promise(w)!SemaphoreInit
  <2>1. Woken(w) = {} /\ Expired(w) = {} /\ Sleepers(w) = {}
    BY DEF Init, WaitInit, Woken, Expired, Sleepers
  <2>2. Asleep(w) = <<>>
    <3>1. WInv /\ QueueInv
      BY InitW, QueueIs
    <3>2. PICK l \in Seq(Task) : IsWaitList(w, l)
      BY <3>1 DEF WInv, ListsInv
    <3>3. Asleep(w) = l /\ Elements(l) = {}
      BY <2>1, <3>1, <3>2 DEF QueueInv
    <3> QED
      BY <3>3, EmptyList
  <2>3. Value(w) = IF w \in Sem THEN SemInit[w] ELSE 1
    BY DEF Init, sem_create, mutex_create, Value
  <2> QED
    BY <2>1, <2>2, <2>3 DEF Promise!SemaphoreInit
<1> QED
  BY <1>1, <1>2

LEMMA PromisesKept ==
  ASSUME TimedWaitsAlone
  PROVE  Spec => /\ \A w \in Sem \cup Mutex : Promise(w)!SemaphoreInit
                 /\ [][\A w \in Sem \cup Mutex : Promise(w)!SemaphoreStep]_vars
<1> DEFINE AllInit == \A w \in Sem \cup Mutex : Promise(w)!SemaphoreInit
           AllStep == \A w \in Sem \cup Mutex : Promise(w)!SemaphoreStep
<1>1. Init => ZeroInv /\ AllInit
  BY InitKeeps
<1>2. WInv /\ QueueInv /\ QueueInv' /\ ZeroInv /\ [Next]_vars => ZeroInv' /\ AllStep
  BY NextKeeps
<1>3. Spec => []WInv
  BY WInvariant
<1> HIDE DEF AllInit, AllStep
<1>4. Spec => AllInit /\ [][AllStep]_vars
  BY <1>1, <1>2, <1>3, QueueIs, PTL DEF Spec
<1> QED
  BY <1>4 DEF AllInit, AllStep

(* Every semaphore is an abstract one: through run list, wait loops and    *)
(* linked waiter lists, posts by tasks and interrupt handlers wake the     *)
(* tasks in the order in which they went to sleep, a wait that returns OK  *)
(* took a unit, and one that timed out took none (sem.c, task.c:306-360).  *)
THEOREM SemaphoresAsPromised ==
  ASSUME TimedWaitsAlone
  PROVE  Spec => SemaphoresKeepPromise
<1>1. (\A w \in Sem \cup Mutex : Promise(w)!SemaphoreInit)
        => \A s \in Sem : Promise(s)!SemaphoreInit
  OBVIOUS
<1>2. (\A w \in Sem \cup Mutex : Promise(w)!SemaphoreStep)
        => \A s \in Sem : Promise(s)!SemaphoreStep
  OBVIOUS
<1> QED
  BY <1>1, <1>2, PromisesKept, PTL DEF SemaphoresKeepPromise

(* So is every mutex, of one unit, which the last of its owner's unlocks   *)
(* gives back; recursive locks change nothing (mutex.c).                   *)
THEOREM MutexesAsPromised ==
  ASSUME TimedWaitsAlone
  PROVE  Spec => MutexesKeepPromise
<1>1. (\A w \in Sem \cup Mutex : Promise(w)!SemaphoreInit)
        => \A m \in Mutex : Promise(m)!SemaphoreInit
  OBVIOUS
<1>2. (\A w \in Sem \cup Mutex : Promise(w)!SemaphoreStep)
        => \A m \in Mutex : Promise(m)!SemaphoreStep
  OBVIOUS
<1> QED
  BY <1>1, <1>2, PromisesKept, PTL DEF MutexesKeepPromise
=============================================================================
