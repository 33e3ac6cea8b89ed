------------------------------ MODULE BmosTask ------------------------------
(***************************************************************************)
(* The task switcher of the kernel, modules/os/bmos/src/task.c: the run    *)
(* list, schedule(), the SysTick and PendSV handlers, task_delay,          *)
(* task_wake, the end of a task, and the waiter lists that semaphores and  *)
(* mutexes are built on.                                                   *)
(*                                                                         *)
(* There is one core.  Code between interrupt_disable and interrupt_enable *)
(* is one step, and so is a handler.  SysTick has the highest exception    *)
(* priority, PendSV and the device interrupts share the lowest one and     *)
(* PendSV wins the tie (cortexm.c:100-112): once PendSV is pending, a tick *)
(* is the only thing that can come before it, unless an interrupt handler  *)
(* is active; that one finishes first, with interrupts off.                *)
(***************************************************************************)
EXTENDS Integers, FiniteSets

CONSTANTS
  Task,       \* the tasks created before task_start, the idle task included
  Idle,       \* the idle task, created by task_start itself
  NULL,       \* the null pointer
  Pos,        \* place of a task on TASK_LIST, which does not change any more
  Prio,       \* bmos_task_t.prio
  WaitList    \* the bmos_task_list_t objects: one in each semaphore and mutex

FOREVER == -1

(* What task_init leaves on TASK_LIST: descending priority, and idle, the  *)
(* last task created and the one of lowest priority, at the end.           *)
ASSUME TaskAssumption ==
  /\ Idle \in Task
  /\ NULL \notin Task \cup WaitList
  /\ Pos \in [Task -> Nat]
  /\ Prio \in [Task -> 0..255]
  /\ \A t, u \in Task : Pos[t] = Pos[u] => t = u
  /\ \A t, u \in Task : Pos[t] < Pos[u] => Prio[t] >= Prio[u]
  /\ \A t \in Task : Pos[t] <= Pos[Idle]

VARIABLES
  state,        \* bmos_task_t.state
  sleep,        \* bmos_task_t.sleep, ticks left
  status,       \* bmos_task_t.status, how the last sleep ended
  next_waiter,  \* bmos_task_t.next_waiter
  first, last,  \* the two ends of each waiter list
  CURRENT,      \* the task that owns the CPU
  NEXT,         \* the task PendSV switches to
  pendsv,       \* is PendSV pending?
  irq           \* is the CPU in a device interrupt handler?

schedVars == <<CURRENT, NEXT, pendsv>>
listVars == <<next_waiter, first, last>>
taskVars == <<state, sleep, status>>
kernelVars == <<taskVars, listVars, schedVars, irq>>

TaskStates == {"RUN", "SLEEP", "EXIT"}
Statuses == {"OK", "TIMEOUT", "INVALID"}

TaskTypeOK ==
  /\ state \in [Task -> TaskStates]
  /\ sleep \in [Task -> Int]
  /\ status \in [Task -> Statuses]
  /\ next_waiter \in [Task -> Task \cup {NULL}]
  /\ first \in [WaitList -> Task \cup {NULL}]
  /\ last \in [WaitList -> Task \cup {NULL}]
  /\ CURRENT \in Task
  /\ NEXT \in Task
  /\ pendsv \in BOOLEAN
  /\ irq \in BOOLEAN

(* task_start: every task is ready, idle is both CURRENT and NEXT, and the *)
(* first switch is pending.                                                *)
TaskInit ==
  /\ state = [t \in Task |-> "RUN"]
  /\ sleep = [t \in Task |-> 0]
  /\ status = [t \in Task |-> "OK"]
  /\ next_waiter = [t \in Task |-> NULL]
  /\ first = [w \in WaitList |-> NULL]
  /\ last = [w \in WaitList |-> NULL]
  /\ CURRENT = Idle
  /\ NEXT = Idle
  /\ pendsv = TRUE
  /\ irq = FALSE

(* A task executes code of its own only as CURRENT, with no switch pending *)
(* and no handler active.  That its state is RUN is not asked: it has to   *)
(* follow.                                                                 *)
Running(t) == CURRENT = t /\ ~pendsv /\ ~irq

-----------------------------------------------------------------------------
(* Choosing the next task.                                                 *)

Runnable(st) == {t \in Task : st[t] = "RUN"}

(* The first of a set of tasks in the order of TASK_LIST.                  *)
FirstOf(S) == CHOOSE t \in S : \A u \in S : Pos[t] <= Pos[u]

(* The ready tasks behind CURRENT at CURRENT's priority.                   *)
PeersBehind(st) ==
  {u \in Runnable(st) : Prio[u] = Prio[CURRENT] /\ Pos[u] > Pos[CURRENT]}

(* Mistake: the walk starts at the head of the list every time.            *)
PickFirst(st) == FirstOf(Runnable(st))

Pick(st) ==
  LET t == FirstOf(Runnable(st))
  IN  IF Prio[t] = Prio[CURRENT] /\ PeersBehind(st) # {}
        THEN FirstOf(PeersBehind(st))
        ELSE t

(* Mistake: NEXT is set and PendSV is not.                                 *)
scheduleUnpended(st) ==
  IF Pick(st) # CURRENT
    THEN NEXT' = Pick(st) /\ UNCHANGED <<CURRENT, pendsv>>
    ELSE UNCHANGED schedVars

(* schedule(), called with the task states st.  NEXT is left as it is when *)
(* CURRENT itself is chosen.                                               *)
schedule(st) ==
  IF Pick(st) # CURRENT
    THEN NEXT' = Pick(st) /\ pendsv' = TRUE /\ UNCHANGED CURRENT
    ELSE UNCHANGED schedVars

-----------------------------------------------------------------------------
(* Waiter lists: singly linked through next_waiter.                        *)

(* The i-th task on the list w, NULL past its end.                         *)
Nth(w) ==
  LET nth[i \in Nat] ==
        IF i = 0 THEN first[w]
        ELSE IF nth[i-1] = NULL THEN NULL ELSE next_waiter[nth[i-1]]
  IN  nth

(* _waiters_add; with tms = 0 the task is listed but stays ready.          *)
_waiters_add(w, t, tms) ==
  /\ first' = [first EXCEPT ![w] = IF @ = NULL THEN t ELSE @]
  /\ last' = [last EXCEPT ![w] = t]
  /\ next_waiter' = [u \in Task |->
       IF u = t THEN NULL
       ELSE IF first[w] # NULL /\ u = last[w] THEN t ELSE next_waiter[u]]
  /\ IF tms = 0
       THEN /\ status' = [status EXCEPT ![t] = "TIMEOUT"]
            /\ UNCHANGED <<state, sleep>>
       ELSE /\ state' = [state EXCEPT ![t] = "SLEEP"]
            /\ sleep' = [sleep EXCEPT ![t] = tms]
            /\ status' = [status EXCEPT ![t] = "INVALID"]

(* _waiters_remove: unlink c where the walk from first meets it.  The      *)
(* field last is not touched.                                              *)
_waiters_remove(w, c) ==
  /\ UNCHANGED <<last, taskVars>>
  /\ \/ /\ first[w] = c
        /\ first' = [first EXCEPT ![w] = next_waiter[c]]
        /\ next_waiter' = [next_waiter EXCEPT ![c] = NULL]
     \/ \E i \in 1..Cardinality(Task) :
          /\ Nth(w)[i] = c
          /\ \A j \in 0..i-1 : Nth(w)[j] # c
          /\ next_waiter' = [next_waiter EXCEPT
                               ![Nth(w)[i-1]] = next_waiter[c], ![c] = NULL]
          /\ UNCHANGED first
     \/ /\ \A i \in 0..Cardinality(Task) : Nth(w)[i] # c
        /\ UNCHANGED <<first, next_waiter>>

(* _waiters_wake_first: nothing happens when the first waiter is already   *)
(* awake, which it is after a timeout.                                     *)
_waiters_wake_first(w) ==
  LET t == first[w]
  IN  \/ /\ t # NULL
         /\ state[t] = "SLEEP"
         /\ first' = [first EXCEPT ![w] = next_waiter[t]]
         /\ next_waiter' = [next_waiter EXCEPT ![t] = NULL]
         /\ state' = [state EXCEPT ![t] = "RUN"]
         /\ status' = [status EXCEPT ![t] = "OK"]
         /\ schedule(state')
         /\ UNCHANGED <<last, sleep, irq>>
      \/ /\ t # NULL => state[t] # "SLEEP"
         /\ UNCHANGED kernelVars

-----------------------------------------------------------------------------
(* The operations of task.c.                                               *)

(* task_delay(time), time # 0; a negative time is a sleep without end.     *)
task_delay(t, time) ==
  /\ Running(t)
  /\ time # 0
  /\ sleep' = [sleep EXCEPT ![t] = time]
  /\ state' = [state EXCEPT ![t] = "SLEEP"]
  /\ status' = [status EXCEPT ![t] = "INVALID"]
  /\ schedule(state')
  /\ UNCHANGED <<listVars, irq>>

(* task_wake(u), called by t.                                              *)
task_wake(t, u) ==
  /\ Running(t)
  /\ state[u] = "SLEEP"
  /\ state' = [state EXCEPT ![u] = "RUN"]
  /\ status' = [status EXCEPT ![u] = "TIMEOUT"]
  /\ schedule(state')
  /\ UNCHANGED <<sleep, listVars, irq>>

(* task_cleanup: where a task function returns to.                         *)
task_cleanup(t) ==
  /\ Running(t)
  /\ state' = [state EXCEPT ![t] = "EXIT"]
  /\ schedule(state')
  /\ UNCHANGED <<sleep, status, listVars, irq>>

Expires(t) == state[t] = "SLEEP" /\ sleep[t] = 1

(* Mistake: the tick schedules only if it ended a sleep.                   *)
systickOnExpiry ==
  /\ ~irq
  /\ sleep' = [t \in Task |->
       IF state[t] = "SLEEP" /\ sleep[t] > 0 THEN sleep[t] - 1 ELSE sleep[t]]
  /\ state' = [t \in Task |-> IF Expires(t) THEN "RUN" ELSE state[t]]
  /\ status' = [t \in Task |-> IF Expires(t) THEN "TIMEOUT" ELSE status[t]]
  /\ IF state' # state THEN schedule(state') ELSE UNCHANGED schedVars
  /\ UNCHANGED <<listVars, irq>>

(* systick_handler and _task_periodic: count the sleepers down, make ready *)
(* those that reach zero, and schedule, which is also the time slice.      *)
systick_handler ==
  /\ ~irq
  /\ sleep' = [t \in Task |->
       IF state[t] = "SLEEP" /\ sleep[t] > 0 THEN sleep[t] - 1 ELSE sleep[t]]
  /\ state' = [t \in Task |-> IF Expires(t) THEN "RUN" ELSE state[t]]
  /\ status' = [t \in Task |-> IF Expires(t) THEN "TIMEOUT" ELSE status[t]]
  /\ schedule(state')
  /\ UNCHANGED <<listVars, irq>>

(* _pendsv_handler: the context switch.                                    *)
_pendsv_handler ==
  /\ pendsv
  /\ ~irq
  /\ CURRENT' = NEXT
  /\ pendsv' = FALSE
  /\ UNCHANGED <<NEXT, taskVars, listVars, irq>>

(* interrupt_handler: a device interrupt taken, and its return.            *)
IrqEnter ==
  /\ ~pendsv
  /\ ~irq
  /\ irq' = TRUE
  /\ UNCHANGED <<taskVars, listVars, schedVars>>

IrqReturn ==
  /\ irq
  /\ irq' = FALSE
  /\ UNCHANGED <<taskVars, listVars, schedVars>>
=============================================================================
