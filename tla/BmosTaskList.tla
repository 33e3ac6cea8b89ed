---------------------------- MODULE BmosTaskList ----------------------------
(***************************************************************************)
(* How TASK_LIST comes about, modules/os/bmos/src/task.c: task_init links  *)
(* each new task in by its priority, and task_start creates the idle task, *)
(* the last one.  The list does not change any more after that, and module *)
(* BmosTask assumes of it what is checked here.                            *)
(***************************************************************************)
EXTENDS Naturals, Sequences, FiniteSets

CONSTANTS
  Task,       \* the bmos_task_t that task_init can allocate, Idle included
  Idle,       \* the one task_start creates
  NULL,       \* the null pointer
  Prios       \* the priorities in use

ASSUME TaskListAssumption ==
  /\ Idle \in Task
  /\ NULL \notin Task
  /\ IsFiniteSet(Task)
  /\ Prios \subseteq 0..255

VARIABLES
  TASK_LIST,  \* the head of the list
  next,       \* bmos_task_t.next
  prio,       \* bmos_task_t.prio
  created     \* history: the tasks in the order they were created

listVars == <<TASK_LIST, next, prio, created>>

Created == {created[i] : i \in DOMAIN created}

TaskListInit ==
  /\ TASK_LIST = NULL
  /\ next = [t \in Task |-> NULL]
  /\ prio = [t \in Task |-> 0]
  /\ created = <<>>

(* The i-th task from the head, NULL past the end.                         *)
Nth ==
  LET nth[i \in Nat] ==
        IF i = 0 THEN TASK_LIST
        ELSE IF nth[i-1] = NULL THEN NULL ELSE next[nth[i-1]]
  IN  nth

(* Mistake: the new task goes before the tasks of its own priority.        *)
StopsAtEqual(p, i) ==
  /\ Nth[i] # NULL => p >= prio[Nth[i]]
  /\ \A j \in 0..i-1 : Nth[j] # NULL /\ p < prio[Nth[j]]

(* Where the walk for a task of priority p stops: at the end, or at the    *)
(* first task that has to come after it.                                   *)
StopsAt(p, i) ==
  /\ Nth[i] # NULL => p > prio[Nth[i]]
  /\ \A j \in 0..i-1 : Nth[j] # NULL /\ p <= prio[Nth[j]]

task_init(t, p) ==
  /\ t \notin Created
  /\ \E i \in 0..Cardinality(Task) :
       /\ StopsAt(p, i)
       /\ TASK_LIST' = IF i = 0 THEN t ELSE TASK_LIST
       /\ next' = [u \in Task |->
            IF u = t THEN Nth[i]
            ELSE IF i > 0 /\ u = Nth[i-1] THEN t ELSE next[u]]
  /\ prio' = [prio EXCEPT ![t] = p]
  /\ created' = Append(created, t)

(* task_start, up to its call of task_init.                                *)
task_start == task_init(Idle, 0)

Next ==
  /\ Idle \notin Created
  /\ task_start \/ \E t \in Task \ {Idle}, p \in Prios : task_init(t, p)

TaskListSpec == TaskListInit /\ [][Next]_listVars

-----------------------------------------------------------------------------
(* The list from its head.                                                 *)
List == LET n == Cardinality({i \in 0..Cardinality(Task) : Nth[i] # NULL})
        IN  [i \in 1..n |-> Nth[i-1]]

Before(s, t, u) == \E i, j \in DOMAIN s : i < j /\ s[i] = t /\ s[j] = u

(* The list has the created tasks, once each, the higher priority first    *)
(* and tasks of one priority in the order they were created, so that idle, *)
(* once there is one, is the last (task.c:148-168).                        *)
ListInOrder ==
  /\ Len(List) = Len(created)
  /\ {List[i] : i \in DOMAIN List} = Created
  /\ \A t, u \in Created :
       Before(List, t, u) <=>
         \/ prio[t] > prio[u]
         \/ prio[t] = prio[u] /\ Before(created, t, u)
  /\ Idle \in Created => List[Len(List)] = Idle
=============================================================================
