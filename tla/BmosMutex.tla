------------------------------ MODULE BmosMutex ------------------------------
(***************************************************************************)
(* Recursive mutexes, modules/os/bmos/src/mutex.c.                         *)
(***************************************************************************)
EXTENDS BmosWait

CONSTANTS
  Mutex,      \* the mutexes, each named by its waiter list
  MaxDepth    \* bound of the model: no recursive lock beyond this depth

ASSUME MutexAssumption ==
  /\ Mutex \subseteq WaitList
  /\ MaxDepth \in Nat

VARIABLES
  depth,      \* bmos_mutex_t.count
  owner,      \* bmos_mutex_t.owner
  held        \* history: successful lock calls of a task not yet unlocked

mutexVars == <<depth, owner, held>>

MutexTypeOK ==
  /\ depth \in [Mutex -> Nat]
  /\ owner \in [Mutex -> Task \cup {NULL}]
  /\ held \in [Mutex -> [Task -> Nat]]

mutex_create ==
  /\ depth = [m \in Mutex |-> 0]
  /\ owner = [m \in Mutex |-> NULL]
  /\ held = [m \in Mutex |-> [t \in Task |-> 0]]

(* The status a lock call of t returns is OK from now on.                  *)
Locked(m, t) == held' = [held EXCEPT ![m][t] = @ + 1]

(* owner = CURRENT; count++                                                *)
Acquire(m, t) ==
  /\ owner' = [owner EXCEPT ![m] = t]
  /\ depth' = [depth EXCEPT ![m] = @ + 1]
  /\ Locked(m, t)
  /\ UNCHANGED kernelVars

(* mutex_lock_ms(m, tms) up to its return or the end of the first round of *)
(* its loop.  There is no shortcut for tms = 0 as there is in sem_wait_ms. *)
mutex_lock_ms(t, m, tms) ==
  /\ AtCall(t)
  /\ \/ /\ owner[m] = t
        /\ depth[m] < MaxDepth
        /\ depth' = [depth EXCEPT ![m] = @ + 1]
        /\ Locked(m, t)
        /\ UNCHANGED <<owner, kernelVars, waitVars>>
     \/ /\ owner[m] # t
        /\ depth[m] = 0
        /\ Acquire(m, t)
        /\ UNCHANGED waitVars
     \/ /\ owner[m] # t
        /\ depth[m] > 0
        /\ Block(m, t, tms)
        /\ UNCHANGED mutexVars

(* Mistake: a woken task takes the lock without testing it again.          *)
mutexLockUntested(t, m) ==
  /\ Resumes(m, t)
  /\ \/ GiveUp(m, t) /\ UNCHANGED mutexVars
     \/ /\ status[t] # "TIMEOUT"
        /\ Acquire(m, t)
        /\ LeaveLoop(t)

(* The rest of mutex_lock_ms.                                              *)
mutex_lock_resume(t, m) ==
  /\ Resumes(m, t)
  /\ \/ /\ depth[m] > 0
        /\ status[t] # "TIMEOUT"
        /\ Block(m, t, waitMs[t])
        /\ UNCHANGED mutexVars
     \/ GiveUp(m, t) /\ UNCHANGED mutexVars
     \/ /\ depth[m] = 0
        /\ status[t] # "TIMEOUT"
        /\ Acquire(m, t)
        /\ LeaveLoop(t)

(* Mistake: the first of several unlocks wakes a waiter.                   *)
mutexUnlockWakesEarly(t, m) ==
  /\ AtCall(t)
  /\ held[m][t] > 0
  /\ held' = [held EXCEPT ![m][t] = @ - 1]
  /\ depth' = [depth EXCEPT ![m] = @ - 1]
  /\ owner' = IF depth[m] = 1 THEN [owner EXCEPT ![m] = NULL] ELSE owner
  /\ _waiters_wake_first(m)
  /\ UNCHANGED waitVars

(* Mistake: the lock is freed and nobody is woken.                         *)
mutexUnlockWakesNobody(t, m) ==
  /\ AtCall(t)
  /\ held[m][t] > 0
  /\ held' = [held EXCEPT ![m][t] = @ - 1]
  /\ depth' = [depth EXCEPT ![m] = @ - 1]
  /\ owner' = IF depth[m] = 1 THEN [owner EXCEPT ![m] = NULL] ELSE owner
  /\ UNCHANGED <<kernelVars, waitVars>>

(* Mistake: the owner is not cleared.                                      *)
mutexUnlockKeepsOwner(t, m) ==
  /\ AtCall(t)
  /\ held[m][t] > 0
  /\ held' = [held EXCEPT ![m][t] = @ - 1]
  /\ depth' = [depth EXCEPT ![m] = @ - 1]
  /\ IF depth[m] = 1 THEN _waiters_wake_first(m) ELSE UNCHANGED kernelVars
  /\ UNCHANGED <<owner, waitVars>>

(* mutex_unlock(m), called by a task that was told it has the lock.        *)
mutex_unlock(t, m) ==
  /\ AtCall(t)
  /\ held[m][t] > 0
  /\ held' = [held EXCEPT ![m][t] = @ - 1]
  /\ depth' = [depth EXCEPT ![m] = @ - 1]
  /\ IF depth[m] = 1
       THEN /\ owner' = [owner EXCEPT ![m] = NULL]
            /\ _waiters_wake_first(m)
       ELSE UNCHANGED <<owner, kernelVars>>
  /\ UNCHANGED waitVars
=============================================================================
