------------------------------- MODULE BmosSem -------------------------------
(***************************************************************************)
(* Counting semaphores, modules/os/bmos/src/sem.c.                         *)
(***************************************************************************)
EXTENDS BmosWait

CONSTANTS
  Sem,        \* the semaphores, each named by its waiter list
  SemInit,    \* the count each is created with
  MaxCount    \* bound of the model: no post beyond this count

ASSUME SemAssumption ==
  /\ Sem \subseteq WaitList
  /\ SemInit \in [Sem -> Nat]
  /\ MaxCount \in Nat

VARIABLE count   \* bmos_sem_t.count

SemTypeOK == count \in [Sem -> Nat]

sem_create == count = SemInit

(* Mistake: a post wakes a task only if the count was zero.                *)
semPostWakesOnZero(s) ==
  /\ count[s] < MaxCount
  /\ count' = [count EXCEPT ![s] = @ + 1]
  /\ IF count[s] = 0 THEN _waiters_wake_first(s) ELSE UNCHANGED kernelVars
  /\ UNCHANGED waitVars

(* sem_post, by a task or by an interrupt handler.                         *)
sem_post(s) ==
  /\ count[s] < MaxCount
  /\ count' = [count EXCEPT ![s] = @ + 1]
  /\ _waiters_wake_first(s)
  /\ UNCHANGED waitVars

(* Mistake: a count is taken without looking.                              *)
TakeBlindly(s) ==
  /\ count' = [count EXCEPT ![s] = @ - 1]
  /\ UNCHANGED kernelVars

Take(s) ==
  /\ count[s] > 0
  /\ count' = [count EXCEPT ![s] = @ - 1]
  /\ UNCHANGED kernelVars

(* sem_wait_ms(s, tms) up to its return or its first sleep.  With tms = 0  *)
(* and nothing to take it returns at once and has changed nothing.         *)
sem_wait_ms(t, s, tms) ==
  /\ AtCall(t)
  /\ \/ Take(s) /\ UNCHANGED waitVars
     \/ /\ count[s] = 0
        /\ tms = 0
        /\ UNCHANGED <<count, kernelVars, waitVars>>
     \/ /\ count[s] = 0
        /\ tms # 0
        /\ Block(s, t, tms)
        /\ UNCHANGED count

(* Mistake: a timed out task goes round again.                             *)
semWaitIgnoresTimeout(t, s) ==
  /\ Resumes(s, t)
  /\ \/ /\ count[s] = 0
        /\ Block(s, t, waitMs[t])
        /\ UNCHANGED count
     \/ Take(s) /\ LeaveLoop(t)

(* Mistake: a call that times out takes a count that came late.            *)
semWaitTakesLate(t, s) ==
  /\ Resumes(s, t)
  /\ \/ /\ count[s] = 0
        /\ status[t] # "TIMEOUT"
        /\ Block(s, t, waitMs[t])
        /\ UNCHANGED count
     \/ /\ GiveUp(s, t)
        /\ count' = [count EXCEPT ![s] = IF @ > 0 THEN @ - 1 ELSE 0]
     \/ /\ status[t] # "TIMEOUT"
        /\ Take(s)
        /\ LeaveLoop(t)

(* The rest of sem_wait_ms: test the loop condition again, and either go   *)
(* round with the whole timeout, give up, or take a count.                 *)
sem_wait_resume(t, s) ==
  /\ Resumes(s, t)
  /\ \/ /\ count[s] = 0
        /\ status[t] # "TIMEOUT"
        /\ Block(s, t, waitMs[t])
        /\ UNCHANGED count
     \/ GiveUp(s, t) /\ UNCHANGED count
     \/ /\ status[t] # "TIMEOUT"
        /\ Take(s)
        /\ LeaveLoop(t)
=============================================================================
