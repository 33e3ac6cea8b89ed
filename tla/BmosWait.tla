------------------------------ MODULE BmosWait ------------------------------
(***************************************************************************)
(* The wait loop that sem_wait_ms (sem.c:100-114) and mutex_lock_ms        *)
(* (mutex.c:75-88) share.  A task leaves the loop's critical section with  *)
(* itself on the waiter list, and comes back to it when the scheduler next *)
(* runs the task: waitOn and waitMs are the local variables of that frame. *)
(***************************************************************************)
EXTENDS BmosTask

VARIABLES
  waitOn,   \* the object a task is in the wait loop of, NULL outside of one
  waitMs    \* the tms argument of that call

waitVars == <<waitOn, waitMs>>

WaitTypeOK ==
  /\ waitOn \in [Task -> WaitList \cup {NULL}]
  /\ waitMs \in [Task -> Int]

WaitInit ==
  /\ waitOn = [t \in Task |-> NULL]
  /\ waitMs = [t \in Task |-> 0]

(* t executes code outside of a wait loop, from where it can make a call.  *)
AtCall(t) == Running(t) /\ waitOn[t] = NULL

(* One round of the loop: queue up, schedule, enable interrupts.           *)
Block(w, t, tms) ==
  /\ _waiters_add(w, t, tms)
  /\ schedule(state')
  /\ UNCHANGED irq
  /\ waitOn' = [waitOn EXCEPT ![t] = w]
  /\ waitMs' = [waitMs EXCEPT ![t] = tms]

(* t comes back from a round of the loop on w.                             *)
Resumes(w, t) == Running(t) /\ waitOn[t] = w

(* The call returns.                                                       *)
LeaveLoop(t) ==
  /\ waitOn' = [waitOn EXCEPT ![t] = NULL]
  /\ waitMs' = [waitMs EXCEPT ![t] = 0]

(* Mistake: a task whose call timed out stays on the list.                 *)
GiveUpListed(w, t) ==
  /\ status[t] = "TIMEOUT"
  /\ LeaveLoop(t)
  /\ UNCHANGED kernelVars

(* The call returns with the status TIMEOUT: the task takes itself off.    *)
GiveUp(w, t) ==
  /\ status[t] = "TIMEOUT"
  /\ _waiters_remove(w, t)
  /\ LeaveLoop(t)
  /\ UNCHANGED <<schedVars, irq>>
=============================================================================
