------------------------------ MODULE Semaphore ------------------------------
(***************************************************************************)
(* What a semaphore promises, without run list, priorities or list links:  *)
(* sleepers form a queue, a post raises the value and wakes the sleeper    *)
(* that has waited longest, and a woken task takes a unit if there still   *)
(* is one and queues up behind the others if there is none.                *)
(*                                                                         *)
(* A mutex promises the same: unlocking it is a post, and the value is 1   *)
(* while it is free.                                                       *)
(***************************************************************************)
EXTENDS Naturals, Sequences, Subsequence

CONSTANTS
  Task,
  Initial     \* the value the semaphore starts with

VARIABLES
  value,      \* units that can be taken
  queue,      \* the tasks asleep, in the order they went to sleep
  awake,      \* the tasks a post has woken and that have not tried again yet
  expired     \* the tasks whose timeout ended their sleep

semaphoreVars == <<value, queue, awake, expired>>

Queued == {queue[i] : i \in DOMAIN queue}
Idling(t) == t \notin Queued \cup awake \cup expired

SemaphoreInit ==
  /\ value = Initial
  /\ queue = <<>>
  /\ awake = {}
  /\ expired = {}

Post ==
  /\ value' = value + 1
  /\ IF queue = <<>>
       THEN UNCHANGED <<queue, awake>>
       ELSE queue' = Tail(queue) /\ awake' = awake \cup {Head(queue)}
  /\ UNCHANGED expired

TakeAtOnce(t) ==
  /\ Idling(t)
  /\ value > 0
  /\ value' = value - 1
  /\ UNCHANGED <<queue, awake, expired>>

Sleep(t) ==
  /\ Idling(t) \/ t \in awake
  /\ value = 0
  /\ queue' = Append(queue, t)
  /\ awake' = awake \ {t}
  /\ UNCHANGED <<value, expired>>

TakeAwake(t) ==
  /\ t \in awake
  /\ value > 0
  /\ value' = value - 1
  /\ awake' = awake \ {t}
  /\ UNCHANGED <<queue, expired>>

(* One tick can end the sleep of several tasks.                            *)
Expire(S) ==
  /\ S # {}
  /\ expired' = expired \cup S
  /\ queue' = Kept(queue, Queued \ S)
  /\ UNCHANGED <<value, awake>>

(* A timeout of zero ends the call before it sleeps.                       *)
ExpireAtOnce(t) ==
  /\ Idling(t)
  /\ value = 0
  /\ expired' = expired \cup {t}
  /\ UNCHANGED <<value, queue, awake>>

GiveUp(t) ==
  /\ t \in expired
  /\ expired' = expired \ {t}
  /\ UNCHANGED <<value, queue, awake>>

SemaphoreNext ==
  \/ Post
  \/ \E t \in Task : TakeAtOnce(t) \/ Sleep(t) \/ TakeAwake(t) \/ ExpireAtOnce(t) \/ GiveUp(t)
  \/ \E S \in SUBSET Queued : Expire(S)

SemaphoreStep == [SemaphoreNext]_semaphoreVars

SemaphoreSpec == SemaphoreInit /\ [][SemaphoreNext]_semaphoreVars
==============================================================================
