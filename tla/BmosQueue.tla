----------------------------- MODULE BmosQueue -----------------------------
(***************************************************************************)
(* Message queues and message pools, modules/os/bmos/src/queue.c.          *)
(*                                                                         *)
(* A task queue is a linked list and a semaphore, a driver queue a linked  *)
(* list and a counter.  Between the critical section of the list and the   *)
(* semaphore call of a task queue, and between it and the callback of a    *)
(* driver queue, other tasks and interrupts run.  The semaphore is its     *)
(* value: what it promises beyond that is module Semaphore, which the      *)
(* kernel is checked to implement.                                         *)
(***************************************************************************)
EXTENDS Integers, Sequences, FiniteSets

CONSTANTS
  Proc,       \* tasks and interrupt handlers
  Queue,
  TaskQueue,  \* the queues of type QUEUE_TYPE_TASK; the others are driver queues
  PutF,       \* the driver queues that have a put_f callback
  Msg,
  Home,       \* bmos_msg_t.home, the pool a message was created for
  Maker,      \* the task that called msg_pool_create
  NULL

ASSUME QueueAssumption ==
  /\ IsFiniteSet(Proc)
  /\ TaskQueue \subseteq Queue
  /\ PutF \subseteq Queue \ TaskQueue
  /\ Home \in [Msg -> Queue]
  /\ Maker \in Proc
  /\ NULL \notin Proc \cup Queue \cup Msg

VARIABLES
  first, last,  \* bmos_queue_t.first and .last
  count,        \* the value of the queue's semaphore, or driver.count
  next,         \* bmos_msg_t.next
  queue,        \* bmos_msg_t.queue
  pc,           \* where in a queue call a process is
  at,           \* the queue of that call
  holder,       \* history: who may use a message, NULL while it is queued
  content       \* history: the messages put on a queue and not yet taken off

queueVars == <<first, last, count, next, queue, pc, at, holder, content>>

(* "post": before the sem_post of msg_put_task; "f": before the callback   *)
(* of msg_put_driver; "get": before the _get of msg_wait_ms_task.          *)
Places == {"out", "post", "f", "get"}

QueueTypeOK ==
  /\ first \in [Queue -> Msg \cup {NULL}]
  /\ last \in [Queue -> Msg \cup {NULL}]
  /\ count \in [Queue -> Nat]
  /\ next \in [Msg -> Msg \cup {NULL}]
  /\ queue \in [Msg -> Queue \cup {NULL}]
  /\ pc \in [Proc -> Places]
  /\ at \in [Proc -> Queue \cup {NULL}]
  /\ holder \in [Msg -> Proc \cup {NULL}]
  /\ content \in [Queue -> Seq(Msg)]

(* queue_create, and msg_pool_create up to its loop: the messages are      *)
(* initialised and in the hands of the task that puts them in their pools. *)
queue_create ==
  /\ first = [q \in Queue |-> NULL]
  /\ last = [q \in Queue |-> NULL]
  /\ count = [q \in Queue |-> 0]
  /\ next = [m \in Msg |-> NULL]
  /\ queue = [m \in Msg |-> NULL]
  /\ pc = [p \in Proc |-> "out"]
  /\ at = [p \in Proc |-> NULL]
  /\ holder = [m \in Msg |-> Maker]
  /\ content = [q \in Queue |-> <<>>]

-----------------------------------------------------------------------------
(* The linked list.                                                        *)

(* Mistake: last is only set for the first message.                        *)
putStaleLast(q, m) ==
  /\ first' = [first EXCEPT ![q] = IF @ = NULL THEN m ELSE @]
  /\ last' = [last EXCEPT ![q] = IF first[q] = NULL THEN m ELSE @]
  /\ next' = [n \in Msg |->
       IF n = m THEN NULL ELSE IF first[q] # NULL /\ n = last[q] THEN m ELSE next[n]]
  /\ queue' = [queue EXCEPT ![m] = q]
  /\ holder' = [holder EXCEPT ![m] = NULL]
  /\ content' = [content EXCEPT ![q] = Append(@, m)]

(* last is meaningful only while first is not NULL.                        *)
_put(q, m) ==
  /\ first' = [first EXCEPT ![q] = IF @ = NULL THEN m ELSE @]
  /\ last' = [last EXCEPT ![q] = m]
  /\ next' = [n \in Msg |->
       IF n = m THEN NULL ELSE IF first[q] # NULL /\ n = last[q] THEN m ELSE next[n]]
  /\ queue' = [queue EXCEPT ![m] = q]
  /\ holder' = [holder EXCEPT ![m] = NULL]
  /\ content' = [content EXCEPT ![q] = Append(@, m)]

(* Mistake: the message is not told that it left the queue.                *)
getKeepsQueue(q, p) ==
  LET m == first[q]
  IN  /\ m # NULL
      /\ first' = [first EXCEPT ![q] = next[m]]
      /\ next' = [next EXCEPT ![m] = NULL]
      /\ holder' = [holder EXCEPT ![m] = p]
      /\ content' = [content EXCEPT ![q] = Tail(@)]
      /\ UNCHANGED <<last, queue>>

(* The code takes first # NULL for granted when it clears m->queue.        *)
_get(q, p) ==
  LET m == first[q]
  IN  /\ m # NULL
      /\ first' = [first EXCEPT ![q] = next[m]]
      /\ next' = [next EXCEPT ![m] = NULL]
      /\ queue' = [queue EXCEPT ![m] = NULL]
      /\ holder' = [holder EXCEPT ![m] = p]
      /\ content' = [content EXCEPT ![q] = Tail(@)]
      /\ UNCHANGED last

-----------------------------------------------------------------------------
(* The calls.  A process is between two calls where its pc is "out".       *)

Goto(p, where, q) ==
  /\ pc' = [pc EXCEPT ![p] = where]
  /\ at' = [at EXCEPT ![p] = q]

(* Mistake: the message of a task queue is counted here too.               *)
msgPutCountsTwice(p, q, m) ==
  /\ pc[p] = "out"
  /\ holder[m] = p
  /\ _put(q, m)
  /\ count' = [count EXCEPT ![q] = @ + 1]
  /\ IF q \in TaskQueue THEN Goto(p, "post", q) ELSE UNCHANGED <<pc, at>>

(* msg_put up to the end of its first critical section.                    *)
msg_put(p, q, m) ==
  /\ pc[p] = "out"
  /\ holder[m] = p
  /\ _put(q, m)
  /\ IF q \in TaskQueue
       THEN Goto(p, "post", q) /\ UNCHANGED count
       ELSE /\ count' = [count EXCEPT ![q] = @ + 1]
            /\ IF q \in PutF THEN Goto(p, "f", q) ELSE UNCHANGED <<pc, at>>

msg_return(p, m) == msg_put(p, Home[m], m)

(* Mistake: the post is a signal that is there or not.                     *)
msgPostSignals(p) ==
  /\ pc[p] = "post"
  /\ count' = [count EXCEPT ![at[p]] = 1]
  /\ Goto(p, "out", NULL)
  /\ UNCHANGED <<first, last, next, queue, holder, content>>

(* The sem_post at the end of msg_put_task.                                *)
msg_put_task_post(p) ==
  /\ pc[p] = "post"
  /\ count' = [count EXCEPT ![at[p]] = @ + 1]
  /\ Goto(p, "out", NULL)
  /\ UNCHANGED <<first, last, next, queue, holder, content>>

(* The callback at the end of msg_put_driver; what it does is the driver's *)
(* business.                                                               *)
msg_put_driver_f(p) ==
  /\ pc[p] = "f"
  /\ Goto(p, "out", NULL)
  /\ UNCHANGED <<first, last, count, next, queue, holder, content>>

(* Mistakes: the count is looked at and not taken; taken and not looked at.*)
msgWaitPeeks(p, q) ==
  /\ pc[p] = "out"
  /\ count[q] > 0
  /\ IF q \in TaskQueue
       THEN Goto(p, "get", q) /\ UNCHANGED <<first, last, next, queue, holder, content>>
       ELSE _get(q, p) /\ UNCHANGED <<pc, at>>
  /\ UNCHANGED count

msgWaitBlindly(p, q) ==
  /\ pc[p] = "out"
  /\ count' = [count EXCEPT ![q] = @ - 1]
  /\ IF q \in TaskQueue
       THEN Goto(p, "get", q) /\ UNCHANGED <<first, last, next, queue, holder, content>>
       ELSE _get(q, p) /\ UNCHANGED <<pc, at>>

(* msg_wait_ms: the sem_wait_ms of a task queue returns OK, or the driver  *)
(* queue is not empty.  A call that returns NULL changes nothing.          *)
msg_wait_ms(p, q) ==
  /\ pc[p] = "out"
  /\ count[q] > 0
  /\ count' = [count EXCEPT ![q] = @ - 1]
  /\ IF q \in TaskQueue
       THEN Goto(p, "get", q) /\ UNCHANGED <<first, last, next, queue, holder, content>>
       ELSE _get(q, p) /\ UNCHANGED <<pc, at>>

(* The _get of msg_wait_ms_task.                                           *)
msg_wait_ms_get(p) ==
  /\ pc[p] = "get"
  /\ _get(at[p], p)
  /\ Goto(p, "out", NULL)
  /\ UNCHANGED count
=============================================================================
