---------------------------- MODULE BmosMessages ----------------------------
(***************************************************************************)
(* Tasks and interrupt handlers that exchange messages over queues and     *)
(* pools.  The constants say who puts and gets where.                      *)
(***************************************************************************)
EXTENDS BmosQueue

CONSTANTS
  Isr,        \* the interrupt handlers among the processes
  PutCalls,   \* [Proc -> set of queues]
  GetCalls    \* [Proc -> set of queues]

ASSUME MessagesAssumption ==
  /\ Isr \subseteq Proc
  /\ PutCalls \in [Proc -> SUBSET Queue]
  /\ GetCalls \in [Proc -> SUBSET Queue]

(* A handler interrupts tasks, and is not interrupted by a task nor, all   *)
(* device interrupts having one priority, by another handler.              *)
HasCPU(p) == \A i \in Isr \ {p} : pc[i] = "out"

Held(p) == {m \in Msg : holder[m] = p}

Put(p) == \E q \in PutCalls[p], m \in Held(p) : msg_put(p, q, m)
Return(p) == \E m \in Held(p) : msg_return(p, m)
Get(p, q) == q \in GetCalls[p] /\ msg_wait_ms(p, q)
Finish(p) == msg_put_task_post(p) \/ msg_put_driver_f(p) \/ msg_wait_ms_get(p)

Init == queue_create

Next ==
  \E p \in Proc :
    /\ HasCPU(p)
    /\ Put(p) \/ Return(p) \/ Finish(p) \/ \E q \in Queue : Get(p, q)

Spec == Init /\ [][Next]_queueVars

(* A handler runs to its end, a task that is in a call gets the CPU again  *)
(* and again, and every process comes back to each queue it gets from, as  *)
(* the loops of the tasks and the interrupts of the drivers do.            *)
Fairness ==
  /\ \A p \in Isr : WF_queueVars(Finish(p))
  /\ \A p \in Proc \ Isr : SF_queueVars(HasCPU(p) /\ Finish(p))
  /\ \A p \in Proc : \A q \in GetCalls[p] : SF_queueVars(HasCPU(p) /\ Get(p, q))

FairSpec == Spec /\ Fairness

-----------------------------------------------------------------------------
(* Properties.                                                             *)

TypeOK == QueueTypeOK

Within(place, q) == {p \in Proc : pc[p] = place /\ at[p] = q}

(* The links describe the content: first, the next pointers and last lead  *)
(* through the messages in the order they were put, although last and the  *)
(* next of a message are left over from earlier times (queue.c:97-119).    *)
ListIsContent ==
  \A q \in Queue :
    LET c == content[q]
    IN  /\ first[q] = IF c = <<>> THEN NULL ELSE c[1]
        /\ c # <<>> => last[q] = c[Len(c)]
        /\ \A i \in 1..Len(c) :
             next[c[i]] = IF i = Len(c) THEN NULL ELSE c[i+1]

(* A message is on one queue, once, and says so, or in the hands of one    *)
(* process: none is lost, and none is used while it is queued.  With it    *)
(* the XASSERT of msg_put holds (queue.c:160).                             *)
OnePlace ==
  /\ \A m \in Msg :
       /\ queue[m] = NULL <=> holder[m] # NULL
       /\ queue[m] # NULL =>
            \E i \in 1..Len(content[queue[m]]) : content[queue[m]][i] = m
  /\ \A q \in Queue : \A i, j \in 1..Len(content[q]) :
       /\ queue[content[q][i]] = q
       /\ content[q][i] = content[q][j] => i = j

(* The count of a queue is the number of its messages, but for the posts   *)
(* that are still to come and the counts that were taken by processes that *)
(* have not fetched their message yet.                                     *)
CountsMessages ==
  \A q \in Queue :
    Len(content[q]) =
      count[q] + Cardinality(Within("post", q)) + Cardinality(Within("get", q))

(* Who has taken a count finds a message, whatever puts and gets went      *)
(* before: _get writes through the pointer it finds (queue.c:99-104), and  *)
(* msg_wait_ms_driver asserts that there is one (queue.c:193).             *)
GetFindsMessage ==
  /\ \A p \in Proc : pc[p] = "get" => first[at[p]] # NULL
  /\ \A q \in Queue \ TaskQueue : count[q] > 0 => first[q] # NULL

(* Every message that is queued is fetched: no post is lost between the    *)
(* two halves of msg_put_task and msg_wait_ms_task.                        *)
EveryMessageFetched == \A m \in Msg : queue[m] # NULL ~> holder[m] # NULL
=============================================================================
