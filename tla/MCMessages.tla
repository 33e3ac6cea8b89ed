----------------------------- MODULE MCMessages -----------------------------
(***************************************************************************)
(* A small traffic: messages from a pool to a task queue and to a driver   *)
(* queue, between tasks a and b and the interrupt handler i.               *)
(***************************************************************************)
EXTENDS BmosMessages, TLC

CONSTANTS a, b, i, pool, rx, tx, m1, m2, m3

MCProc == {a, b, i}
MCIsr == {i}
MCQueue == {pool, rx, tx}
MCHome == [m \in Msg |-> pool]

(* As in xslog, esp_at and tusb_os_custom: the pool and the receiver have  *)
(* task queues; whoever sends takes from the pool without waiting.         *)
TaskPuts == a :> {rx, tx} @@ b :> {} @@ i :> {rx}
TaskGets == a :> {pool} @@ b :> {pool, rx} @@ i :> {pool, tx}
PoolIsTaskQueue == {pool, rx}
=============================================================================
