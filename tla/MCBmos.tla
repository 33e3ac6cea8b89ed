------------------------------- MODULE MCBmos -------------------------------
(***************************************************************************)
(* Small systems on the kernel: h above the two peers a and b, above idle, *)
(* with semaphores s and r and a mutex m.                                  *)
(***************************************************************************)
EXTENDS Bmos, TLC

CONSTANTS h, a, b, idle, s, r, m

MCTask == {h, a, b, idle}
MCPos == h :> 0 @@ a :> 1 @@ b :> 2 @@ idle :> 3
MCPrio == h :> 2 @@ a :> 1 @@ b :> 1 @@ idle :> 0
MCWaitList == {s, r, m}
MCSem == {s, r}
MCMutex == {m}
MCSemInit == s :> 0 @@ r :> 0

NoCalls == [t \in MCTask |-> {}]
ForeverCalls(w, S) == [t \in MCTask |-> IF t \in S THEN {<<w, FOREVER>>} ELSE {}]

(* All tasks wait for r.  Waits with a timeout are by the only waiter of   *)
(* their object, as the products have them (lwip.c:75, tusb_cdc.c:67,      *)
(* onewire.c:133): a on s, and a on m, which only h locks besides.         *)
AllWaits == a :> {<<s, 0>>, <<s, 1>>, <<r, FOREVER>>} @@ ForeverCalls(r, {h, b})
AllPosts == b :> {s} @@ h :> {r} @@ NoCalls
AllLocks == a :> {<<m, 0>>, <<m, 1>>} @@ ForeverCalls(m, {h})
TickDelays == h :> {1} @@ NoCalls

(* h waits for a post that may never come, with and without a timeout, and *)
(* shares m with a, whose wait for it has a timeout: h can take m back     *)
(* before a, woken by its unlock, gets to run.  b sleeps, is woken by a,   *)
(* and ends when it likes.                                                 *)
LiveWaits == h :> {<<s, 1>>, <<s, FOREVER>>} @@ NoCalls
LiveLocks == a :> {<<m, 1>>} @@ ForeverCalls(m, {h})
LiveDelays == h :> {1} @@ b :> {1} @@ NoCalls
LiveWakes == a :> {b} @@ NoCalls

(* The hypothesis of the theorems about waiter lists holds of all three.   *)
ASSUME WaitsAreAlone == TimedWaitsAlone
==============================================================================
