------------------------------- MODULE KvMap -------------------------------
(***************************************************************************)
(* What the key-value log promises its users, loss of power included: an   *)
(* abstract specification of lib/kvlog.                                    *)
(*                                                                         *)
(* A map that changes only under the key of the call in progress.  A call  *)
(* that returns has its effect for good.  One that is cut off by the power *)
(* may have it or not, and if not may still have it later: its value is in *)
(* limbo until the next call for that key returns.                         *)
(***************************************************************************)
EXTENDS FiniteSets, Naturals

CONSTANTS Key, Val,
          Room,    \* records in a store
          Torn,    \* the value of a set that was cut off in the middle
          NULL     \* no value; no call

VARIABLES
  mem,       \* what a read of each key returns
  limbo,     \* for each key the values that may surface
  call,      \* NULL, or the call in progress: its keys, and the value for them
  failures,  \* how many times the power failed
  void       \* it failed between the two words of a header, at the wrong time

vars == <<mem, limbo, call, failures, void>>

Calls == {[keys |-> {k}, val |-> v] : k \in Key, v \in Val \cup {NULL}}
         \cup {[keys |-> Key, val |-> NULL]}

Init ==
  /\ mem = [k \in Key |-> NULL]
  /\ limbo = [k \in Key |-> {}]
  /\ call = NULL
  /\ failures = 0
  /\ void = FALSE

Call(c) ==
  /\ call = NULL
  /\ call' = c
  /\ UNCHANGED <<mem, limbo, failures, void>>

(* What a call may do to one of its keys, before it returns.               *)
Surface(k) ==
  \/ mem'[k] \in {mem[k], call.val} \cup limbo[k]
  \/ mem[k] = NULL /\ call.val # NULL /\ mem'[k] = Torn

Others(keys) == \A k \in Key \ keys : mem'[k] = mem[k] /\ limbo'[k] = limbo[k]

Effect ==
  /\ call # NULL
  /\ \A k \in call.keys :
       /\ Surface(k)
       /\ limbo'[k] \subseteq limbo[k] \cup {call.val, Torn}
  /\ Others(call.keys)
  /\ UNCHANGED <<call, failures, void>>

Return ==
  /\ call # NULL
  /\ \A k \in call.keys : mem'[k] = call.val /\ limbo'[k] = {}
  /\ Others(call.keys)
  /\ call' = NULL
  /\ UNCHANGED <<failures, void>>

(* A set finds no space, but only if values, and records that failures     *)
(* left behind, take up all of a store.                                    *)
Refuse ==
  /\ call # NULL /\ call.val # NULL
  /\ Cardinality({k \in Key : mem[k] # NULL}) + failures >= Room
  /\ call' = NULL
  /\ UNCHANGED <<mem, limbo, failures, void>>

(* Only an erase of everything that is cut off can bring old values back.  *)
Fail ==
  /\ failures' = failures + 1
  /\ call' = NULL
  /\ IF call # NULL /\ call.keys = Key /\ call.val = NULL
       THEN TRUE ELSE UNCHANGED <<mem, limbo>>
  /\ UNCHANGED void

(* Nothing is promised after that.                                         *)
Tear == void' = TRUE

Next ==
  /\ ~void
  /\ \/ \E c \in Calls : Call(c)
     \/ Effect \/ Return \/ Refuse \/ Fail \/ Tear

Spec == Init /\ [][Next]_vars
=============================================================================
