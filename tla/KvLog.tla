------------------------------- MODULE KvLog -------------------------------
(***************************************************************************)
(* The key-value log lib/kvlog/src/kvlog.c, as it is built for the         *)
(* STM32F4: two flash sectors, written word by word.                       *)
(*                                                                         *)
(* A store is a header of two words and records, here all of one length,   *)
(* with three words: the record's header, its key, its value.  Every write *)
(* to the flash is a step, and the power can fail between any two.  The    *)
(* erasure of a sector is one step, and the copy of a record is: the store *)
(* it goes to has no header yet.                                           *)
(***************************************************************************)
EXTENDS Naturals, FiniteSetsExt

CONSTANTS
  Key, Val,
  Room,      \* records that fit in a store
  Erased,    \* a word after erasure
  NULL,      \* no value, no call
  MaxSeq,    \* bound: the sequence number of a store
  MaxFail    \* bound: failures of the power

ASSUME KvAssumption ==
  /\ Room \in Nat \ {0}
  /\ MaxSeq \in Nat /\ MaxFail \in Nat
  /\ Erased \notin Key \cup Val \cup {"magic", "start", "deleted", NULL} \cup Nat
  /\ NULL \notin Val \cup [keys : SUBSET Key, val : Val \cup {NULL}]

Store == 1..2
Slot == 1..Room

(* Words: <<store, 0, w>> of the header, <<store, i, w>> of a record.      *)
Word == (Store \X {0} \X {"magic", "seq"})
        \cup (Store \X Slot \X {"hdr", "key", "val"})

VARIABLES
  flash,     \* the words
  current,   \* kv_data.current
  pos,       \* kv_data.current->pos: the next free slot, 0 without a header
  pc,        \* the next write to the flash
  call,      \* NULL, or the call in progress: its keys, and the value for them
  ppos,      \* kv_write: records before this slot are to be invalidated
  dst,       \* the store whose header is written next
  dpos,      \* its pos
  spos,      \* kv_copy_valid: the next record to copy
  failures,  \* history: how many times the power failed
  void       \* history: a header was left half written, see kv_copy_valid
             \* and Restart

(* The last four are the variables of a call.                              *)
local == <<ppos, dst, dpos, spos>>
ram == <<current, pos, local>>
vars == <<flash, ram, pc, call, failures, void>>

Other(s) == 3 - s

-----------------------------------------------------------------------------
(* What the code reads.                                                    *)

Magic(f, s) == f[<<s, 0, "magic">>] = "magic"

(* kv_iter_start: the sequence number is returned as an int, so that an    *)
(* erased one is an error too.                                             *)
Valid(f, s) == Magic(f, s) /\ f[<<s, 0, "seq">>] # Erased

(* Mistake: the scan goes over valid records only.                         *)
ScanValid(f, s) ==
  CHOOSE n \in 0..Room :
    /\ \A i \in 1..n : f[<<s, i, "hdr">>] = "start"
    /\ n = Room \/ f[<<s, n + 1, "hdr">>] # "start"

(* kv_scan: kv_iter_next goes over records, deleted or not.                *)
Scan(f, s) ==
  CHOOSE n \in 0..Room :
    /\ \A i \in 1..n : f[<<s, i, "hdr">>] # Erased
    /\ n = Room \/ f[<<s, n + 1, "hdr">>] = Erased

(* kv_store_get_seq: KV_SEQ_INVALID is 0, an erased word the largest.      *)
kv_store_get_seq(f, s) ==
  IF ~Magic(f, s) THEN 0
  ELSE IF f[<<s, 0, "seq">>] = Erased THEN MaxSeq + 1 ELSE f[<<s, 0, "seq">>]

StoreInit(f, s) == IF Valid(f, s) THEN Scan(f, s) + 1 ELSE 0

kv_init(f) ==
  LET s == IF ~Valid(f, 2) \/ kv_store_get_seq(f, 2) < kv_store_get_seq(f, 1)
             THEN 1 ELSE 2
  IN  [current |-> s, pos |-> StoreInit(f, s)]

(* The valid records of a key in a store.                                  *)
Records(f, s, k) ==
  {i \in Slot : f[<<s, i, "hdr">>] = "start" /\ f[<<s, i, "key">>] = k}

(* kv_get_val returns the first.                                           *)
kv_get_val(f, s, k) ==
  LET found == IF Valid(f, s) THEN Records(f, s, k) ELSE {}
  IN  IF found = {} THEN NULL ELSE f[<<s, Min(found), "val">>]

-----------------------------------------------------------------------------
(* Calls, up to their first write.                                         *)

Init ==  \* kv_init on erased sectors
  /\ flash = [w \in Word |-> Erased]
  /\ current = 1 /\ pos = 0
  /\ pc = "idle" /\ call = NULL
  /\ ppos = 0 /\ dst = 1 /\ dpos = 0 /\ spos = 0
  /\ failures = 0 /\ void = FALSE

Begin(c, p) ==
  /\ pc = "idle"
  /\ call' = c
  /\ pc' = p

BoundSeq == Valid(flash, current) => kv_store_get_seq(flash, current) < MaxSeq

(* kv_write of a record: into the current store, or after a copy into the  *)
(* other one.  An unused store gets its header first.                      *)
kv_set_data(k, v) ==
  /\ Begin([keys |-> {k}, val |-> v],
           CASE pos = 0 -> "magic" [] pos \in Slot -> "hdr" [] OTHER -> "erase")
  /\ pos > Room => BoundSeq
  /\ ppos' = pos
  /\ dst' = IF pos > Room THEN Other(current) ELSE current
  /\ dpos' = 1
  /\ spos' = 1
  /\ UNCHANGED <<flash, current, pos, failures, void>>

kv_delete(k) ==
  /\ Begin([keys |-> {k}, val |-> NULL], "invalidate")
  /\ ppos' = pos
  /\ UNCHANGED <<flash, current, pos, dst, dpos, spos, failures, void>>

(* The shell's command for a copy.  void: after a failure between the two  *)
(* words of the header of the first store, the sequence number of the copy *)
(* is that of the erased word, plus one, which is 0, and a restart prefers *)
(* the store without a header.                                             *)
kv_copy_valid ==
  /\ Magic(flash, current)
  /\ BoundSeq
  /\ Begin(NULL, "erase")
  /\ dst' = Other(current)
  /\ dpos' = 1
  /\ spos' = 1
  /\ void' = ~Valid(flash, current)
  /\ UNCHANGED <<flash, current, pos, ppos, failures>>

kv_erase ==
  /\ Begin([keys |-> Key, val |-> NULL], "erase1")
  /\ UNCHANGED <<flash, ram, failures, void>>

-----------------------------------------------------------------------------
(* The writes.                                                             *)

flash_program(w, v) == flash' = [flash EXCEPT ![w] = v]
flash_erase(s) == flash' = [w \in Word |-> IF w[1] = s THEN Erased ELSE flash[w]]

End == /\ pc' = "idle" /\ call' = NULL
       /\ ppos' = 0 /\ dst' = 1 /\ dpos' = 0 /\ spos' = 0

(* kv_store_reinit of the store to copy to.                                *)
Reinit ==
  /\ pc = "erase"
  /\ flash_erase(dst)
  /\ pc' = "copy"
  /\ UNCHANGED <<ram, call, failures, void>>

(* The loop of kv_copy_valid: a valid record is copied, a deleted one not. *)
Copy ==
  /\ pc = "copy"
  /\ spos \in Slot /\ flash[<<current, spos, "hdr">>] # Erased
  /\ spos' = spos + 1
  /\ IF flash[<<current, spos, "hdr">>] = "start"
       THEN /\ flash' = [w \in Word |->
                           IF w[1] = dst /\ w[2] = dpos
                             THEN flash[<<current, spos, w[3]>>] ELSE flash[w]]
            /\ dpos' = dpos + 1
       ELSE UNCHANGED <<flash, dpos>>
  /\ UNCHANGED <<current, pos, pc, call, ppos, dst, failures, void>>

CopyEnds ==
  /\ pc = "copy"
  /\ spos \in Slot => flash[<<current, spos, "hdr">>] = Erased
  /\ pc' = "magic"
  /\ spos' = 0
  /\ UNCHANGED <<flash, current, pos, ppos, dst, dpos, call, failures, void>>

HeaderMagic ==
  /\ pc = "magic"
  /\ flash_program(<<dst, 0, "magic">>, "magic")
  /\ pc' = "seq"
  /\ UNCHANGED <<ram, call, failures, void>>

(* Mistake: a copy gets the sequence number of the original.               *)
HeaderSameSeq ==
  /\ pc = "seq"
  /\ flash_program(<<dst, 0, "seq">>,
                   IF dst = current THEN 1 ELSE kv_store_get_seq(flash, current))
  /\ current' = dst
  /\ pos' = dpos
  /\ IF call # NULL /\ dpos <= Room
       THEN /\ pc' = "hdr"
            /\ ppos' = IF dst = current THEN ppos ELSE dpos
            /\ UNCHANGED <<call, dst, dpos, spos>>
       ELSE End
  /\ UNCHANGED <<failures, void>>

(* The second word of the header.  If not even a copy made room for the    *)
(* record, kv_write gives up, and kv_set_data returns 0 all the same.      *)
HeaderSeq ==
  /\ pc = "seq"
  /\ flash_program(<<dst, 0, "seq">>,
                   IF dst = current THEN 1 ELSE kv_store_get_seq(flash, current) + 1)
  /\ current' = dst
  /\ pos' = dpos
  /\ IF call # NULL /\ dpos <= Room
       THEN /\ pc' = "hdr"
            /\ ppos' = IF dst = current THEN ppos ELSE dpos
            /\ UNCHANGED <<call, dst, dpos, spos>>
       ELSE End
  /\ UNCHANGED <<failures, void>>

WriteHdr ==
  /\ pc = "hdr"
  /\ flash_program(<<current, pos, "hdr">>, "start")
  /\ pc' = "key"
  /\ UNCHANGED <<ram, call, failures, void>>

WriteKey ==
  /\ pc = "key"
  /\ \E k \in call.keys : flash_program(<<current, pos, "key">>, k)
  /\ pc' = "val"
  /\ UNCHANGED <<ram, call, failures, void>>

WriteVal ==
  /\ pc = "val"
  /\ flash_program(<<current, pos, "val">>, call.val)
  /\ pos' = pos + 1
  /\ pc' = "invalidate"
  /\ UNCHANGED <<current, local, call, failures, void>>

(* Mistake: the record just written is not spared.                         *)
InvalidateAll ==
  /\ pc = "invalidate"
  /\ LET old == {i \in UNION {Records(flash, current, k) : k \in call.keys} : i <= ppos}
     IN  \/ old = {} /\ End /\ UNCHANGED flash
         \/ /\ \E i \in old : /\ \A j \in old : i <= j
                              /\ flash_program(<<current, i, "hdr">>, "deleted")
            /\ UNCHANGED <<pc, call, local>>
  /\ UNCHANGED <<current, pos, failures, void>>

(* kv_invalidate: the next valid record of the key before ppos.            *)
Invalidate ==
  /\ pc = "invalidate"
  /\ LET old == {i \in UNION {Records(flash, current, k) : k \in call.keys} : i < ppos}
     IN  \/ old = {} /\ End /\ UNCHANGED flash
         \/ /\ \E i \in old : /\ \A j \in old : i <= j
                              /\ flash_program(<<current, i, "hdr">>, "deleted")
            /\ UNCHANGED <<pc, call, local>>
  /\ UNCHANGED <<current, pos, failures, void>>

EraseFirst ==
  /\ pc = "erase1"
  /\ flash_erase(1)
  /\ pc' = "erase2"
  /\ UNCHANGED <<ram, call, failures, void>>

Load(f) == current' = kv_init(f).current /\ pos' = kv_init(f).pos

EraseSecond ==
  /\ pc = "erase2"
  /\ flash_erase(2)
  /\ Load([w \in Word |-> IF w[1] = 2 THEN Erased ELSE flash[w]])
  /\ End
  /\ UNCHANGED <<failures, void>>

(* The power fails, and the system starts again.  void: between the two    *)
(* words of the header of a copy in the first store.  Its sequence number  *)
(* reads as the largest, so it is chosen, but as a store without a header. *)
Restart ==
  /\ failures < MaxFail
  /\ failures' = failures + 1
  /\ void' = (pc = "seq" /\ dst = 1 /\ current = 2)
  /\ Load(flash)
  /\ End
  /\ UNCHANGED flash

-----------------------------------------------------------------------------
User ==
  \/ \E k \in Key : kv_delete(k) \/ \E v \in Val : kv_set_data(k, v)
  \/ kv_copy_valid \/ kv_erase

Write ==
  \/ Reinit \/ Copy \/ CopyEnds \/ HeaderMagic \/ HeaderSeq
  \/ WriteHdr \/ WriteKey \/ WriteVal \/ Invalidate
  \/ EraseFirst \/ EraseSecond

Next == ~void /\ (User \/ Write \/ Restart)

Spec == Init /\ [][Next]_vars

-----------------------------------------------------------------------------
(* Properties.                                                             *)

(* The records of a key that a read does not find, for others before them. *)
Hidden(k) ==
  LET found == IF Valid(flash, current) THEN Records(flash, current, k) ELSE {}
  IN  {flash[<<current, i, "val">>] :
         i \in {j \in found : \E first \in found : first < j}}

Map == INSTANCE KvMap WITH
         Torn <- Erased,
         mem <- [k \in Key |-> kv_get_val(flash, current, k)],
         limbo <- [k \in Key |-> Hidden(k)]

(* However often the power fails: a call that returned keeps its effect,   *)
(* one that did not has it or not, and no other key changes                *)
(* (kvlog.c:571-601, 478-519, 358-384).  With one exception: a failure     *)
(* between the two words of a sector's header can leave the log without a  *)
(* valid sector, and from there on nothing is promised (KvMap's Tear).     *)
KeepsPromise == Map!Spec

(* A word is programmed only when it is erased, except that the start byte *)
(* of a record is cleared: the flash cannot do otherwise.  A position that *)
(* kv_scan gets wrong after a failure, or a sector not erased before a     *)
(* copy, would show here (kvlog.c:296-312, 490-512).                       *)
ProgramsErased ==
  [][\A w \in Word :
       flash'[w] \in {flash[w], Erased} \/ flash[w] = Erased
         \/ (flash[w] = "start" /\ flash'[w] = "deleted")]_vars

(* A restart finds the store in use and its first free slot: the sequence  *)
(* numbers and headers on the flash agree with the variables the calls     *)
(* have used since the last start (kvlog.c:358-384).                       *)
RestartFindsCurrent ==
  pc \in {"idle", "invalidate"} /\ ~void =>
    kv_init(flash) = [current |-> current, pos |-> pos]
=============================================================================
