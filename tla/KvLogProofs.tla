---------------------------- MODULE KvLogProofs ----------------------------
(***************************************************************************)
(* Theorems about the key-value log, for stores of any size, any keys and  *)
(* values and any number of failures of the power: the flash is never      *)
(* programmed twice, a restart finds the store in use, and what is read is *)
(* what KvMap promises.                                                    *)
(***************************************************************************)
EXTENDS KvLog, InductionLemmas

-----------------------------------------------------------------------------
(* The invariant.                                                          *)

(* A store's words have what their kind allows, and the sequence number is *)
(* written after the magic number.                                         *)
Typed(f) ==
  /\ f = [w \in Word |-> f[w]]
  /\ \A s \in Store :
       /\ f[<<s, 0, "magic">>] \in {Erased, "magic"}
       /\ f[<<s, 0, "seq">>] \in {Erased} \cup Nat
       /\ f[<<s, 0, "seq">>] # Erased => Magic(f, s)
       /\ \A i \in Slot : f[<<s, i, "hdr">>] \in {Erased, "start", "deleted"}

(* The records of a store are in its first n slots, the rest is erased.    *)
Layout(f, s, n) ==
  /\ n \in 0..Room
  /\ \A i \in 1..n : f[<<s, i, "hdr">>] # Erased
  /\ \A i \in Slot : i > n =>
       \A x \in {"hdr", "key", "val"} : f[<<s, i, x>>] = Erased

Chosen(f, s) ==
  s = IF ~Valid(f, 2) \/ kv_store_get_seq(f, 2) < kv_store_get_seq(f, 1) THEN 1 ELSE 2

(* The header of a copy is half written in the first store.                *)
HalfWritten == pc = "seq" /\ dst = 1 /\ current = 2

Calls == [keys : SUBSET Key, val : Val \cup {NULL}]

LocalOK ==
  /\ Typed(flash)
  /\ current \in Store /\ dst \in Store
  /\ pos \in Nat /\ ppos \in Nat /\ dpos \in Nat /\ spos \in Nat
  /\ call \in Calls \cup {NULL}
  /\ pc \in {"hdr", "key", "val", "invalidate"} => call \in Calls

StoresOK ==
  /\ \A s \in Store : \E n \in 0..Room : Layout(flash, s, n)
  /\ current = 2 => Valid(flash, 2)
  /\ ~Valid(flash, 1) /\ Valid(flash, 2) => ~Magic(flash, 1) \/ HalfWritten
  /\ ~Valid(flash, 1) /\ ~Valid(flash, 2) => Layout(flash, 1, 0)

(* The current store is the one a restart would choose, and pos is where   *)
(* its records end; in between it is the slot that is being written.       *)
CurrentOK ==
  /\ pc # "erase2" /\ ~HalfWritten => Chosen(flash, current)
  /\ pc \notin {"key", "val", "erase2"} => pos = StoreInit(flash, current)
  /\ pc = "hdr" => pos \in Slot
  /\ pc \in {"key", "val"} =>
       /\ Valid(flash, current) /\ pos \in Slot /\ Layout(flash, current, pos)
       /\ flash[<<current, pos, "val">>] = Erased
       /\ pc = "key" => flash[<<current, pos, "key">>] = Erased
  /\ pc = "erase2" => Layout(flash, 1, 0)

(* The store that gets a header is the current one, still unused, or the   *)
(* other one, with a copy of the records.                                  *)
HeaderOK ==
  pc \in {"erase", "copy", "magic", "seq"} =>
    /\ dst = current => pc \in {"magic", "seq"} /\ pos = 0 /\ dpos = 1
    /\ dst # current => Valid(flash, current)
    /\ dst # current /\ pc # "erase" =>
         /\ ~Valid(flash, dst)
         /\ dpos \in 1..(Room + 1) /\ Layout(flash, dst, dpos - 1)
    /\ pc = "copy" => dpos <= spos
    /\ pc = "erase" => dpos = 1 /\ spos = 1
    /\ pc = "seq" => Magic(flash, dst)

Sound == LocalOK /\ StoresOK /\ CurrentOK /\ HeaderOK

IInv == ~void => Sound

-----------------------------------------------------------------------------
(* Words.                                                                  *)

LEMMA Words ==
  /\ \A s \in Store, x \in {"magic", "seq"} : <<s, 0, x>> \in Word
  /\ \A s \in Store, i \in Slot, x \in {"hdr", "key", "val"} : <<s, i, x>> \in Word
  /\ \A s \in Store, i \in Slot, x \in {"hdr", "key", "val"},
        t \in Store, y \in {"magic", "seq"} : <<s, i, x>> # <<t, 0, y>>
  /\ \A w \in Word :
       \/ \E s \in Store, x \in {"magic", "seq"} : w = <<s, 0, x>>
       \/ \E s \in Store, i \in Slot, x \in {"hdr", "key", "val"} : w = <<s, i, x>>
  BY KvAssumption DEF Word, Slot

SameHeader(f, g, s) ==
  /\ g[<<s, 0, "magic">>] = f[<<s, 0, "magic">>]
  /\ g[<<s, 0, "seq">>] = f[<<s, 0, "seq">>]

SameRecords(f, g, s) ==
  \A i \in Slot, x \in {"hdr", "key", "val"} : g[<<s, i, x>>] = f[<<s, i, x>>]

LEMMA SameHeaderReads ==
  ASSUME NEW f, NEW g, NEW s, SameHeader(f, g, s)
  PROVE  /\ Magic(g, s) <=> Magic(f, s)
         /\ Valid(g, s) <=> Valid(f, s)
         /\ kv_store_get_seq(g, s) = kv_store_get_seq(f, s)
  BY DEF SameHeader, Magic, Valid, kv_store_get_seq

LEMMA SameRecordsLayout ==
  ASSUME NEW f, NEW g, NEW s, SameRecords(f, g, s), NEW n, Layout(f, s, n)
  PROVE  Layout(g, s, n)
<1>1. n \in 0..Room /\ \A i \in 1..n : i \in Slot
  BY KvAssumption DEF Layout, Slot
<1>2. \A i \in 1..n : g[<<s, i, "hdr">>] # Erased
  BY <1>1 DEF Layout, SameRecords
<1>3. \A i \in Slot : i > n =>
        \A x \in {"hdr", "key", "val"} : g[<<s, i, x>>] = Erased
  BY DEF Layout, SameRecords
<1> QED
  BY <1>1, <1>2, <1>3 DEF Layout

(* An erased sequence number is no store; a written one is.                *)
LEMMA ValidIs ==
  ASSUME NEW f, Typed(f), NEW s \in Store
  PROVE  /\ Valid(f, s) <=> f[<<s, 0, "seq">>] # Erased
         /\ Valid(f, s) => /\ Magic(f, s)
                           /\ kv_store_get_seq(f, s) \in Nat
                           /\ kv_store_get_seq(f, s) = f[<<s, 0, "seq">>]
         /\ ~Magic(f, s) => kv_store_get_seq(f, s) = 0
  BY KvAssumption DEF Typed, Valid, Magic, kv_store_get_seq

(* What a scan finds, and where the next record goes.                      *)
LEMMA ScanIs ==
  ASSUME NEW f, NEW s, NEW n, Layout(f, s, n)
  PROVE  Scan(f, s) = n
<1> DEFINE P(m) == /\ \A i \in 1..m : f[<<s, i, "hdr">>] # Erased
                   /\ m = Room \/ f[<<s, m + 1, "hdr">>] = Erased
<1>1. n \in 0..Room /\ P(n)
  <2>1. n \in 0..Room /\ \A i \in 1..n : f[<<s, i, "hdr">>] # Erased
    BY DEF Layout
  <2>2. n # Room => n + 1 \in Slot /\ n + 1 > n
    BY <2>1, KvAssumption DEF Slot
  <2>3. n # Room => f[<<s, n + 1, "hdr">>] = Erased
    BY <2>2 DEF Layout
  <2> QED
    BY <2>1, <2>3
<1>2. ASSUME NEW m \in 0..Room, P(m) PROVE m = n
  <2>1. CASE m < n
    <3>1. m + 1 \in 1..n /\ m # Room
      BY <1>1, <2>1, KvAssumption
    <3> QED
      BY <3>1, <1>1, <1>2
  <2>2. CASE m > n
    <3>1. n + 1 \in 1..m /\ n # Room
      BY <1>1, <2>2, KvAssumption
    <3> QED
      BY <3>1, <1>1, <1>2
  <2> QED
    BY <1>1, <2>1, <2>2, KvAssumption
<1>3. Scan(f, s) = CHOOSE m \in 0..Room : P(m)
  BY DEF Scan
<1> HIDE DEF P
<1> QED
  BY <1>1, <1>2, <1>3

LEMMA PosIs ==
  ASSUME NEW f, NEW s, NEW n, Layout(f, s, n)
  PROVE  StoreInit(f, s) = IF Valid(f, s) THEN n + 1 ELSE 0
  BY ScanIs DEF StoreInit

-----------------------------------------------------------------------------
(* What the writes change.                                                 *)

LEMMA EraseStore ==
  ASSUME NEW f, Typed(f), NEW s \in Store,
         NEW g, g = [w \in Word |-> IF w[1] = s THEN Erased ELSE f[w]]
  PROVE  /\ Typed(g)
         /\ \A t \in Store : t # s => SameHeader(f, g, t) /\ SameRecords(f, g, t)
         /\ ~Magic(g, s) /\ ~Valid(g, s) /\ kv_store_get_seq(g, s) = 0
         /\ Layout(g, s, 0)
<1>1. \A x \in {"magic", "seq"} : g[<<s, 0, x>>] = Erased
  BY Words
<1>2. \A i \in Slot, x \in {"hdr", "key", "val"} : g[<<s, i, x>>] = Erased
  BY Words
<1>3. \A t \in Store : t # s => SameHeader(f, g, t) /\ SameRecords(f, g, t)
  BY Words DEF SameHeader, SameRecords
<1>4. ~Magic(g, s)
  BY <1>1, KvAssumption DEF Magic
<1>5. Typed(g)
  <2>1. g = [w \in Word |-> g[w]]
    OBVIOUS
  <2>2. ASSUME NEW t \in Store, t # s
        PROVE  /\ g[<<t, 0, "magic">>] \in {Erased, "magic"}
               /\ g[<<t, 0, "seq">>] \in {Erased} \cup Nat
               /\ g[<<t, 0, "seq">>] # Erased => Magic(g, t)
               /\ \A i \in Slot : g[<<t, i, "hdr">>] \in {Erased, "start", "deleted"}
    BY <1>3, <2>2 DEF Typed, SameHeader, SameRecords, Magic
  <2> QED
    BY <1>1, <1>2, <2>1, <2>2 DEF Typed
<1>6. Layout(g, s, 0)
  BY <1>2, KvAssumption DEF Layout
<1> QED
  BY <1>3, <1>4, <1>5, <1>6 DEF Valid, kv_store_get_seq

Programs(f, g, w, v) == g = [f EXCEPT ![w] = v]

LEMMA ProgramIs ==
  ASSUME NEW f, Typed(f), NEW w \in Word, NEW v, NEW g, Programs(f, g, w, v)
  PROVE  g = [u \in Word |-> IF u = w THEN v ELSE f[u]]
  BY DEF Programs, Typed

LEMMA ProgramMagic ==
  ASSUME NEW f, Typed(f), NEW s \in Store, NEW g,
         Programs(f, g, <<s, 0, "magic">>, "magic")
  PROVE  /\ Typed(g)
         /\ g[<<s, 0, "magic">>] = "magic"
         /\ g[<<s, 0, "seq">>] = f[<<s, 0, "seq">>]
         /\ \A t \in Store : SameRecords(f, g, t)
         /\ \A t \in Store : t # s => SameHeader(f, g, t)
<1>1. <<s, 0, "magic">> \in Word /\ <<s, 0, "seq">> \in Word
  BY Words
<1>2. g = [w \in Word |-> IF w = <<s, 0, "magic">> THEN "magic" ELSE f[w]]
  BY <1>1, ProgramIs
<1>3. g[<<s, 0, "magic">>] = "magic" /\ g[<<s, 0, "seq">>] = f[<<s, 0, "seq">>]
  BY <1>1, <1>2
<1>4. \A t \in Store : SameRecords(f, g, t)
  BY <1>2, Words DEF SameRecords
<1>5. \A t \in Store : t # s => SameHeader(f, g, t)
  BY <1>2, Words DEF SameHeader
<1>6. Typed(g)
  <2>1. g = [w \in Word |-> g[w]]
    BY <1>2
  <2>2. ASSUME NEW t \in Store
        PROVE  /\ g[<<t, 0, "magic">>] \in {Erased, "magic"}
               /\ g[<<t, 0, "seq">>] \in {Erased} \cup Nat
               /\ g[<<t, 0, "seq">>] # Erased => Magic(g, t)
    BY <1>3, <1>5 DEF Typed, SameHeader, Magic
  <2>3. \A t \in Store : \A i \in Slot : g[<<t, i, "hdr">>] \in {Erased, "start", "deleted"}
    BY <1>4 DEF Typed, SameRecords
  <2> QED
    BY <2>1, <2>2, <2>3 DEF Typed
<1> QED
  BY <1>3, <1>4, <1>5, <1>6

LEMMA ProgramSeq ==
  ASSUME NEW f, Typed(f), NEW s \in Store, NEW v \in Nat, Magic(f, s), NEW g,
         Programs(f, g, <<s, 0, "seq">>, v)
  PROVE  /\ Typed(g)
         /\ g[<<s, 0, "magic">>] = f[<<s, 0, "magic">>]
         /\ g[<<s, 0, "seq">>] = v
         /\ \A t \in Store : SameRecords(f, g, t)
         /\ \A t \in Store : t # s => SameHeader(f, g, t)
<1>1. <<s, 0, "magic">> \in Word /\ <<s, 0, "seq">> \in Word
  BY Words
<1>2. g = [w \in Word |-> IF w = <<s, 0, "seq">> THEN v ELSE f[w]]
  BY <1>1, ProgramIs
<1>3. g[<<s, 0, "magic">>] = f[<<s, 0, "magic">>] /\ g[<<s, 0, "seq">>] = v
  BY <1>1, <1>2
<1>4. \A t \in Store : SameRecords(f, g, t)
  BY <1>2, Words DEF SameRecords
<1>5. \A t \in Store : t # s => SameHeader(f, g, t)
  BY <1>2, Words DEF SameHeader
<1>6. Typed(g)
  <2>1. g = [w \in Word |-> g[w]]
    BY <1>2
  <2>2. ASSUME NEW t \in Store
        PROVE  /\ g[<<t, 0, "magic">>] \in {Erased, "magic"}
               /\ g[<<t, 0, "seq">>] \in {Erased} \cup Nat
               /\ g[<<t, 0, "seq">>] # Erased => Magic(g, t)
    BY <1>3, <1>5 DEF Typed, SameHeader, Magic
  <2>3. \A t \in Store : \A i \in Slot : g[<<t, i, "hdr">>] \in {Erased, "start", "deleted"}
    BY <1>4 DEF Typed, SameRecords
  <2> QED
    BY <2>1, <2>2, <2>3 DEF Typed
<1> QED
  BY <1>3, <1>4, <1>5, <1>6

(* A write to words of slot i of store s.                                  *)
ChangesSlot(f, g, s, i) ==
  /\ g = [w \in Word |-> g[w]]
  /\ \A w \in Word : ~(w[1] = s /\ w[2] = i) => g[w] = f[w]
  /\ g[<<s, i, "hdr">>] \in {"start", "deleted"}

LEMMA ProgramHdr ==
  ASSUME NEW f, Typed(f), NEW s \in Store, NEW i \in Slot,
         NEW v \in {"start", "deleted"}, NEW g, Programs(f, g, <<s, i, "hdr">>, v)
  PROVE  /\ ChangesSlot(f, g, s, i)
         /\ g[<<s, i, "key">>] = f[<<s, i, "key">>]
         /\ g[<<s, i, "val">>] = f[<<s, i, "val">>]
<1>1. /\ <<s, i, "hdr">> \in Word
      /\ <<s, i, "key">> \in Word
      /\ <<s, i, "val">> \in Word
  BY Words
<1>2. g = [w \in Word |-> IF w = <<s, i, "hdr">> THEN v ELSE f[w]]
  BY <1>1, ProgramIs
<1>3. g = [w \in Word |-> g[w]]
  BY <1>2
<1>4. \A w \in Word : ~(w[1] = s /\ w[2] = i) => g[w] = f[w]
  BY <1>2
<1>5. g[<<s, i, "hdr">>] = v
  BY <1>1, <1>2
<1> QED
  BY <1>1, <1>2, <1>3, <1>4, <1>5 DEF ChangesSlot

LEMMA ProgramKey ==
  ASSUME NEW f, Typed(f), NEW s \in Store, NEW i \in Slot, f[<<s, i, "hdr">>] # Erased,
         NEW v, NEW g, Programs(f, g, <<s, i, "key">>, v)
  PROVE  /\ ChangesSlot(f, g, s, i)
         /\ g[<<s, i, "val">>] = f[<<s, i, "val">>]
<1>1. /\ <<s, i, "hdr">> \in Word
      /\ <<s, i, "key">> \in Word
      /\ <<s, i, "val">> \in Word
  BY Words
<1>2. g = [w \in Word |-> IF w = <<s, i, "key">> THEN v ELSE f[w]]
  BY <1>1, ProgramIs
<1>3. g = [w \in Word |-> g[w]]
  BY <1>2
<1>4. \A w \in Word : ~(w[1] = s /\ w[2] = i) => g[w] = f[w]
  BY <1>2
<1>5. g[<<s, i, "hdr">>] = f[<<s, i, "hdr">>]
  BY <1>1, <1>2
<1>6. g[<<s, i, "hdr">>] \in {"start", "deleted"}
  BY <1>5 DEF Typed
<1> QED
  BY <1>1, <1>2, <1>3, <1>4, <1>6 DEF ChangesSlot

LEMMA ProgramVal ==
  ASSUME NEW f, Typed(f), NEW s \in Store, NEW i \in Slot, f[<<s, i, "hdr">>] # Erased,
         NEW v, NEW g, Programs(f, g, <<s, i, "val">>, v)
  PROVE  /\ ChangesSlot(f, g, s, i)
<1>1. /\ <<s, i, "hdr">> \in Word
      /\ <<s, i, "key">> \in Word
      /\ <<s, i, "val">> \in Word
  BY Words
<1>2. g = [w \in Word |-> IF w = <<s, i, "val">> THEN v ELSE f[w]]
  BY <1>1, ProgramIs
<1>3. g = [w \in Word |-> g[w]]
  BY <1>2
<1>4. \A w \in Word : ~(w[1] = s /\ w[2] = i) => g[w] = f[w]
  BY <1>2
<1>5. g[<<s, i, "hdr">>] = f[<<s, i, "hdr">>]
  BY <1>1, <1>2
<1>6. g[<<s, i, "hdr">>] \in {"start", "deleted"}
  BY <1>5 DEF Typed
<1> QED
  BY <1>1, <1>2, <1>3, <1>4, <1>6 DEF ChangesSlot

(* The slot behind the last record becomes one more, a record stays one.   *)
LEMMA SlotChange ==
  ASSUME NEW f, Typed(f), NEW s \in Store, NEW i \in Slot, NEW g, ChangesSlot(f, g, s, i)
  PROVE  /\ Typed(g)
         /\ \A t \in Store : SameHeader(f, g, t)
         /\ \A t \in Store : t # s => SameRecords(f, g, t)
         /\ Layout(f, s, i - 1) => Layout(g, s, i)
         /\ \A n \in Nat : i <= n /\ Layout(f, s, n) => Layout(g, s, n)
<1> i # 0
  BY KvAssumption DEF Slot
<1>1. \A t \in Store : SameHeader(f, g, t)
  <2>1. \A t \in Store, x \in {"magic", "seq"} : <<t, 0, x>> \in Word /\ <<t, 0, x>>[2] = 0
    BY Words
  <2> QED
    BY <2>1 DEF ChangesSlot, SameHeader
<1>2. \A t \in Store : t # s => SameRecords(f, g, t)
  BY Words DEF ChangesSlot, SameRecords
<1>3. \A j \in Slot, x \in {"hdr", "key", "val"} : j # i => g[<<s, j, x>>] = f[<<s, j, x>>]
  BY Words DEF ChangesSlot
<1>4. g[<<s, i, "hdr">>] \in {"start", "deleted"} /\ g[<<s, i, "hdr">>] # Erased
  BY KvAssumption DEF ChangesSlot
<1>5. Typed(g)
  <2>1. \A t \in Store : \A j \in Slot : g[<<t, j, "hdr">>] \in {Erased, "start", "deleted"}
    BY <1>2, <1>3, <1>4 DEF Typed, SameRecords
  <2>2. g = [w \in Word |-> g[w]]
    BY DEF ChangesSlot
  <2> QED
    BY <1>1, <2>1, <2>2 DEF Typed, SameHeader, Magic
<1>6. ASSUME Layout(f, s, i - 1) PROVE Layout(g, s, i)
  <2>1. i - 1 \in 0..Room /\ i \in 0..Room /\ i \in Nat
    BY KvAssumption DEF Slot
  <2>2. \A j \in 1..i : j \in Slot /\ (j = i \/ j \in 1..(i - 1))
    BY KvAssumption DEF Slot
  <2>3. \A j \in 1..i : g[<<s, j, "hdr">>] # Erased
    BY <1>3, <1>4, <1>6, <2>2 DEF Layout
  <2>4. \A j \in Slot : j > i => j > i - 1 /\ j # i
    BY <2>1 DEF Slot
  <2>5. \A j \in Slot : j > i =>
          \A x \in {"hdr", "key", "val"} : g[<<s, j, x>>] = Erased
    BY <1>3, <1>6, <2>4 DEF Layout
  <2> QED
    BY <2>1, <2>3, <2>5 DEF Layout
<1>7. ASSUME NEW n \in Nat, i <= n, Layout(f, s, n) PROVE Layout(g, s, n)
  <2>1. n \in 0..Room /\ \A j \in 1..n : j \in Slot
    BY <1>7, KvAssumption DEF Layout, Slot
  <2>2. \A j \in 1..n : g[<<s, j, "hdr">>] # Erased
    BY <1>3, <1>4, <1>7, <2>1 DEF Layout
  <2>3. \A j \in Slot : j > n => j # i
    BY <1>7, KvAssumption DEF Slot
  <2>4. \A j \in Slot : j > n =>
          \A x \in {"hdr", "key", "val"} : g[<<s, j, x>>] = Erased
    BY <1>3, <1>7, <2>3 DEF Layout
  <2> QED
    BY <2>1, <2>2, <2>4 DEF Layout
<1> QED
  BY <1>1, <1>2, <1>5, <1>6, <1>7

-----------------------------------------------------------------------------
(* Every action keeps the invariant.                                       *)

LEMMA InitSound == Init => Sound
<1> SUFFICES ASSUME Init PROVE Sound
  OBVIOUS
<1>1. \A s \in Store : /\ \A x \in {"magic", "seq"} : flash[<<s, 0, x>>] = Erased
                       /\ \A i \in Slot, x \in {"hdr", "key", "val"} : flash[<<s, i, x>>] = Erased
  <2>1. \A w \in Word : flash[w] = Erased
    BY DEF Init
  <2> QED
    BY <2>1, Words
<1>2. \A s \in Store : ~Magic(flash, s) /\ ~Valid(flash, s) /\ Layout(flash, s, 0)
  <2>1. \A s \in Store : ~Magic(flash, s) /\ ~Valid(flash, s)
    BY <1>1, KvAssumption DEF Magic, Valid
  <2>2. 0 \in 0..Room /\ 1..0 = {}
    BY KvAssumption
  <2> QED
    BY <1>1, <2>1, <2>2 DEF Layout
<1>3. Typed(flash)
  BY <1>1 DEF Typed, Init
<1>4. LocalOK
  BY <1>3 DEF LocalOK, Init, Store
<1>5. 0 \in 0..Room /\ 1 \in Store /\ 2 \in Store
  BY KvAssumption DEF Store
<1>6. StoresOK
  BY <1>2, <1>5 DEF StoresOK, Init
<1>7. CurrentOK
  BY <1>2, <1>5 DEF CurrentOK, Init, Chosen, StoreInit
<1> QED
  BY <1>4, <1>6, <1>7 DEF Sound, HeaderOK, Init

LEMMA SetSound ==
  ASSUME Sound, NEW k \in Key, NEW v \in Val, kv_set_data(k, v)
  PROVE  Sound'
<1> USE DEF Sound, kv_set_data, Begin
<1>1. /\ pc = "idle" /\ pos = StoreInit(flash, current) /\ current \in Store
      /\ pos \in Nat
  BY DEF CurrentOK, LocalOK
<1>2. pos # 0 => Valid(flash, current)
  BY <1>1 DEF StoreInit
<1>3. \/ pos = 0 /\ pc' = "magic" /\ dst' = current
      \/ pos \in Slot /\ pc' = "hdr" /\ dst' = current
      \/ pos > Room /\ pc' = "erase" /\ dst' = Other(current)
  BY <1>1, KvAssumption DEF Slot
<1>4. Other(current) \in Store /\ Other(current) # current
  BY <1>1 DEF Other, Store
<1>5. call' \in Calls
  BY DEF Calls
<1>6. LocalOK'
  BY <1>1, <1>3, <1>4, <1>5 DEF LocalOK
<1>7. StoresOK'
  BY <1>1 DEF StoresOK, HalfWritten
<1>8. CurrentOK'
  BY <1>1, <1>3 DEF CurrentOK, HalfWritten
<1>9. HeaderOK'
  BY <1>2, <1>3, <1>4 DEF HeaderOK
<1> QED
  BY <1>6, <1>7, <1>8, <1>9

LEMMA DeleteSound ==
  ASSUME Sound, NEW k \in Key, kv_delete(k)
  PROVE  Sound'
<1> USE DEF Sound, kv_delete, Begin
<1>1. call' \in Calls
  BY DEF Calls
<1>2. LocalOK'
  BY <1>1 DEF LocalOK
<1>3. StoresOK' /\ CurrentOK' /\ HeaderOK'
  BY DEF StoresOK, CurrentOK, HeaderOK, HalfWritten
<1> QED
  BY <1>2, <1>3

LEMMA CopyCallSound ==
  ASSUME Sound, kv_copy_valid, ~void'
  PROVE  Sound'
<1> USE DEF Sound, kv_copy_valid, Begin
<1>1. current \in Store /\ Valid(flash, current)
  BY DEF LocalOK
<1>2. Other(current) \in Store /\ Other(current) # current
  BY <1>1 DEF Other, Store
<1>3. LocalOK'
  BY <1>2 DEF LocalOK
<1>4. StoresOK' /\ CurrentOK'
  BY DEF StoresOK, CurrentOK, HalfWritten
<1>5. HeaderOK'
  BY <1>1, <1>2 DEF HeaderOK
<1> QED
  BY <1>3, <1>4, <1>5

LEMMA EraseCallSound ==
  ASSUME Sound, kv_erase
  PROVE  Sound'
<1> USE DEF Sound, kv_erase, Begin, ram, local
<1>1. call' \in Calls
  BY DEF Calls
<1>2. LocalOK'
  BY <1>1 DEF LocalOK
<1>3. StoresOK' /\ CurrentOK' /\ HeaderOK'
  BY DEF StoresOK, CurrentOK, HeaderOK, HalfWritten
<1> QED
  BY <1>2, <1>3

LEMMA ReinitSound ==
  ASSUME Sound, Reinit
  PROVE  Sound'
<1> USE DEF Sound, Reinit, ram, local
<1>1. /\ Typed(flash) /\ current \in Store /\ dst \in Store /\ dst # current
      /\ Valid(flash, current) /\ dpos = 1 /\ spos = 1
  BY DEF LocalOK, HeaderOK
<1>2. /\ Typed(flash')
      /\ SameHeader(flash, flash', current) /\ SameRecords(flash, flash', current)
      /\ ~Magic(flash', dst) /\ ~Valid(flash', dst) /\ kv_store_get_seq(flash', dst) = 0
      /\ Layout(flash', dst, 0)
  BY <1>1, EraseStore DEF flash_erase
<1>3. /\ Magic(flash', current) <=> Magic(flash, current)
      /\ Valid(flash', current)
      /\ kv_store_get_seq(flash', current) = kv_store_get_seq(flash, current)
  BY <1>1, <1>2, SameHeaderReads
<1>4. PICK n \in 0..Room : Layout(flash, current, n)
  BY <1>1 DEF StoresOK
<1>5. Layout(flash', current, n)
  BY <1>2, <1>4, SameRecordsLayout
<1>6. StoreInit(flash', current) = StoreInit(flash, current)
  BY <1>1, <1>3, <1>4, <1>5, PosIs
<1>7. kv_store_get_seq(flash', current) \in Nat
  BY <1>1, <1>2, <1>3, ValidIs
<1>8. 0 \in 0..Room
  BY KvAssumption
<1>9. LocalOK'
  BY <1>2 DEF LocalOK
<1>10. StoresOK'
  BY <1>1, <1>2, <1>3, <1>5, <1>8 DEF StoresOK, HalfWritten, Store
<1>11. Chosen(flash', current)
  BY <1>1, <1>2, <1>3, <1>7 DEF Chosen, Store
<1>12. pos = StoreInit(flash, current)
  BY DEF CurrentOK
<1>13. CurrentOK'
  BY <1>6, <1>11, <1>12 DEF CurrentOK
<1>14. HeaderOK'
  BY <1>1, <1>2, <1>3, KvAssumption DEF HeaderOK
<1> QED
  BY <1>9, <1>10, <1>13, <1>14

(* The words of a copied record.                                           *)
LEMMA CopyWrite ==
  ASSUME Sound, Copy, flash[<<current, spos, "hdr">>] = "start"
  PROVE  /\ current \in Store /\ dst \in Store /\ dst # current
         /\ dpos \in Slot /\ spos \in Slot
         /\ Layout(flash, dst, dpos - 1)
         /\ ChangesSlot(flash, flash', dst, dpos)
<1> USE DEF Sound, Copy
<1>1. /\ Typed(flash) /\ current \in Store /\ dst \in Store /\ dst # current
      /\ dpos \in 1..(Room + 1) /\ dpos <= spos /\ spos \in Slot
      /\ Layout(flash, dst, dpos - 1)
  BY DEF LocalOK, HeaderOK
<1>2. dpos \in Slot
  BY <1>1, KvAssumption DEF Slot
<1>3. flash' = [w \in Word |-> IF w[1] = dst /\ w[2] = dpos
                               THEN flash[<<current, spos, w[3]>>] ELSE flash[w]]
  OBVIOUS
<1>4. <<dst, dpos, "hdr">> \in Word
  BY <1>1, <1>2, Words
<1>5. flash'[<<dst, dpos, "hdr">>] = "start"
  BY <1>3, <1>4
<1>6. ChangesSlot(flash, flash', dst, dpos)
  BY <1>3, <1>5 DEF ChangesSlot
<1> QED
  BY <1>1, <1>2, <1>6

LEMMA CopySound ==
  ASSUME Sound, Copy
  PROVE  Sound'
<1> USE DEF Sound, Copy
<1>1. /\ Typed(flash) /\ current \in Store /\ dst \in Store /\ dst # current
      /\ Valid(flash, current) /\ ~Valid(flash, dst)
      /\ dpos \in 1..(Room + 1) /\ dpos <= spos /\ spos \in Slot /\ dpos \in Nat
      /\ Layout(flash, dst, dpos - 1)
  BY DEF LocalOK, HeaderOK
<1>2. spos' \in Nat /\ dpos <= spos'
  BY <1>1, KvAssumption DEF Slot
<1>3. CASE flash[<<current, spos, "hdr">>] = "start"
  <2>1. dpos \in Slot /\ ChangesSlot(flash, flash', dst, dpos)
    BY <1>3, CopyWrite
  <2>2. /\ Typed(flash')
        /\ \A t \in Store : SameHeader(flash, flash', t)
        /\ SameRecords(flash, flash', current)
        /\ Layout(flash', dst, dpos)
    BY <1>1, <2>1, SlotChange
  <2>3. \A t \in Store : /\ Magic(flash', t) <=> Magic(flash, t)
                         /\ Valid(flash', t) <=> Valid(flash, t)
                         /\ kv_store_get_seq(flash', t) = kv_store_get_seq(flash, t)
    BY <2>2, SameHeaderReads
  <2>4. PICK n \in 0..Room : Layout(flash, current, n)
    BY <1>1 DEF StoresOK
  <2>5. Layout(flash', current, n)
    BY <2>2, <2>4, SameRecordsLayout
  <2>6. StoreInit(flash', current) = StoreInit(flash, current)
    BY <1>1, <2>3, <2>4, <2>5, PosIs
  <2>7. /\ dpos \in 0..Room /\ dpos' = dpos + 1 /\ dpos' \in 1..(Room + 1)
        /\ dpos' - 1 = dpos /\ dpos' <= spos'
    BY <1>1, <1>3, <2>1, KvAssumption DEF Slot
  <2>8. LocalOK'
    BY <1>2, <2>2, <2>7 DEF LocalOK
  <2>9. StoresOK'
    BY <1>1, <2>2, <2>3, <2>5, <2>7 DEF StoresOK, HalfWritten, Store
  <2>10. CurrentOK'
    BY <1>1, <2>3, <2>6, ValidIs DEF CurrentOK, HalfWritten, Chosen, Store
  <2>11. HeaderOK'
    BY <1>1, <2>2, <2>3, <2>7 DEF HeaderOK
  <2> QED
    BY <2>8, <2>9, <2>10, <2>11
<1>4. CASE flash[<<current, spos, "hdr">>] # "start"
  <2>1. UNCHANGED <<flash, dpos>>
    BY <1>4
  <2>2. LocalOK'
    BY <1>2, <2>1 DEF LocalOK
  <2>3. StoresOK' /\ CurrentOK' /\ HeaderOK'
    BY <1>2, <2>1 DEF StoresOK, CurrentOK, HeaderOK, HalfWritten
  <2> QED
    BY <2>2, <2>3
<1> QED
  BY <1>3, <1>4

LEMMA CopyEndsSound ==
  ASSUME Sound, CopyEnds
  PROVE  Sound'
<1> USE DEF Sound, CopyEnds
<1>1. LocalOK'
  BY DEF LocalOK
<1>2. StoresOK' /\ CurrentOK' /\ HeaderOK'
  BY DEF StoresOK, CurrentOK, HeaderOK, HalfWritten
<1> QED
  BY <1>1, <1>2

LEMMA HeaderMagicSound ==
  ASSUME Sound, HeaderMagic
  PROVE  Sound'
<1> USE DEF Sound, HeaderMagic, ram, local
<1>1. /\ Typed(flash) /\ current \in Store /\ dst \in Store
      /\ current = 2 => Valid(flash, 2)
      /\ pos = StoreInit(flash, current) /\ Chosen(flash, current)
      /\ dst # current => Valid(flash, current) /\ ~Valid(flash, dst)
      /\ dst = current => pos = 0
  BY DEF LocalOK, StoresOK, CurrentOK, HeaderOK, HalfWritten
<1>2. \A t \in Store : \E n \in 0..Room : Layout(flash, t, n)
  BY DEF StoresOK
<1>3. ~Valid(flash, dst)
  <2>1. PICK n \in 0..Room : Layout(flash, current, n)
    BY <1>1, <1>2
  <2> QED
    BY <1>1, <2>1, PosIs, KvAssumption
<1>4. flash[<<dst, 0, "seq">>] = Erased
  BY <1>1, <1>3, ValidIs
<1>5. Programs(flash, flash', <<dst, 0, "magic">>, "magic")
  BY DEF flash_program, Programs
<1>6. /\ Typed(flash')
      /\ flash'[<<dst, 0, "magic">>] = "magic"
      /\ flash'[<<dst, 0, "seq">>] = Erased
      /\ \A t \in Store : SameRecords(flash, flash', t)
      /\ \A t \in Store : t # dst => SameHeader(flash, flash', t)
  BY <1>1, <1>4, <1>5, ProgramMagic
<1>7. Magic(flash', dst) /\ ~Valid(flash', dst)
  BY <1>6 DEF Magic, Valid
<1>8. \A t \in Store : t # dst =>
        /\ Magic(flash', t) <=> Magic(flash, t)
        /\ Valid(flash', t) <=> Valid(flash, t)
        /\ kv_store_get_seq(flash', t) = kv_store_get_seq(flash, t)
  BY <1>6, SameHeaderReads
<1>9. \A t \in Store, n \in 0..Room : Layout(flash, t, n) => Layout(flash', t, n)
  BY <1>6, SameRecordsLayout
<1>10. StoreInit(flash', current) = StoreInit(flash, current)
  <2>1. PICK n \in 0..Room : Layout(flash, current, n)
    BY <1>1, <1>2
  <2>2. Valid(flash', current) <=> Valid(flash, current)
    BY <1>1, <1>3, <1>7, <1>8
  <2> QED
    BY <1>1, <1>9, <2>1, <2>2, PosIs
<1>11. LocalOK'
  BY <1>6 DEF LocalOK
<1>12. ~Valid(flash, 1) /\ Valid(flash, 2) => current = 2
  BY <1>1, ValidIs DEF StoresOK, HalfWritten, Chosen, Store
<1>13. StoresOK'
  <2>1. \A s \in Store : \E n \in 0..Room : Layout(flash', s, n)
    BY <1>2, <1>9
  <2>2. (current = 2 => Valid(flash, 2))'
    BY <1>1, <1>3, <1>8
  <2>3. (~Valid(flash, 1) /\ Valid(flash, 2) => ~Magic(flash, 1) \/ HalfWritten)'
    BY <1>1, <1>3, <1>7, <1>8, <1>12 DEF StoresOK, HalfWritten, Store
  <2>4. (~Valid(flash, 1) /\ ~Valid(flash, 2) => Layout(flash, 1, 0))'
    <3>1. 0 \in 0..Room /\ 1 \in Store
      BY KvAssumption DEF Store
    <3>2. ASSUME ~Valid(flash', 1), ~Valid(flash', 2)
          PROVE  ~Valid(flash, 1) /\ ~Valid(flash, 2)
      BY <1>1, <1>3, <1>8, <3>2 DEF Store
    <3> QED
      BY <1>9, <3>1, <3>2 DEF StoresOK
  <2> QED
    BY <2>1, <2>2, <2>3, <2>4 DEF StoresOK
<1>14. CurrentOK'
  <2>1. ~HalfWritten' => Chosen(flash', current)
    BY <1>1, <1>3, <1>7, <1>8, <1>12 DEF Chosen, HalfWritten, Store
  <2> QED
    BY <1>1, <1>10, <2>1 DEF CurrentOK
<1>15. HeaderOK'
  <2>1. dst # current => dpos \in 1..(Room + 1) /\ Layout(flash, dst, dpos - 1)
    BY DEF HeaderOK
  <2>2. dst # current => Layout(flash', dst, dpos - 1)
    <3>1. dst # current => dpos - 1 \in 0..Room
      BY <2>1, KvAssumption
    <3> QED
      BY <1>1, <1>9, <2>1, <3>1
  <2>3. dst = current => pos = 0 /\ dpos = 1
    BY DEF HeaderOK
  <2> QED
    BY <1>1, <1>7, <1>8, <2>1, <2>2, <2>3 DEF HeaderOK
<1> QED
  BY <1>11, <1>13, <1>14, <1>15

LEMMA HeaderSeqSound ==
  ASSUME Sound, HeaderSeq
  PROVE  Sound'
<1> USE DEF Sound, HeaderSeq
<1> DEFINE seq == IF dst = current THEN 1 ELSE kv_store_get_seq(flash, current) + 1
<1>1. /\ Typed(flash) /\ current \in Store /\ dst \in Store
      /\ current = 2 => Valid(flash, 2)
      /\ pos = StoreInit(flash, current)
      /\ dst # current => Valid(flash, current) /\ ~Valid(flash, dst)
      /\ dst = current => pos = 0 /\ dpos = 1
      /\ dst # current => dpos \in 1..(Room + 1) /\ Layout(flash, dst, dpos - 1)
      /\ Magic(flash, dst)
      /\ ~HalfWritten => Chosen(flash, current)
  BY DEF LocalOK, StoresOK, CurrentOK, HeaderOK
<1>2. \A t \in Store : \E n \in 0..Room : Layout(flash, t, n)
  BY DEF StoresOK
<1>3. ~Valid(flash, dst)
  <2>1. PICK n \in 0..Room : Layout(flash, current, n)
    BY <1>1, <1>2
  <2> QED
    BY <1>1, <2>1, PosIs, KvAssumption
<1>4. /\ seq \in Nat
      /\ dst # current => /\ seq = kv_store_get_seq(flash, current) + 1
                          /\ kv_store_get_seq(flash, current) \in Nat
  <2>1. dst # current => kv_store_get_seq(flash, current) \in Nat
    BY <1>1, ValidIs
  <2> QED
    BY <2>1
<1>5. Programs(flash, flash', <<dst, 0, "seq">>, seq)
  BY DEF flash_program, Programs
<1> HIDE DEF seq
<1>6. /\ Typed(flash')
      /\ flash'[<<dst, 0, "magic">>] = flash[<<dst, 0, "magic">>]
      /\ flash'[<<dst, 0, "seq">>] = seq
      /\ \A t \in Store : SameRecords(flash, flash', t)
      /\ \A t \in Store : t # dst => SameHeader(flash, flash', t)
  BY <1>1, <1>4, <1>5, ProgramSeq
<1>7. Magic(flash', dst) /\ Valid(flash', dst) /\ kv_store_get_seq(flash', dst) = seq
  BY <1>1, <1>4, <1>6, KvAssumption DEF Magic, Valid, kv_store_get_seq
<1>8. \A t \in Store : t # dst =>
        /\ Magic(flash', t) <=> Magic(flash, t)
        /\ Valid(flash', t) <=> Valid(flash, t)
        /\ kv_store_get_seq(flash', t) = kv_store_get_seq(flash, t)
  BY <1>6, SameHeaderReads
<1>9. \A t \in Store, n \in 0..Room : Layout(flash, t, n) => Layout(flash', t, n)
  BY <1>6, SameRecordsLayout
<1>10. dpos \in 1..(Room + 1) /\ dpos - 1 \in 0..Room /\ dpos \in Nat /\ 0 \in 0..Room
  BY <1>1, KvAssumption
<1>11. dst = current => current = 1 /\ ~Valid(flash, 1) /\ ~Valid(flash, 2)
  <2>1. ASSUME dst = current PROVE current = 1 /\ ~Valid(flash, 1)
    BY <1>1, <1>3, <2>1 DEF Store
  <2>2. ASSUME dst = current PROVE ~HalfWritten
    BY <2>1, <2>2 DEF HalfWritten
  <2>3. ASSUME dst = current, Valid(flash, 2) PROVE ~Magic(flash, 1)
    BY <2>1, <2>2, <2>3 DEF StoresOK
  <2> QED
    BY <1>1, <2>1, <2>3
<1>12. Layout(flash', dst, dpos - 1)
  <2>1. dst = current => Layout(flash, dst, 0) /\ dpos - 1 = 0
    BY <1>1, <1>11 DEF StoresOK
  <2> QED
    BY <1>1, <1>9, <1>10, <2>1
<1>13. StoreInit(flash', dst) = dpos
  BY <1>7, <1>10, <1>12, PosIs
<1>14. /\ current' = dst /\ pos' = dpos
       /\ ppos' \in Nat /\ dst' \in Store /\ dpos' \in Nat /\ spos' \in Nat
       /\ call' \in Calls \cup {NULL}
       /\ \/ pc' = "hdr" /\ dpos <= Room /\ call' \in Calls
          \/ pc' = "idle"
  BY <1>1, <1>10 DEF End, LocalOK, Store
<1>15. LocalOK'
  BY <1>1, <1>6, <1>10, <1>14 DEF LocalOK
<1>16. StoresOK'
  <2>1. \A s \in Store : \E n \in 0..Room : Layout(flash', s, n)
    BY <1>2, <1>9
  <2>2. (current = 2 => Valid(flash, 2))'
    BY <1>7, <1>14
  <2>3. (~Valid(flash, 1) /\ Valid(flash, 2) => ~Magic(flash, 1) \/ HalfWritten)'
    BY <1>1, <1>7, <1>8, <1>11 DEF Store
  <2>4. (~Valid(flash, 1) /\ ~Valid(flash, 2) => Layout(flash, 1, 0))'
    BY <1>1, <1>7 DEF Store
  <2> QED
    BY <2>1, <2>2, <2>3, <2>4 DEF StoresOK
<1>17. Chosen(flash', dst)
  <2>1. CASE dst = current
    BY <1>7, <1>8, <1>11, <2>1 DEF Chosen, Store
  <2>2. CASE dst # current
    <3>1. /\ kv_store_get_seq(flash', dst) = kv_store_get_seq(flash', current) + 1
          /\ kv_store_get_seq(flash', current) \in Nat
      BY <1>1, <1>4, <1>7, <1>8, <2>2
    <3>2. (dst = 1 /\ current = 2) \/ (dst = 2 /\ current = 1)
      BY <1>1, <2>2 DEF Store
    <3> QED
      BY <1>7, <3>1, <3>2 DEF Chosen
  <2> QED
    BY <2>1, <2>2
<1>18. CurrentOK'
  <2>1. pc' = "hdr" => dpos \in Slot
    BY <1>10, <1>14, KvAssumption DEF Slot
  <2> QED
    BY <1>13, <1>14, <1>17, <2>1 DEF CurrentOK
<1>19. HeaderOK'
  BY <1>14 DEF HeaderOK
<1> QED
  BY <1>15, <1>16, <1>18, <1>19

(* A write to a record of the current store.                               *)
LEMMA SlotSound ==
  ASSUME Sound, Valid(flash, current), pc \notin {"erase2", "seq"},
         NEW i \in Slot, ChangesSlot(flash, flash', current, i), current' = current,
         NEW n \in 0..Room, Layout(flash', current, n), ~HalfWritten'
  PROVE  /\ Typed(flash') /\ StoresOK'
         /\ Valid(flash', current) /\ Chosen(flash', current)
         /\ StoreInit(flash', current) = n + 1
<1> USE DEF Sound
<1>1. Typed(flash) /\ current \in Store /\ Chosen(flash, current)
  BY DEF LocalOK, CurrentOK, HalfWritten
<1>2. /\ Typed(flash')
      /\ \A t \in Store : SameHeader(flash, flash', t)
      /\ \A t \in Store : t # current => SameRecords(flash, flash', t)
  BY <1>1, SlotChange
<1>3. \A t \in Store : /\ Magic(flash', t) <=> Magic(flash, t)
                       /\ Valid(flash', t) <=> Valid(flash, t)
                       /\ kv_store_get_seq(flash', t) = kv_store_get_seq(flash, t)
  BY <1>2, SameHeaderReads
<1>4. \A t \in Store : \E m \in 0..Room : Layout(flash', t, m)
  BY <1>2, SameRecordsLayout DEF StoresOK
<1>5. (~Valid(flash, 1) /\ Valid(flash, 2) => ~Magic(flash, 1) \/ HalfWritten)'
  BY <1>3 DEF StoresOK, HalfWritten, Store
<1>6. (~Valid(flash, 1) /\ ~Valid(flash, 2) => Layout(flash, 1, 0))'
  BY <1>1, <1>3 DEF Store
<1>7. StoresOK'
  BY <1>1, <1>3, <1>4, <1>5, <1>6 DEF StoresOK
<1>8. Chosen(flash', current)
  BY <1>1, <1>3 DEF Chosen, Store
<1> QED
  BY <1>1, <1>2, <1>3, <1>7, <1>8, PosIs

(* A word of the record that is being written.                             *)
LEMMA WriteHdrSound ==
  ASSUME Sound, WriteHdr
  PROVE  Sound' /\ Layout(flash, current, pos - 1) /\ pos \in Slot /\ current \in Store
<1> USE DEF Sound, WriteHdr, ram, local
<1>1. /\ Typed(flash) /\ current \in Store /\ pos \in Slot
      /\ pos = StoreInit(flash, current)
  BY DEF LocalOK, CurrentOK
<1>2. PICK m \in 0..Room : Layout(flash, current, m)
  BY <1>1 DEF StoresOK
<1>3. Valid(flash, current) /\ m = pos - 1
  <2>1. pos = IF Valid(flash, current) THEN m + 1 ELSE 0
    BY <1>1, <1>2, PosIs
  <2> QED
    BY <1>1, <2>1, KvAssumption DEF Slot
<1>4. Programs(flash, flash', <<current, pos, "hdr">>, "start")
  BY DEF flash_program, Programs
<1>5. /\ ChangesSlot(flash, flash', current, pos)
      /\ flash'[<<current, pos, "key">>] = flash[<<current, pos, "key">>]
      /\ flash'[<<current, pos, "val">>] = flash[<<current, pos, "val">>]
  BY <1>1, <1>4, ProgramHdr
<1>6. pos > m /\ pos \in 0..Room
  BY <1>1, <1>3, KvAssumption DEF Slot
<1>7. /\ flash'[<<current, pos, "key">>] = Erased
      /\ flash'[<<current, pos, "val">>] = Erased
  BY <1>1, <1>2, <1>5, <1>6 DEF Layout
<1>8. Layout(flash', current, pos)
  BY <1>1, <1>2, <1>3, <1>5, SlotChange
<1>9. /\ Typed(flash') /\ StoresOK' /\ Valid(flash', current) /\ Chosen(flash', current)
  BY <1>1, <1>3, <1>5, <1>6, <1>8, SlotSound DEF HalfWritten
<1>10. LocalOK'
  BY <1>9 DEF LocalOK
<1>11. CurrentOK'
  BY <1>1, <1>7, <1>8, <1>9 DEF CurrentOK
<1>12. HeaderOK'
  BY DEF HeaderOK
<1> QED
  BY <1>1, <1>2, <1>3, <1>9, <1>10, <1>11, <1>12

LEMMA WriteKeySound ==
  ASSUME Sound, WriteKey
  PROVE  Sound' /\ flash[<<current, pos, "key">>] = Erased
<1> USE DEF Sound, WriteKey, ram, local
<1>1. /\ Typed(flash) /\ current \in Store /\ pos \in Slot /\ pos \in 0..Room
      /\ Valid(flash, current) /\ Layout(flash, current, pos)
      /\ flash[<<current, pos, "key">>] = Erased
      /\ flash[<<current, pos, "val">>] = Erased
  BY KvAssumption DEF LocalOK, CurrentOK, Slot
<1>2. PICK k \in call.keys : Programs(flash, flash', <<current, pos, "key">>, k)
  BY DEF flash_program, Programs
<1>3. pos \in 1..pos /\ pos \in Nat /\ pos <= pos
  BY <1>1, KvAssumption DEF Slot
<1>4. flash[<<current, pos, "hdr">>] # Erased
  BY <1>1, <1>3 DEF Layout
<1>5. /\ ChangesSlot(flash, flash', current, pos)
      /\ flash'[<<current, pos, "val">>] = flash[<<current, pos, "val">>]
  BY <1>1, <1>2, <1>4, ProgramKey
<1>6. Layout(flash', current, pos)
  BY <1>1, <1>3, <1>5, SlotChange
<1>7. /\ Typed(flash') /\ StoresOK' /\ Valid(flash', current) /\ Chosen(flash', current)
  BY <1>1, <1>5, <1>6, SlotSound DEF HalfWritten
<1>8. LocalOK'
  BY <1>7 DEF LocalOK
<1>9. CurrentOK'
  BY <1>1, <1>5, <1>6, <1>7 DEF CurrentOK
<1>10. HeaderOK'
  BY DEF HeaderOK
<1> QED
  BY <1>1, <1>7, <1>8, <1>9, <1>10

LEMMA WriteValSound ==
  ASSUME Sound, WriteVal
  PROVE  Sound' /\ flash[<<current, pos, "val">>] = Erased
<1> USE DEF Sound, WriteVal, local
<1>1. /\ Typed(flash) /\ current \in Store /\ pos \in Slot /\ pos \in 0..Room
      /\ Valid(flash, current) /\ Layout(flash, current, pos)
      /\ flash[<<current, pos, "val">>] = Erased
  BY KvAssumption DEF LocalOK, CurrentOK, Slot
<1>2. Programs(flash, flash', <<current, pos, "val">>, call.val)
  BY DEF flash_program, Programs
<1>3. pos \in 1..pos /\ pos \in Nat /\ pos <= pos /\ pos + 1 \in Nat
  BY <1>1, KvAssumption DEF Slot
<1>4. flash[<<current, pos, "hdr">>] # Erased
  BY <1>1, <1>3 DEF Layout
<1>5. ChangesSlot(flash, flash', current, pos)
  BY <1>1, <1>2, <1>4, ProgramVal
<1>6. Layout(flash', current, pos)
  BY <1>1, <1>3, <1>5, SlotChange
<1>7. /\ Typed(flash') /\ StoresOK' /\ Chosen(flash', current)
      /\ StoreInit(flash', current) = pos + 1
  BY <1>1, <1>5, <1>6, SlotSound DEF HalfWritten
<1>8. LocalOK'
  BY <1>3, <1>7 DEF LocalOK
<1>9. CurrentOK'
  BY <1>7 DEF CurrentOK
<1>10. HeaderOK'
  BY DEF HeaderOK
<1> QED
  BY <1>1, <1>7, <1>8, <1>9, <1>10

LEMMA InvalidateSound ==
  ASSUME Sound, Invalidate
  PROVE  /\ Sound'
         /\ \/ UNCHANGED flash
            \/ \E i \in Slot : /\ flash[<<current, i, "hdr">>] = "start"
                             /\ Programs(flash, flash', <<current, i, "hdr">>, "deleted")
         /\ current \in Store
<1> USE DEF Sound, Invalidate, local
<1>1. /\ Typed(flash) /\ current \in Store /\ Chosen(flash, current)
      /\ pos = StoreInit(flash, current)
  BY DEF LocalOK, CurrentOK, HalfWritten
<1>2. CASE End /\ UNCHANGED flash
  <2>1. LocalOK'
    BY <1>2 DEF LocalOK, End, Store
  <2>2. StoresOK' /\ CurrentOK' /\ HeaderOK'
    BY <1>2 DEF StoresOK, CurrentOK, HeaderOK, HalfWritten, End
  <2> QED
    BY <1>1, <1>2, <2>1, <2>2
<1>3. ASSUME NEW i \in Slot, flash[<<current, i, "hdr">>] = "start",
             flash_program(<<current, i, "hdr">>, "deleted"),
             UNCHANGED <<pc, call, local>>
      PROVE  Sound' /\ Programs(flash, flash', <<current, i, "hdr">>, "deleted")
  <2>1. PICK n \in 0..Room : Layout(flash, current, n)
    BY <1>1 DEF StoresOK
  <2>2. \A m : Layout(flash, current, m) => i <= m /\ m # 0
    <3> SUFFICES ASSUME NEW m, Layout(flash, current, m) PROVE i <= m /\ m # 0
      OBVIOUS
    <3>1. ~ (i > m)
      BY <1>3, KvAssumption DEF Layout
    <3> QED
      BY <3>1, KvAssumption DEF Layout, Slot
  <2>3. Valid(flash, current)
    <3> SUFFICES ASSUME ~Valid(flash, current) PROVE FALSE
      OBVIOUS
    <3>1. current = 1
      BY <1>1 DEF StoresOK, Store
    <3>2. Valid(flash, 2)
      BY <2>2, <3>1 DEF StoresOK
    <3>3. ~Magic(flash, 1)
      BY <3>1, <3>2 DEF StoresOK, HalfWritten
    <3>4. kv_store_get_seq(flash, 2) < kv_store_get_seq(flash, 1)
      BY <1>1, <3>1, <3>2 DEF Chosen
    <3>5. kv_store_get_seq(flash, 1) = 0 /\ kv_store_get_seq(flash, 2) \in Nat
      BY <1>1, <3>2, <3>3, ValidIs DEF Store
    <3> QED
      BY <3>4, <3>5
  <2>4. Programs(flash, flash', <<current, i, "hdr">>, "deleted")
    BY <1>3 DEF flash_program, Programs
  <2>5. ChangesSlot(flash, flash', current, i)
    BY <1>1, <2>4, ProgramHdr
  <2>6. n \in Nat /\ i <= n
    BY <2>1, <2>2, KvAssumption
  <2>7. Layout(flash', current, n)
    BY <1>1, <2>1, <2>5, <2>6, SlotChange
  <2>8. /\ Typed(flash') /\ StoresOK' /\ Chosen(flash', current)
        /\ StoreInit(flash', current) = n + 1
    BY <1>3, <2>3, <2>5, <2>7, SlotSound DEF HalfWritten
  <2>9. pos = n + 1
    BY <1>1, <2>1, <2>3, PosIs
  <2>10. LocalOK'
    BY <1>3, <2>8 DEF LocalOK
  <2>11. CurrentOK'
    BY <1>3, <2>8, <2>9 DEF CurrentOK
  <2>12. HeaderOK'
    BY <1>3 DEF HeaderOK
  <2> QED
    BY <2>4, <2>8, <2>10, <2>11, <2>12
<1>4. \/ End /\ UNCHANGED flash
      \/ \E i \in Slot : /\ flash[<<current, i, "hdr">>] = "start"
                       /\ flash_program(<<current, i, "hdr">>, "deleted")
                       /\ UNCHANGED <<pc, call, local>>
  BY DEF Records
<1> QED
  BY <1>1, <1>2, <1>3, <1>4

LEMMA EraseFirstSound ==
  ASSUME Sound, EraseFirst
  PROVE  Sound'
<1> USE DEF Sound, EraseFirst, ram, local
<1>1. Typed(flash) /\ 1 \in Store /\ 2 \in Store
  BY DEF LocalOK, Store
<1>2. /\ Typed(flash')
      /\ SameHeader(flash, flash', 2) /\ SameRecords(flash, flash', 2)
      /\ ~Magic(flash', 1) /\ ~Valid(flash', 1)
      /\ Layout(flash', 1, 0)
  BY <1>1, EraseStore DEF flash_erase
<1>3. Valid(flash', 2) <=> Valid(flash, 2)
  BY <1>2, SameHeaderReads
<1>4. PICK n \in 0..Room : Layout(flash, 2, n)
  BY <1>1 DEF StoresOK
<1>5. Layout(flash', 2, n) /\ 0 \in 0..Room
  BY <1>2, <1>4, SameRecordsLayout, KvAssumption
<1>6. LocalOK'
  BY <1>2 DEF LocalOK
<1>7. StoresOK'
  <2>1. \A s \in Store : \E m \in 0..Room : Layout(flash', s, m)
    BY <1>2, <1>5 DEF Store
  <2> QED
    BY <1>2, <1>3, <2>1 DEF StoresOK
<1>8. CurrentOK' /\ HeaderOK'
  BY <1>2 DEF CurrentOK, HeaderOK
<1> QED
  BY <1>6, <1>7, <1>8

(* What a start finds, unless the header of a copy in the first store is   *)
(* half written.                                                           *)
LEMMA LoadSound ==
  ASSUME NEW f, Typed(f), \A s \in Store : \E n \in 0..Room : Layout(f, s, n),
         f = flash', ~Valid(f, 1) /\ Valid(f, 2) => ~Magic(f, 1),
         ~Valid(f, 1) /\ ~Valid(f, 2) => Layout(f, 1, 0),
         Load(f), End
  PROVE  Sound'
<1> USE DEF End
<1>1. /\ current' = IF ~Valid(f, 2) \/ kv_store_get_seq(f, 2) < kv_store_get_seq(f, 1)
                      THEN 1 ELSE 2
      /\ pos' = StoreInit(f, current')
  BY DEF Load, kv_init
<1>2. current' \in Store /\ Chosen(f, current')
  BY <1>1 DEF Chosen, Store
<1>3. pos' \in Nat
  <2>1. PICK n \in 0..Room : Layout(f, current', n)
    BY <1>2
  <2> QED
    BY <1>1, <2>1, PosIs, KvAssumption
<1>4. LocalOK'
  BY <1>2, <1>3 DEF LocalOK, Store
<1>5. StoresOK'
  BY <1>1 DEF StoresOK
<1>6. CurrentOK' /\ HeaderOK'
  BY <1>1, <1>2 DEF CurrentOK, HeaderOK
<1> QED
  BY <1>4, <1>5, <1>6 DEF Sound

LEMMA EraseSecondSound ==
  ASSUME Sound, EraseSecond
  PROVE  Sound'
<1> USE DEF Sound, EraseSecond
<1>1. Typed(flash) /\ 1 \in Store /\ 2 \in Store /\ Layout(flash, 1, 0)
  BY DEF LocalOK, CurrentOK, Store
<1>2. /\ Typed(flash')
      /\ SameHeader(flash, flash', 1) /\ SameRecords(flash, flash', 1)
      /\ ~Valid(flash', 2) /\ Layout(flash', 2, 0)
  BY <1>1, EraseStore DEF flash_erase
<1>3. Layout(flash', 1, 0) /\ 0 \in 0..Room
  BY <1>1, <1>2, SameRecordsLayout, KvAssumption
<1>4. \A s \in Store : \E n \in 0..Room : Layout(flash', s, n)
  BY <1>2, <1>3 DEF Store
<1>5. Load(flash') /\ End
  BY DEF flash_erase
<1> QED
  BY <1>2, <1>3, <1>4, <1>5, LoadSound

LEMMA RestartSound ==
  ASSUME Sound, Restart, ~void'
  PROVE  Sound'
<1> USE DEF Sound, Restart
<1>1. Typed(flash') /\ (\A s \in Store : \E n \in 0..Room : Layout(flash', s, n))
  BY DEF LocalOK, StoresOK
<1>2. /\ ~Valid(flash', 1) /\ Valid(flash', 2) => ~Magic(flash', 1)
      /\ ~Valid(flash', 1) /\ ~Valid(flash', 2) => Layout(flash', 1, 0)
  BY DEF StoresOK, HalfWritten
<1>3. Load(flash') /\ End
  OBVIOUS
<1> QED
  BY <1>1, <1>2, <1>3, LoadSound

-----------------------------------------------------------------------------
LEMMA NextSound ==
  ASSUME IInv, [Next]_vars
  PROVE  IInv'
<1> SUFFICES ASSUME ~void' PROVE Sound'
  BY DEF IInv
<1>1. CASE UNCHANGED vars
  <2>1. Sound
    BY <1>1 DEF IInv, vars
  <2> QED
    BY <1>1, <2>1 DEF vars, ram, local, Sound, LocalOK, StoresOK, CurrentOK, HeaderOK,
       HalfWritten
<1>2. CASE Next
  <2> Sound
    BY <1>2 DEF IInv, Next
  <2>1. CASE \E k \in Key : kv_delete(k)
    BY <2>1, DeleteSound
  <2>2. CASE \E k \in Key, v \in Val : kv_set_data(k, v)
    BY <2>2, SetSound
  <2>3. CASE kv_copy_valid
    BY <2>3, CopyCallSound
  <2>4. CASE kv_erase
    BY <2>4, EraseCallSound
  <2>5. CASE Reinit
    BY <2>5, ReinitSound
  <2>6. CASE Copy
    BY <2>6, CopySound
  <2>7. CASE CopyEnds
    BY <2>7, CopyEndsSound
  <2>8. CASE HeaderMagic
    BY <2>8, HeaderMagicSound
  <2>9. CASE HeaderSeq
    BY <2>9, HeaderSeqSound
  <2>10. CASE WriteHdr
    BY <2>10, WriteHdrSound
  <2>11. CASE WriteKey
    BY <2>11, WriteKeySound
  <2>12. CASE WriteVal
    BY <2>12, WriteValSound
  <2>13. CASE Invalidate
    BY <2>13, InvalidateSound
  <2>14. CASE EraseFirst
    BY <2>14, EraseFirstSound
  <2>15. CASE EraseSecond
    BY <2>15, EraseSecondSound
  <2>16. CASE Restart
    BY <2>16, RestartSound
  <2> QED
    BY <1>2, <2>1, <2>2, <2>3, <2>4, <2>5, <2>6, <2>7, <2>8, <2>9, <2>10, <2>11,
       <2>12, <2>13, <2>14, <2>15, <2>16 DEF Next, User, Write
<1> QED
  BY <1>1, <1>2

LEMMA AlwaysSound == Spec => []IInv
<1>1. Init => IInv
  BY InitSound DEF IInv
<1> QED
  BY <1>1, NextSound, PTL DEF Spec

(* After any number of failures, between calls and before records are      *)
(* invalidated, a restart would find the store in use and its first free   *)
(* slot (kvlog.c:358-384).                                                 *)
THEOREM RestartFinds == Spec => []RestartFindsCurrent
<1>1. IInv => RestartFindsCurrent
  <2> SUFFICES ASSUME Sound, pc \in {"idle", "invalidate"}
               PROVE  kv_init(flash) = [current |-> current, pos |-> pos]
    BY DEF IInv, RestartFindsCurrent
  <2>1. Chosen(flash, current) /\ pos = StoreInit(flash, current)
    BY DEF Sound, CurrentOK, HalfWritten
  <2> QED
    BY <2>1 DEF kv_init, Chosen
<1> QED
  BY <1>1, AlwaysSound, PTL

-----------------------------------------------------------------------------
(* A write that the flash can do.                                          *)
Programmable(f, g) ==
  \A w \in Word : \/ g[w] \in {f[w], Erased}
                  \/ f[w] = Erased
                  \/ f[w] = "start" /\ g[w] = "deleted"

LEMMA ProgramOne ==
  ASSUME NEW f, Typed(f), NEW w \in Word, NEW v, NEW g, Programs(f, g, w, v),
         \/ f[w] \in {Erased, v}
         \/ f[w] = "start" /\ v = "deleted"
  PROVE  Programmable(f, g)
<1>1. g = [u \in Word |-> IF u = w THEN v ELSE f[u]]
  BY ProgramIs
<1> QED
  BY <1>1 DEF Programmable

LEMMA EraseProgrammable ==
  ASSUME NEW s, flash_erase(s)
  PROVE  Programmable(flash, flash')
  BY DEF flash_erase, Programmable

LEMMA CopyProgrammable ==
  ASSUME Sound, Copy
  PROVE  Programmable(flash, flash')
<1>1. CASE flash[<<current, spos, "hdr">>] = "start"
  <2>1. /\ dst \in Store /\ dpos \in Slot
        /\ Layout(flash, dst, dpos - 1) /\ ChangesSlot(flash, flash', dst, dpos)
    BY <1>1, CopyWrite
  <2>2. dpos > dpos - 1
    BY <2>1, KvAssumption DEF Slot
  <2>3. \A x \in {"hdr", "key", "val"} : flash[<<dst, dpos, x>>] = Erased
    BY <2>1, <2>2 DEF Layout
  <2>4. ASSUME NEW w \in Word PROVE flash'[w] = flash[w] \/ flash[w] = Erased
    <3>1. CASE w[1] = dst /\ w[2] = dpos
      <4>1. dpos # 0
        BY <2>1, KvAssumption DEF Slot
      <4>2. \E x \in {"hdr", "key", "val"} : w = <<dst, dpos, x>>
        BY <3>1, <4>1, Words
      <4> QED
        BY <2>3, <4>2
    <3> QED
      BY <2>1, <3>1 DEF ChangesSlot
  <2> QED
    BY <2>4 DEF Programmable
<1>2. CASE flash[<<current, spos, "hdr">>] # "start"
  BY <1>2 DEF Copy, Programmable
<1> QED
  BY <1>1, <1>2

LEMMA HeaderMagicProgrammable ==
  ASSUME Sound, HeaderMagic
  PROVE  Programmable(flash, flash')
<1>1. Typed(flash) /\ dst \in Store
  BY DEF Sound, LocalOK
<1>2. /\ <<dst, 0, "magic">> \in Word
      /\ flash[<<dst, 0, "magic">>] \in {Erased, "magic"}
  BY <1>1, Words DEF Typed
<1>3. Programs(flash, flash', <<dst, 0, "magic">>, "magic")
  BY DEF HeaderMagic, flash_program, Programs
<1> QED
  BY <1>1, <1>2, <1>3, ProgramOne

LEMMA HeaderSeqProgrammable ==
  ASSUME Sound, HeaderSeq
  PROVE  Programmable(flash, flash')
<1>1. /\ Typed(flash) /\ dst \in Store /\ current \in Store
      /\ dst # current => ~Valid(flash, dst)
      /\ dst = current => pos = 0 /\ pos = StoreInit(flash, current)
  BY DEF Sound, LocalOK, CurrentOK, HeaderOK, HeaderSeq
<1>2. ~Valid(flash, dst)
  <2>1. PICK n \in 0..Room : Layout(flash, current, n)
    BY <1>1 DEF Sound, StoresOK
  <2> QED
    BY <1>1, <2>1, PosIs, KvAssumption
<1>3. <<dst, 0, "seq">> \in Word /\ flash[<<dst, 0, "seq">>] = Erased
  BY <1>1, <1>2, Words, ValidIs
<1>4. Programs(flash, flash', <<dst, 0, "seq">>,
               IF dst = current THEN 1 ELSE kv_store_get_seq(flash, current) + 1)
  BY DEF HeaderSeq, flash_program, Programs
<1> QED
  BY <1>1, <1>3, <1>4, ProgramOne

LEMMA RecordProgrammable ==
  ASSUME Sound, WriteHdr \/ WriteKey \/ WriteVal \/ Invalidate
  PROVE  Programmable(flash, flash')
<1>1. Typed(flash) /\ current \in Store
  BY DEF Sound, LocalOK
<1>2. CASE WriteHdr
  <2>1. Layout(flash, current, pos - 1) /\ pos \in Slot /\ pos > pos - 1
    BY <1>2, WriteHdrSound, KvAssumption DEF Slot
  <2>2. <<current, pos, "hdr">> \in Word /\ flash[<<current, pos, "hdr">>] = Erased
    BY <1>1, <2>1, Words DEF Layout
  <2>3. Programs(flash, flash', <<current, pos, "hdr">>, "start")
    BY <1>2 DEF WriteHdr, flash_program, Programs
  <2> QED
    BY <1>1, <2>2, <2>3, ProgramOne
<1>3. CASE WriteKey
  <2>1. <<current, pos, "key">> \in Word /\ flash[<<current, pos, "key">>] = Erased
    BY <1>1, <1>3, WriteKeySound, Words DEF WriteKey, Sound, CurrentOK
  <2>2. PICK k \in call.keys : Programs(flash, flash', <<current, pos, "key">>, k)
    BY <1>3 DEF WriteKey, flash_program, Programs
  <2> QED
    BY <1>1, <2>1, <2>2, ProgramOne
<1>4. CASE WriteVal
  <2>1. <<current, pos, "val">> \in Word /\ flash[<<current, pos, "val">>] = Erased
    BY <1>1, <1>4, WriteValSound, Words DEF WriteVal, Sound, CurrentOK
  <2>2. Programs(flash, flash', <<current, pos, "val">>, call.val)
    BY <1>4 DEF WriteVal, flash_program, Programs
  <2> QED
    BY <1>1, <2>1, <2>2, ProgramOne
<1>5. CASE Invalidate
  <2>1. CASE UNCHANGED flash
    BY <2>1 DEF Programmable
  <2>2. ASSUME NEW i \in Slot, flash[<<current, i, "hdr">>] = "start",
               Programs(flash, flash', <<current, i, "hdr">>, "deleted")
        PROVE  Programmable(flash, flash')
    <3>1. <<current, i, "hdr">> \in Word
      BY <1>1, Words
    <3> QED
      BY <1>1, <2>2, <3>1, ProgramOne
  <2> QED
    BY <1>5, <2>1, <2>2, InvalidateSound
<1> QED
  BY <1>2, <1>3, <1>4, <1>5

(* However often the power fails, no word is programmed that is not        *)
(* erased, except for the start byte of a record, which is cleared: what   *)
(* the flash cannot do is never asked of it (kvlog.c:296-312, 490-512).    *)
THEOREM NeverProgrammedTwice == Spec => ProgramsErased
<1>1. ASSUME IInv, [Next]_vars PROVE Programmable(flash, flash') \/ UNCHANGED vars
  <2>1. CASE UNCHANGED vars
    BY <2>1
  <2>2. CASE Next
    <3> Sound
      BY <1>1, <2>2 DEF IInv, Next
    <3>1. CASE User \/ CopyEnds \/ Restart
      <4>1. UNCHANGED flash
        BY <3>1 DEF User, kv_delete, kv_set_data, kv_copy_valid, kv_erase, CopyEnds, Restart
      <4> QED
        BY <4>1 DEF Programmable
    <3>2. CASE Reinit \/ EraseFirst \/ EraseSecond
      BY <3>2, EraseProgrammable DEF Reinit, EraseFirst, EraseSecond
    <3> QED
      BY <2>2, <3>1, <3>2, CopyProgrammable, HeaderMagicProgrammable,
         HeaderSeqProgrammable, RecordProgrammable DEF Next, Write
  <2> QED
    BY <1>1, <2>1, <2>2
<1>2. IInv /\ [Next]_vars =>
        [\A w \in Word :
           flash'[w] \in {flash[w], Erased} \/ flash[w] = Erased
             \/ (flash[w] = "start" /\ flash'[w] = "deleted")]_vars
  BY <1>1 DEF Programmable
<1> QED
  BY <1>2, AlwaysSound, PTL DEF Spec, ProgramsErased

-----------------------------------------------------------------------------
(* The invariant under which the log implements the map of KvMap.          *)

(* The value of the first of some records, and the values of the others.   *)
FirstOf(f, s, R) == IF R = {} THEN NULL ELSE f[<<s, Min(R), "val">>]
RestOf(f, s, R) ==
  {f[<<s, i, "val">>] : i \in {j \in R : \E first \in R : first < j}}

Before(f, s, k, n) == {i \in Records(f, s, k) : i < n}

(* Valid records before the n-th that are not the first of any key: cut    *)
(* off, or spared when they should have been invalidated.                  *)
Extra(f, s, n) ==
  {i \in Slot : /\ i < n
                /\ f[<<s, i, "hdr">>] = "start"
                /\ \A k \in Key : f[<<s, i, "key">>] = k =>
                     \E j \in Records(f, s, k) : j < i}

DataOK ==
  \A s \in Store, i \in Slot : /\ flash[<<s, i, "key">>] \in Key \cup {Erased}
                               /\ flash[<<s, i, "val">>] \in Val \cup {Erased}

SetCall == \E k \in Key, v \in Val : call = [keys |-> {k}, val |-> v]
DeleteCall == \E k \in Key : call = [keys |-> {k}, val |-> NULL]

CallOK ==
  /\ pc = "idle" => call = NULL
  /\ pc \in {"erase", "copy", "magic", "seq"} => call = NULL \/ SetCall
  /\ pc \in {"hdr", "key", "val"} => SetCall
  /\ pc = "invalidate" => SetCall \/ DeleteCall
  /\ pc \in {"erase1", "erase2"} => call = [keys |-> Key, val |-> NULL]

(* The slot of the record that the call writes, and has written.           *)
NewSlot == IF pc = "invalidate" THEN pos - 1 ELSE pos

(* Of the records the call is to invalidate, the new one is not.           *)
NewOK ==
  /\ pc \in {"magic", "seq"} /\ dst = current => ppos = 0
  /\ pc \in {"hdr", "key", "val"} => ppos = pos \/ (ppos = 0 /\ pos = 1)
  /\ pc \in {"key", "val"} => flash[<<current, pos, "hdr">>] = "start"
  /\ pc = "val" => flash[<<current, pos, "key">>] \in call.keys
  /\ pc = "invalidate" /\ DeleteCall => ppos = pos
  /\ pc = "invalidate" /\ SetCall =>
       /\ Valid(flash, current) /\ NewSlot \in Slot
       /\ ppos = NewSlot \/ (ppos = 0 /\ NewSlot = 1)
       /\ flash[<<current, NewSlot, "hdr">>] = "start"
       /\ flash[<<current, NewSlot, "key">>] \in call.keys
       /\ flash[<<current, NewSlot, "val">>] = call.val

(* Each failure leaves one such record behind at most.                     *)
New(s) == IF s = current /\ pc \in {"key", "val", "invalidate"} /\ SetCall
            THEN {NewSlot} ELSE {}

ExtraOK ==
  \A s \in Store : Valid(flash, s) =>
    Cardinality(Extra(flash, s, Room + 1) \ New(s)) <= failures

(* What is copied so far: the copy reads the same.                         *)
Copied == IF pc = "copy" THEN spos ELSE Room + 1

Alike(f, s, t, k, n) ==
  LET R == Before(f, s, k, n)
      D == Records(f, t, k)
  IN  /\ R = {} <=> D = {}
      /\ FirstOf(f, s, R) = FirstOf(f, t, D)
      /\ RestOf(f, s, R) = RestOf(f, t, D)

Fewer(f, s, t, n) ==
  Cardinality(Extra(f, t, Room + 1)) <= Cardinality(Extra(f, s, n))

CopyOK ==
  pc \in {"copy", "magic", "seq"} /\ dst # current =>
    /\ \A k \in Key : Alike(flash, current, dst, k, Copied)
    /\ Fewer(flash, current, dst, Copied)
    /\ Copied \in 1..(Room + 1)
    /\ dpos = Copied => \A i \in Slot : i < Copied => flash[<<current, i, "hdr">>] = "start"

DataSound == DataOK /\ CallOK /\ NewOK /\ ExtraOK /\ CopyOK

-----------------------------------------------------------------------------
(* What a read finds.                                                      *)

Reads(f, s, k) == IF Valid(f, s) THEN Records(f, s, k) ELSE {}

Mem == [k \in Key |-> kv_get_val(flash, current, k)]
Limbo == [k \in Key |-> Hidden(k)]

LEMMA ReadsIs ==
  /\ \A f, s, k : kv_get_val(f, s, k) = FirstOf(f, s, Reads(f, s, k))
  /\ \A k : Hidden(k) = RestOf(flash, current, Reads(flash, current, k))
  /\ \A k : Hidden(k)' = RestOf(flash', current', Reads(flash', current', k))
  BY DEF kv_get_val, Hidden, FirstOf, RestOf, Reads

LEMMA MinIs ==
  ASSUME NEW R \in SUBSET Slot, R # {}
  PROVE  Min(R) \in R /\ \A j \in R : Min(R) <= j
<1>1. R \in SUBSET Nat
  BY KvAssumption DEF Slot
<1>2. \E m \in R : \A j \in R : m <= j
  BY <1>1, LeastMember
<1> QED
  BY <1>2 DEF Min

LEMMA MinIsTheLeast ==
  ASSUME NEW R \in SUBSET Slot, NEW i \in R, \A j \in R : i <= j
  PROVE  Min(R) = i
<1>1. Min(R) \in R /\ Min(R) <= i /\ i <= Min(R)
  BY MinIs
<1>2. Min(R) \in Slot /\ i \in Slot
  BY <1>1
<1>3. Min(R) \in Nat /\ i \in Nat
  BY <1>2, KvAssumption DEF Slot
<1> QED
  BY <1>1, <1>3

LEMMA SameVals ==
  ASSUME NEW f, NEW g, NEW s, NEW t, NEW R \in SUBSET Slot,
         \A i \in R : g[<<t, i, "val">>] = f[<<s, i, "val">>]
  PROVE  FirstOf(g, t, R) = FirstOf(f, s, R) /\ RestOf(g, t, R) = RestOf(f, s, R)
<1>1. FirstOf(g, t, R) = FirstOf(f, s, R)
  BY MinIs DEF FirstOf
<1> QED
  BY <1>1 DEF RestOf

(* A record behind the others.                                             *)
AddsLast(f, s, R, n) ==
  /\ R = {} => /\ FirstOf(f, s, R \cup {n}) = f[<<s, n, "val">>]
               /\ RestOf(f, s, R \cup {n}) = {}
  /\ R # {} => /\ FirstOf(f, s, R \cup {n}) = FirstOf(f, s, R)
               /\ RestOf(f, s, R \cup {n}) = RestOf(f, s, R) \cup {f[<<s, n, "val">>]}

LEMMA AddLast ==
  ASSUME NEW f, NEW s, NEW R \in SUBSET Slot, NEW n \in Slot, \A i \in R : i < n
  PROVE  AddsLast(f, s, R, n)
<1> USE DEF AddsLast
<1>1. \A i \in R \cup {n} : i \in Nat
  BY KvAssumption DEF Slot
<1>2. CASE R = {}
  <2>1. R \cup {n} = {n} /\ n \in Nat
    BY <1>1, <1>2
  <2>2. Min(R \cup {n}) = n
    BY <2>1, MinIsTheLeast
  <2>3. FirstOf(f, s, R \cup {n}) = f[<<s, n, "val">>]
    BY <2>1, <2>2 DEF FirstOf
  <2>4. {j \in R \cup {n} : \E first \in R \cup {n} : first < j} = {}
    BY <2>1
  <2>5. RestOf(f, s, R \cup {n}) = {}
    BY <2>4 DEF RestOf
  <2> QED
    BY <1>2, <2>3, <2>5
<1>3. CASE R # {}
  <2>1. Min(R) \in R /\ \A j \in R : Min(R) <= j
    BY <1>3, MinIs
  <2>2. \A j \in R \cup {n} : Min(R) <= j
    BY <1>1, <2>1
  <2>3. Min(R \cup {n}) = Min(R)
    BY <2>1, <2>2, MinIsTheLeast
  <2>4. FirstOf(f, s, R \cup {n}) = FirstOf(f, s, R)
    BY <1>3, <2>3 DEF FirstOf
  <2>5. {j \in R \cup {n} : \E first \in R \cup {n} : first < j}
          = {j \in R : \E first \in R : first < j} \cup {n}
    <3>1. ASSUME NEW j \in R
          PROVE  (\E first \in R \cup {n} : first < j) <=> (\E first \in R : first < j)
      BY <1>1, <3>1
    <3> QED
      BY <1>1, <2>1, <3>1
  <2>6. RestOf(f, s, R \cup {n}) = RestOf(f, s, R) \cup {f[<<s, n, "val">>]}
    BY <2>5 DEF RestOf
  <2> QED
    BY <1>3, <2>4, <2>6
<1> QED
  BY <1>2, <1>3

(* The first record taken away.                                            *)
LEMMA DropFirst ==
  ASSUME NEW f, NEW s, NEW R \in SUBSET Slot, NEW i \in R, \A j \in R : i <= j
  PROVE  /\ R \ {i} # {} => FirstOf(f, s, R \ {i}) \in RestOf(f, s, R)
         /\ RestOf(f, s, R \ {i}) \subseteq RestOf(f, s, R)
<1>1. \A j \in R : j \in Nat
  BY KvAssumption DEF Slot
<1>2. ASSUME R \ {i} # {} PROVE FirstOf(f, s, R \ {i}) \in RestOf(f, s, R)
  <2>1. Min(R \ {i}) \in R \ {i}
    BY <1>2, MinIs
  <2>2. i < Min(R \ {i})
    BY <1>1, <2>1
  <2> QED
    BY <1>2, <2>1, <2>2 DEF FirstOf, RestOf
<1> QED
  BY <1>2 DEF RestOf

LEMMA SameRecordsReads ==
  ASSUME NEW f, NEW g, NEW s, SameRecords(f, g, s)
  PROVE  /\ \A k : Records(g, s, k) = Records(f, s, k)
         /\ \A k, n : Before(g, s, k, n) = Before(f, s, k, n)
         /\ \A n : Extra(g, s, n) = Extra(f, s, n)
         /\ \A R \in SUBSET Slot : /\ FirstOf(g, s, R) = FirstOf(f, s, R)
                                   /\ RestOf(g, s, R) = RestOf(f, s, R)
<1>1. \A i \in Slot : /\ g[<<s, i, "hdr">>] = f[<<s, i, "hdr">>]
                      /\ g[<<s, i, "key">>] = f[<<s, i, "key">>]
                      /\ g[<<s, i, "val">>] = f[<<s, i, "val">>]
  BY DEF SameRecords
<1>2. \A k : Records(g, s, k) = Records(f, s, k)
  BY <1>1 DEF Records
<1>3. \A n : Extra(g, s, n) = Extra(f, s, n)
  BY <1>1, <1>2 DEF Extra
<1>4. \A R \in SUBSET Slot : /\ FirstOf(g, s, R) = FirstOf(f, s, R)
                             /\ RestOf(g, s, R) = RestOf(f, s, R)
  <2> SUFFICES ASSUME NEW R \in SUBSET Slot
               PROVE  /\ FirstOf(g, s, R) = FirstOf(f, s, R)
                      /\ RestOf(g, s, R) = RestOf(f, s, R)
    OBVIOUS
  <2>1. \A i \in R : g[<<s, i, "val">>] = f[<<s, i, "val">>]
    BY <1>1
  <2> QED
    BY <2>1, SameVals
<1> QED
  BY <1>2, <1>3, <1>4 DEF Before

(* Reads are the same while the current store and its records are.         *)
LEMMA ReadsUnchanged ==
  ASSUME current' = current, Valid(flash', current) <=> Valid(flash, current),
         SameRecords(flash, flash', current)
  PROVE  UNCHANGED <<Mem, Limbo>>
<1>1. \A k : Reads(flash', current, k) = Reads(flash, current, k)
  BY SameRecordsReads DEF Reads
<1>2. \A k : Reads(flash, current, k) \in SUBSET Slot
  BY DEF Reads, Records
<1>3. \A k : /\ kv_get_val(flash', current', k) = kv_get_val(flash, current, k)
             /\ Hidden(k)' = Hidden(k)
  BY <1>1, <1>2, ReadsIs, SameRecordsReads
<1> QED
  BY <1>3 DEF Mem, Limbo

-----------------------------------------------------------------------------
(* Counting records.                                                       *)

LEMMA SlotsCounted ==
  /\ IsFiniteSet(Slot) /\ Cardinality(Slot) = Room
  /\ \A X \in SUBSET Slot : IsFiniteSet(X) /\ Cardinality(X) \in Nat
  /\ \A X \in SUBSET Slot : \A Y \in SUBSET X : Cardinality(Y) <= Cardinality(X)
<1>1. IsFiniteSet(Slot) /\ Cardinality(Slot) = Room
  <2>1. 1 \in Int /\ Room \in Int /\ 1 <= Room /\ Room - 1 + 1 = Room
    BY KvAssumption
  <2>2. IsFiniteSet(1..Room) /\ Cardinality(1..Room) = Room - 1 + 1
    BY <2>1, FS_Interval
  <2> QED
    BY <2>1, <2>2 DEF Slot
<1>2. \A X \in SUBSET Slot : IsFiniteSet(X)
  BY <1>1, FS_Subset
<1>3. \A X \in SUBSET Slot : Cardinality(X) \in Nat
  BY <1>2, FS_CardinalityType
<1>4. \A X \in SUBSET Slot : \A Y \in SUBSET X : Cardinality(Y) <= Cardinality(X)
  BY <1>2, FS_Subset
<1> QED
  BY <1>1, <1>2, <1>3, <1>4

-----------------------------------------------------------------------------
(* The steps of the map.                                                   *)

MapStep == [Map!Next]_(Map!vars)

LEMMA MapStands ==
  ASSUME ~void, UNCHANGED <<Mem, Limbo, call, failures>>, void' = void \/ void' = TRUE
  PROVE  MapStep
<1>1. CASE void' = void
  BY <1>1 DEF MapStep, Map!vars, Mem, Limbo
<1>2. CASE void' = TRUE
  BY <1>2 DEF MapStep, Map!Next, Map!Tear
<1> QED
  BY <1>1, <1>2

LEMMA MapCalls ==
  ASSUME ~void, call = NULL, UNCHANGED <<Mem, Limbo, failures, void>>,
         \/ \E k \in Key, v \in Val \cup {NULL} : call' = [keys |-> {k}, val |-> v]
         \/ call' = [keys |-> Key, val |-> NULL]
  PROVE  MapStep
<1>1. call' \in Map!Calls
  BY DEF Map!Calls
<1>2. Map!Call(call')
  BY DEF Map!Call, Mem, Limbo
<1> QED
  BY <1>1, <1>2 DEF MapStep, Map!Next

(* What a call may do to a key.                                            *)
MayRead(k) ==
  /\ \/ Mem'[k] \in {Mem[k], call.val} \cup Limbo[k]
     \/ Mem[k] = NULL /\ call.val # NULL /\ Mem'[k] = Erased
  /\ Limbo'[k] \subseteq Limbo[k] \cup {call.val, Erased}

SameRead(k) == Mem'[k] = Mem[k] /\ Limbo'[k] = Limbo[k]

LEMMA MapEffects ==
  ASSUME ~void, call # NULL, call.keys \subseteq Key, UNCHANGED <<call, failures, void>>,
         \A k \in call.keys : MayRead(k), \A k \in Key \ call.keys : SameRead(k)
  PROVE  MapStep
<1>1. \A k \in call.keys : Map!Surface(k)
  BY DEF MayRead, Map!Surface, Mem, Limbo
<1>2. Map!Effect
  BY <1>1 DEF MayRead, SameRead, Map!Effect, Map!Others, Mem, Limbo
<1> QED
  BY <1>2 DEF MapStep, Map!Next

LEMMA MapReturns ==
  ASSUME ~void, call # NULL, call.keys \subseteq Key, UNCHANGED <<failures, void>>,
         call' = NULL,
         \A k \in call.keys : Mem'[k] = call.val /\ Limbo'[k] = {},
         \A k \in Key \ call.keys : SameRead(k)
  PROVE  MapStep
<1>1. Map!Return
  BY DEF SameRead, Map!Return, Map!Others, Mem, Limbo
<1> QED
  BY <1>1 DEF MapStep, Map!Next

LEMMA MapRefuses ==
  ASSUME ~void, call # NULL, call.val # NULL, call' = NULL,
         UNCHANGED <<Mem, Limbo, failures, void>>,
         Cardinality({k \in Key : Mem[k] # NULL}) + failures >= Room
  PROVE  MapStep
<1>1. {k \in Key : Mem[k] # NULL}
        = {k \in Key : [j \in Key |-> kv_get_val(flash, current, j)][k] # NULL}
  BY DEF Mem
<1>2. Map!Refuse
  BY <1>1 DEF Map!Refuse, Map!Cardinality, Cardinality, Mem, Limbo
<1> QED
  BY <1>2 DEF MapStep, Map!Next

LEMMA MapFails ==
  ASSUME ~void, failures' = failures + 1, call' = NULL, UNCHANGED void,
         \/ UNCHANGED <<Mem, Limbo>>
         \/ call # NULL /\ call.keys = Key /\ call.val = NULL
  PROVE  MapStep
<1>1. Map!Fail
  BY DEF Map!Fail, Mem, Limbo
<1> QED
  BY <1>1 DEF MapStep, Map!Next

-----------------------------------------------------------------------------
(* Every action keeps what the reads rest on, and is a step of the map.    *)

LEMMA ExtraIs ==
  /\ \A f, s, n : Extra(f, s, n) \in SUBSET Slot
  /\ \A f, s, n : IsFiniteSet(Extra(f, s, n)) /\ Cardinality(Extra(f, s, n)) \in Nat
  /\ \A f, s, n, X : /\ IsFiniteSet(Extra(f, s, n) \ X)
                     /\ Cardinality(Extra(f, s, n) \ X) \in Nat
                     /\ Cardinality(Extra(f, s, n) \ X) <= Cardinality(Extra(f, s, n))
<1>1. \A f, s, n : Extra(f, s, n) \in SUBSET Slot
  BY DEF Extra
<1>2. \A f, s, n, X : Extra(f, s, n) \ X \in SUBSET Slot
  BY <1>1
<1>3. \A f, s, n, X : Extra(f, s, n) \ X \in SUBSET Extra(f, s, n)
  OBVIOUS
<1> QED
  BY <1>1, <1>2, <1>3, SlotsCounted

(* The stores, while no record is in progress before nor after a step that *)
(* leaves the current store alone.                                         *)
LEMMA ExtraStays ==
  ASSUME Sound, DataSound, UNCHANGED <<current, failures>>,
         failures \in Nat,
         ~(pc \in {"key", "val", "invalidate"}),
         \A s \in Store : Valid(flash', s) => Valid(flash, s) /\ SameRecords(flash, flash', s)
  PROVE  ExtraOK'
<1>1. \A s \in Store : New(s) = {}
  BY DEF New
<1>2. ASSUME NEW s \in Store, Valid(flash', s)
      PROVE  Cardinality(Extra(flash', s, Room + 1) \ New(s)') <= failures
  <2>1. Extra(flash', s, Room + 1) = Extra(flash, s, Room + 1)
    BY <1>2, SameRecordsReads
  <2>2. Extra(flash, s, Room + 1) \ {} = Extra(flash, s, Room + 1)
    OBVIOUS
  <2>3. Cardinality(Extra(flash, s, Room + 1)) <= failures
    BY <1>1, <1>2, <2>2 DEF DataSound, ExtraOK
  <2> QED
    BY <2>1, <2>3, ExtraIs
<1> QED
  BY <1>2 DEF ExtraOK

LEMMA SameFlash == \A s : SameHeader(flash, flash, s) /\ SameRecords(flash, flash, s)
  BY DEF SameHeader, SameRecords

LEMMA SetKeeps ==
  ASSUME Sound, DataSound, failures \in Nat, ~void,
         NEW k \in Key, NEW v \in Val, kv_set_data(k, v)
  PROVE  DataSound' /\ MapStep
<1> USE DEF kv_set_data, Begin
<1>1. /\ pc = "idle" /\ call = NULL /\ current \in Store /\ pos \in Nat
      /\ UNCHANGED <<flash, current, pos, failures, void>>
  BY DEF DataSound, CallOK, Sound, LocalOK
<1>2. \/ pos = 0 /\ pc' = "magic" /\ dst' = current
      \/ pos \in Slot /\ pc' = "hdr" /\ dst' = current
      \/ pos > Room /\ pc' = "erase" /\ dst' = Other(current)
  BY <1>1, KvAssumption DEF Slot
<1>3. MapStep
  <2>1. UNCHANGED <<Mem, Limbo>>
    BY <1>1, SameFlash, ReadsUnchanged
  <2> QED
    BY <1>1, <2>1, MapCalls
<1>4. SetCall'
  BY DEF SetCall
<1>5. DataOK'
  BY DEF DataSound, DataOK
<1>6. CallOK'
  BY <1>2, <1>4 DEF CallOK
<1>7. NewOK'
  BY <1>1, <1>2 DEF NewOK
<1>8. ExtraOK'
  BY <1>1, SameFlash, ExtraStays
<1>9. CopyOK'
  BY <1>1, <1>2 DEF CopyOK
<1> QED
  BY <1>3, <1>5, <1>6, <1>7, <1>8, <1>9 DEF DataSound

LEMMA DeleteKeeps ==
  ASSUME Sound, DataSound, failures \in Nat, ~void, NEW k \in Key, kv_delete(k)
  PROVE  DataSound' /\ MapStep
<1> USE DEF kv_delete, Begin
<1>1. /\ pc = "idle" /\ call = NULL
      /\ UNCHANGED <<flash, current, pos, failures, void>>
  BY DEF DataSound, CallOK
<1>2. MapStep
  <2>1. UNCHANGED <<Mem, Limbo>>
    BY <1>1, SameFlash, ReadsUnchanged
  <2> QED
    BY <1>1, <2>1, MapCalls
<1>3. DeleteCall' /\ ~SetCall'
  BY KvAssumption DEF DeleteCall, SetCall
<1>4. DataOK'
  BY DEF DataSound, DataOK
<1>5. CallOK' /\ NewOK' /\ CopyOK'
  BY <1>1, <1>3 DEF CallOK, NewOK, CopyOK
<1>6. ExtraOK'
  BY <1>1, SameFlash, ExtraStays
<1> QED
  BY <1>2, <1>4, <1>5, <1>6 DEF DataSound

LEMMA CopyCallKeeps ==
  ASSUME Sound, DataSound, failures \in Nat, ~void, void \in BOOLEAN, kv_copy_valid
  PROVE  DataSound' /\ MapStep
<1> USE DEF kv_copy_valid, Begin
<1>1. /\ pc = "idle" /\ call = NULL
      /\ UNCHANGED <<flash, current, pos, failures>>
  BY DEF DataSound, CallOK
<1>2. MapStep
  <2>1. UNCHANGED <<Mem, Limbo>>
    BY <1>1, SameFlash, ReadsUnchanged
  <2>2. void' = void \/ void' = TRUE
    BY DEF Valid
  <2> QED
    BY <1>1, <2>1, <2>2, MapStands
<1>3. DataOK'
  BY DEF DataSound, DataOK
<1>4. CallOK' /\ NewOK' /\ CopyOK'
  BY <1>1 DEF CallOK, NewOK, CopyOK
<1>5. ExtraOK'
  BY <1>1, SameFlash, ExtraStays
<1> QED
  BY <1>2, <1>3, <1>4, <1>5 DEF DataSound

LEMMA EraseCallKeeps ==
  ASSUME Sound, DataSound, failures \in Nat, ~void, kv_erase
  PROVE  DataSound' /\ MapStep
<1> USE DEF kv_erase, Begin, ram
<1>1. /\ pc = "idle" /\ call = NULL
      /\ UNCHANGED <<flash, current, pos, failures, void>>
  BY DEF DataSound, CallOK
<1>2. MapStep
  <2>1. UNCHANGED <<Mem, Limbo>>
    BY <1>1, SameFlash, ReadsUnchanged
  <2> QED
    BY <1>1, <2>1, MapCalls
<1>3. DataOK'
  BY DEF DataSound, DataOK
<1>4. CallOK' /\ NewOK' /\ CopyOK'
  BY <1>1 DEF CallOK, NewOK, CopyOK
<1>5. ExtraOK'
  BY <1>1, SameFlash, ExtraStays
<1> QED
  BY <1>2, <1>3, <1>4, <1>5 DEF DataSound

(* The n-th slot, and the ones behind the last record.                     *)
ExtraAt(f, s, n) ==
  /\ f[<<s, n, "hdr">>] = "start"
  /\ \A k \in Key : f[<<s, n, "key">>] = k => Before(f, s, k, n) # {}

Grows(f, s, k, n) ==
  IF n \in Records(f, s, k) THEN Before(f, s, k, n + 1) = Before(f, s, k, n) \cup {n}
                            ELSE Before(f, s, k, n + 1) = Before(f, s, k, n)

ExtraGrows(f, s, n) ==
  IF ExtraAt(f, s, n) THEN Extra(f, s, n + 1) = Extra(f, s, n) \cup {n}
                      ELSE Extra(f, s, n + 1) = Extra(f, s, n)

LEMMA OneMore ==
  ASSUME NEW f, NEW s, NEW n \in Slot
  PROVE  (\A k : Grows(f, s, k, n)) /\ ExtraGrows(f, s, n)
<1>1. \A i \in Slot : i \in Nat /\ (i < n + 1 <=> i < n \/ i = n)
  BY KvAssumption DEF Slot
<1>2. \A k : Records(f, s, k) \in SUBSET Slot
  BY DEF Records
<1>3. \A k : Grows(f, s, k, n)
  BY <1>1, <1>2 DEF Before, Grows
<1>4. \A k : Before(f, s, k, n) # {} <=> \E j \in Records(f, s, k) : j < n
  BY DEF Before
<1>5. ExtraGrows(f, s, n)
  BY <1>1, <1>4 DEF Extra, ExtraAt, ExtraGrows
<1> QED
  BY <1>3, <1>5

LEMMA NoMore ==
  ASSUME NEW f, NEW s, NEW m, Layout(f, s, m), NEW n \in Nat, m < n
  PROVE  /\ \A k : Records(f, s, k) = Before(f, s, k, n)
         /\ \A l \in Nat : m < l => Extra(f, s, l) = Extra(f, s, n)
<1>1. m \in Nat /\ \A i \in Slot : i \in Nat
  BY KvAssumption DEF Layout, Slot
<1>2. ASSUME NEW i \in Slot, f[<<s, i, "hdr">>] = "start" PROVE i <= m
  <2>1. i > m => f[<<s, i, "hdr">>] = Erased
    BY DEF Layout
  <2> QED
    BY <1>1, <1>2, <2>1, KvAssumption
<1>3. \A i \in Slot, l \in Nat : m < l /\ f[<<s, i, "hdr">>] = "start" => i < l
  BY <1>1, <1>2
<1> QED
  BY <1>3 DEF Records, Before, Extra

SameBefore(f, g, s, n) ==
  \A i \in Slot : i < n => /\ g[<<s, i, "hdr">>] = f[<<s, i, "hdr">>]
                         /\ g[<<s, i, "key">>] = f[<<s, i, "key">>]
                         /\ g[<<s, i, "val">>] = f[<<s, i, "val">>]

LEMMA SamePrefix ==
  ASSUME NEW f, NEW g, NEW s, NEW n \in Nat, SameBefore(f, g, s, n)
  PROVE  /\ \A k : /\ Before(g, s, k, n) = Before(f, s, k, n)
                   /\ FirstOf(g, s, Before(f, s, k, n)) = FirstOf(f, s, Before(f, s, k, n))
                   /\ RestOf(g, s, Before(f, s, k, n)) = RestOf(f, s, Before(f, s, k, n))
         /\ Extra(g, s, n) = Extra(f, s, n)
<1>1. \A i \in Slot : i < n => /\ g[<<s, i, "hdr">>] = f[<<s, i, "hdr">>]
                               /\ g[<<s, i, "key">>] = f[<<s, i, "key">>]
                               /\ g[<<s, i, "val">>] = f[<<s, i, "val">>]
  BY DEF SameBefore
<1>2. \A k : Before(g, s, k, n) = Before(f, s, k, n)
  BY <1>1 DEF Before, Records
<1>3. ASSUME NEW k
      PROVE  /\ FirstOf(g, s, Before(f, s, k, n)) = FirstOf(f, s, Before(f, s, k, n))
             /\ RestOf(g, s, Before(f, s, k, n)) = RestOf(f, s, Before(f, s, k, n))
  <2>1. Before(f, s, k, n) \in SUBSET Slot
    BY DEF Before, Records
  <2>2. \A i \in Before(f, s, k, n) : g[<<s, i, "val">>] = f[<<s, i, "val">>]
    BY <1>1, <2>1 DEF Before
  <2> QED
    BY <2>1, <2>2, SameVals
<1>4. Extra(g, s, n) = Extra(f, s, n)
  <2>1. \A i \in Slot : i \in Nat
    BY KvAssumption DEF Slot
  <2>2. ASSUME NEW i \in Slot, i < n, NEW k
        PROVE  (\E j \in Records(g, s, k) : j < i) <=> (\E j \in Records(f, s, k) : j < i)
    <3>1. \A j \in Slot : j < i => j < n
      BY <2>1, <2>2
    <3> QED
      BY <1>1, <3>1 DEF Records
  <2> QED
    BY <1>1, <2>2 DEF Extra
<1> QED
  BY <1>2, <1>3, <1>4

LEMMA NoRecords ==
  ASSUME NEW f, NEW s, Layout(f, s, 0)
  PROVE  /\ \A k : Records(f, s, k) = {}
         /\ \A n : Extra(f, s, n) = {}
         /\ FirstOf(f, s, {}) = NULL /\ RestOf(f, s, {}) = {}
<1>1. \A i \in Slot : i > 0
  BY KvAssumption DEF Slot
<1>2. \A i \in Slot : f[<<s, i, "hdr">>] # "start"
  BY <1>1, KvAssumption DEF Layout
<1> QED
  BY <1>2 DEF Records, Extra, FirstOf, RestOf

LEMMA ReinitKeeps ==
  ASSUME Sound, DataSound, failures \in Nat, ~void, Reinit
  PROVE  DataSound' /\ MapStep
<1> USE DEF Reinit, ram, local
<1>1. /\ Typed(flash) /\ current \in Store /\ dst \in Store /\ dst # current
      /\ Valid(flash, current) /\ dpos = 1 /\ spos = 1
  BY DEF Sound, LocalOK, HeaderOK
<1>2. /\ SameHeader(flash, flash', current) /\ SameRecords(flash, flash', current)
      /\ ~Valid(flash', dst) /\ Layout(flash', dst, 0)
  BY <1>1, EraseStore DEF flash_erase
<1>3. Valid(flash', current)
  BY <1>1, <1>2, SameHeaderReads
<1>4. MapStep
  <2>1. UNCHANGED <<Mem, Limbo>>
    BY <1>1, <1>2, <1>3, ReadsUnchanged
  <2> QED
    BY <2>1, MapStands
<1>5. DataOK'
  <2>1. \A i \in Slot : /\ flash'[<<dst, i, "key">>] = Erased
                        /\ flash'[<<dst, i, "val">>] = Erased
    BY <1>1, Words DEF flash_erase
  <2>2. \A i \in Slot : /\ flash'[<<current, i, "key">>] = flash[<<current, i, "key">>]
                        /\ flash'[<<current, i, "val">>] = flash[<<current, i, "val">>]
    BY <1>2 DEF SameRecords
  <2> QED
    BY <1>1, <2>1, <2>2 DEF DataSound, DataOK, Store
<1>6. CallOK' /\ NewOK'
  BY DEF DataSound, CallOK, NewOK, SetCall
<1>7. ExtraOK'
  <2>1. \A s \in Store : Valid(flash', s) => s = current
    BY <1>1, <1>2 DEF Store
  <2> QED
    BY <1>1, <1>2, <2>1, ExtraStays
<1>8. CopyOK'
  <2>1. Copied' = 1
    BY <1>1 DEF Copied
  <2>2. \A i \in Slot : ~(i < 1)
    BY KvAssumption DEF Slot
  <2>3. /\ \A k : Before(flash', current, k, 1) = {}
        /\ Extra(flash', current, 1) = {}
    BY <2>2 DEF Before, Extra, Records
  <2>4. \A k \in Key : Alike(flash', current, dst, k, 1)
    BY <1>2, <2>3, NoRecords DEF Alike, FirstOf, RestOf
  <2>5. Fewer(flash', current, dst, 1)
    BY <1>2, <2>3, NoRecords, ExtraIs DEF Fewer
  <2> QED
    BY <2>1, <2>2, <2>4, <2>5, KvAssumption DEF CopyOK
<1> QED
  BY <1>4, <1>5, <1>6, <1>7, <1>8 DEF DataSound

(* A record that is copied: it is the first of its key in the copy if it   *)
(* is in the original.                                                     *)
LEMMA CopiedRecord ==
  ASSUME NEW f, NEW g, NEW s, NEW u, NEW n \in Slot, NEW m \in Slot,
         SameRecords(f, g, s), Layout(f, u, m - 1), Layout(g, u, m),
         f[<<s, n, "hdr">>] = "start",
         g[<<u, m, "hdr">>] = "start",
         g[<<u, m, "key">>] = f[<<s, n, "key">>],
         g[<<u, m, "val">>] = f[<<s, n, "val">>],
         SameBefore(f, g, u, m),
         \A k \in Key : Alike(f, s, u, k, n), Fewer(f, s, u, n)
  PROVE  /\ \A k \in Key : Alike(g, s, u, k, n + 1)
         /\ Fewer(g, s, u, n + 1)
<1> DEFINE C(k) == Before(f, u, k, m)
           R(k) == Before(f, s, k, n)
           X == Extra(f, u, m)
           Y == Extra(f, s, n)
<1>1. /\ m \in Nat /\ n \in Nat /\ m - 1 \in Nat /\ m + 1 \in Nat
      /\ m - 1 < m /\ m < m + 1 /\ Room + 1 \in Nat /\ m < Room + 1 /\ m - 1 < Room + 1
  BY KvAssumption DEF Slot
<1>2. /\ \A k : Records(f, u, k) = C(k)
      /\ Extra(f, u, Room + 1) = X
  BY <1>1, NoMore
<1>3. /\ \A k : Records(g, u, k) = Before(g, u, k, m + 1)
      /\ Extra(g, u, Room + 1) = Extra(g, u, m + 1)
  BY <1>1, NoMore
<1>4. /\ \A k : /\ Before(g, u, k, m) = C(k)
                /\ FirstOf(g, u, C(k)) = FirstOf(f, u, C(k))
                /\ RestOf(g, u, C(k)) = RestOf(f, u, C(k))
      /\ Extra(g, u, m) = X
  BY <1>1, SamePrefix
<1>5. /\ \A k : Before(g, s, k, n + 1) = Before(f, s, k, n + 1)
      /\ Extra(g, s, n + 1) = Extra(f, s, n + 1)
      /\ \A Q \in SUBSET Slot : /\ FirstOf(g, s, Q) = FirstOf(f, s, Q)
                                /\ RestOf(g, s, Q) = RestOf(f, s, Q)
  BY SameRecordsReads
<1>6. \A k \in Key : /\ R(k) = {} <=> C(k) = {}
                     /\ FirstOf(f, s, R(k)) = FirstOf(f, u, C(k))
                     /\ RestOf(f, s, R(k)) = RestOf(f, u, C(k))
  BY <1>2 DEF Alike
<1>8. \A k : /\ n \in Records(f, s, k) <=> f[<<s, n, "key">>] = k
            /\ m \in Records(g, u, k) <=> f[<<s, n, "key">>] = k
  BY DEF Records
<1>9. /\ \A k : Grows(f, s, k, n) /\ Grows(g, u, k, m)
      /\ ExtraGrows(f, s, n) /\ ExtraGrows(g, u, m)
  BY OneMore
<1>10. \/ Extra(g, u, m + 1) = X \cup {m} /\ Extra(f, s, n + 1) = Y \cup {n}
       \/ Extra(g, u, m + 1) = X /\ Extra(f, s, n + 1) = Y
  <2>1. ExtraAt(g, u, m) <=> ExtraAt(f, s, n)
    BY <1>4, <1>6 DEF ExtraAt
  <2> QED
    BY <1>4, <1>9, <2>1 DEF ExtraGrows
<1>11. m \notin X /\ n \notin Y
  BY <1>1 DEF Extra
<1>12. /\ IsFiniteSet(X) /\ Cardinality(X) \in Nat
       /\ IsFiniteSet(Y) /\ Cardinality(Y) \in Nat
  BY ExtraIs
<1>13. ASSUME NEW k \in Key PROVE Alike(g, s, u, k, n + 1)
  <2>0. /\ R(k) \in SUBSET Slot /\ \A i \in R(k) : i < n
        /\ C(k) \in SUBSET Slot /\ \A i \in C(k) : i < m
    BY DEF Before, Records
  <2>1. CASE f[<<s, n, "key">>] = k
    <3>1. AddsLast(f, s, R(k), n)
      BY <2>0, AddLast
    <3>2. AddsLast(g, u, C(k), m)
      BY <2>0, AddLast
    <3>3. R(k) \cup {n} \in SUBSET Slot
      BY <2>0
    <3>4. Before(g, s, k, n + 1) = R(k) \cup {n} /\ Records(g, u, k) = C(k) \cup {m}
      BY <1>3, <1>4, <1>5, <1>8, <1>9, <2>1 DEF Grows
    <3> HIDE DEF C, R
    <3> QED
      BY <1>4, <1>5, <1>6, <3>1, <3>2, <3>3, <3>4 DEF Alike, AddsLast
  <2>2. CASE f[<<s, n, "key">>] # k
    <3>1. Before(g, s, k, n + 1) = R(k) /\ Records(g, u, k) = C(k)
      <4>1. n \notin Records(f, s, k) /\ m \notin Records(g, u, k)
        BY <2>2 DEF Records
      <4>2. Before(f, s, k, n + 1) = R(k) /\ Before(g, u, k, m + 1) = Before(g, u, k, m)
        BY <1>9, <4>1 DEF Grows
      <4> QED
        BY <1>3, <1>4, <1>5, <4>2
    <3>2. R(k) \in SUBSET Slot
      BY <2>0
    <3> HIDE DEF C, R
    <3> QED
      BY <1>4, <1>5, <1>6, <3>1, <3>2 DEF Alike
  <2> QED
    BY <2>1, <2>2
<1>14. Fewer(g, s, u, n + 1)
  <2>1. Cardinality(X) <= Cardinality(Y)
    BY <1>2 DEF Fewer
  <2>2. /\ Cardinality(X \cup {m}) = Cardinality(X) + 1
        /\ Cardinality(Y \cup {n}) = Cardinality(Y) + 1
    BY <1>11, <1>12, FS_AddElement
  <2>3. Extra(g, u, Room + 1) = Extra(g, u, m + 1) /\ Extra(g, s, n + 1) = Extra(f, s, n + 1)
    BY <1>3, <1>5
  <2>4. Cardinality(Extra(g, u, m + 1)) <= Cardinality(Extra(f, s, n + 1))
    <3>1. CASE Extra(g, u, m + 1) = X \cup {m} /\ Extra(f, s, n + 1) = Y \cup {n}
      <4>1. /\ Cardinality(Extra(g, u, m + 1)) = Cardinality(X) + 1
            /\ Cardinality(Extra(f, s, n + 1)) = Cardinality(Y) + 1
        BY <2>2, <3>1
      <4> HIDE DEF X, Y
      <4> QED
        BY <1>12, <2>1, <4>1
    <3>2. CASE Extra(g, u, m + 1) = X /\ Extra(f, s, n + 1) = Y
      BY <2>1, <3>2
    <3> QED
      BY <1>10, <3>1, <3>2
  <2> QED
    BY <2>3, <2>4 DEF Fewer
<1> QED
  BY <1>13, <1>14

LEMMA CopyRecordKeeps ==
  ASSUME Sound, DataSound, Copy, flash[<<current, spos, "hdr">>] = "start"
  PROVE  /\ SameRecords(flash, flash', current)
         /\ \A t \in Store : Valid(flash', t) <=> Valid(flash, t)
         /\ DataOK' /\ CopyOK'
<1>1. /\ Typed(flash) /\ current \in Store /\ dst \in Store /\ dst # current
      /\ dpos \in Slot /\ spos \in Slot
      /\ Layout(flash, dst, dpos - 1)
      /\ ChangesSlot(flash, flash', dst, dpos)
  BY CopyWrite DEF Sound, LocalOK
<1>2. /\ SameRecords(flash, flash', current)
      /\ \A t \in Store : SameHeader(flash, flash', t)
      /\ Layout(flash', dst, dpos)
  BY <1>1, SlotChange
<1>3. \A t \in Store : Valid(flash', t) <=> Valid(flash, t)
  BY <1>2, SameHeaderReads
<1>4. /\ flash'[<<dst, dpos, "hdr">>] = "start"
      /\ flash'[<<dst, dpos, "key">>] = flash[<<current, spos, "key">>]
      /\ flash'[<<dst, dpos, "val">>] = flash[<<current, spos, "val">>]
  <2>1. flash' = [w \in Word |-> IF w[1] = dst /\ w[2] = dpos
                                 THEN flash[<<current, spos, w[3]>>] ELSE flash[w]]
    BY DEF Copy
  <2>2. /\ <<dst, dpos, "hdr">> \in Word
        /\ <<dst, dpos, "key">> \in Word
        /\ <<dst, dpos, "val">> \in Word
    BY <1>1, Words
  <2> QED
    BY <2>1, <2>2
<1>5. \A i \in Slot : i # dpos =>
         \A x \in {"hdr", "key", "val"} : flash'[<<dst, i, x>>] = flash[<<dst, i, x>>]
  BY <1>1, Words DEF ChangesSlot
<1>6. /\ dpos \in Nat /\ spos \in Nat
      /\ pc = "copy" /\ pc' = "copy" /\ spos' = spos + 1 /\ dpos' = dpos + 1
      /\ UNCHANGED <<current, dst>>
  BY <1>1, KvAssumption DEF Slot, Copy
<1>7. DataOK'
  <2>1. \A i \in Slot : /\ flash'[<<dst, i, "key">>] \in Key \cup {Erased}
                        /\ flash'[<<dst, i, "val">>] \in Val \cup {Erased}
    BY <1>1, <1>4, <1>5 DEF DataSound, DataOK
  <2>2. \A i \in Slot : /\ flash'[<<current, i, "key">>] = flash[<<current, i, "key">>]
                        /\ flash'[<<current, i, "val">>] = flash[<<current, i, "val">>]
    BY <1>2 DEF SameRecords
  <2> QED
    BY <1>1, <2>1, <2>2 DEF DataSound, DataOK, Store
<1>8. /\ \A k \in Key : Alike(flash, current, dst, k, spos)
      /\ Fewer(flash, current, dst, spos)
      /\ dpos = spos => \A i \in Slot : i < spos => flash[<<current, i, "hdr">>] = "start"
  BY <1>1, <1>6 DEF DataSound, CopyOK, Copied
<1>9. SameBefore(flash, flash', dst, dpos)
  <2>1. \A i \in Slot : i < dpos => i # dpos
    BY <1>6
  <2> QED
    BY <1>5, <2>1 DEF SameBefore
<1>10. /\ \A k \in Key : Alike(flash', current, dst, k, spos + 1)
       /\ Fewer(flash', current, dst, spos + 1)
  BY <1>1, <1>2, <1>4, <1>8, <1>9, CopiedRecord
<1>11. dpos' = spos' => \A i \in Slot : i < spos' => flash'[<<current, i, "hdr">>] = "start"
  <2>1. \A i \in Slot : i < spos + 1 <=> i < spos \/ i = spos
    BY <1>6, KvAssumption DEF Slot
  <2>2. \A i \in Slot : flash'[<<current, i, "hdr">>] = flash[<<current, i, "hdr">>]
    BY <1>2 DEF SameRecords
  <2> QED
    BY <1>6, <1>8, <2>1, <2>2
<1>12. CopyOK'
  <2>1. spos + 1 \in 1..(Room + 1)
    BY <1>1, KvAssumption DEF Slot
  <2> QED
    BY <1>6, <1>10, <1>11, <2>1 DEF CopyOK, Copied
<1> QED
  BY <1>2, <1>3, <1>7, <1>12

LEMMA CopyKeeps ==
  ASSUME Sound, DataSound, failures \in Nat, ~void, Copy
  PROVE  DataSound' /\ MapStep
<1>1. /\ current \in Store /\ Valid(flash, current) /\ dst # current
      /\ pc = "copy" /\ pc' = "copy" /\ spos' = spos + 1 /\ dpos <= spos
      /\ spos \in Slot /\ spos \in Nat /\ dpos \in Nat
      /\ UNCHANGED <<current, pos, call, ppos, dst, failures, void>>
  BY DEF Sound, LocalOK, HeaderOK, Copy
<1>2. /\ SameRecords(flash, flash', current)
      /\ \A t \in Store : Valid(flash', t) <=> Valid(flash, t)
      /\ DataOK' /\ CopyOK'
  <2>1. CASE flash[<<current, spos, "hdr">>] = "start"
    BY <2>1, CopyRecordKeeps
  <2>2. CASE flash[<<current, spos, "hdr">>] # "start"
    <3>1. UNCHANGED <<flash, dpos>>
      BY <2>2 DEF Copy
    <3>2. DataOK'
      BY <3>1 DEF DataSound, DataOK
    <3>3. /\ \A k : spos \notin Records(flash, current, k)
          /\ ~ExtraAt(flash, current, spos)
      BY <2>2 DEF Records, ExtraAt
    <3>4. (\A k : Grows(flash, current, k, spos)) /\ ExtraGrows(flash, current, spos)
      BY <1>1, OneMore
    <3>5. /\ \A k : Before(flash, current, k, spos + 1) = Before(flash, current, k, spos)
          /\ Extra(flash, current, spos + 1) = Extra(flash, current, spos)
      BY <3>3, <3>4 DEF Grows, ExtraGrows
    <3>6. /\ \A k \in Key : Alike(flash, current, dst, k, spos)
          /\ Fewer(flash, current, dst, spos)
      BY <1>1 DEF DataSound, CopyOK, Copied
    <3>7. /\ \A k \in Key : Alike(flash, current, dst, k, spos + 1)
          /\ Fewer(flash, current, dst, spos + 1)
      BY <3>5, <3>6 DEF Alike, Fewer
    <3>8. spos + 1 \in 1..(Room + 1) /\ dpos # spos + 1
      BY <1>1, KvAssumption DEF Slot
    <3>9. CopyOK'
      BY <1>1, <3>1, <3>7, <3>8 DEF CopyOK, Copied
    <3> QED
      BY <3>1, <3>2, <3>9, SameFlash
  <2> QED
    BY <2>1, <2>2
<1>3. MapStep
  <2>1. UNCHANGED <<Mem, Limbo>>
    BY <1>1, <1>2, ReadsUnchanged
  <2> QED
    BY <1>1, <2>1, MapStands
<1>4. CallOK' /\ NewOK'
  BY <1>1 DEF DataSound, CallOK, NewOK, SetCall
<1>5. ExtraOK'
  <2>1. \A s \in Store : s # current /\ Valid(flash', s) => FALSE
    BY <1>1, <1>2 DEF Sound, HeaderOK, LocalOK, Store
  <2> QED
    BY <1>1, <1>2, <2>1, ExtraStays
<1> QED
  BY <1>2, <1>3, <1>4, <1>5 DEF DataSound

LEMMA CopyEndsKeeps ==
  ASSUME Sound, DataSound, failures \in Nat, ~void, CopyEnds
  PROVE  DataSound' /\ MapStep
<1>1. /\ current \in Store /\ dst # current /\ dpos <= spos
      /\ pc = "copy" /\ pc' = "magic" /\ spos \in Nat /\ dpos \in Nat
      /\ UNCHANGED <<flash, current, pos, call, ppos, dst, dpos, failures, void>>
      /\ spos \in Slot => flash[<<current, spos, "hdr">>] = Erased
      /\ spos \in 1..(Room + 1)
      /\ dpos = spos => \A i \in Slot : i < spos => flash[<<current, i, "hdr">>] = "start"
      /\ \A k \in Key : Alike(flash, current, dst, k, spos)
      /\ Fewer(flash, current, dst, spos)
  BY DEF Sound, LocalOK, HeaderOK, CopyEnds, DataSound, CopyOK, Copied
<1>2. MapStep
  <2>1. UNCHANGED <<Mem, Limbo>>
    BY <1>1, SameFlash, ReadsUnchanged
  <2> QED
    BY <1>1, <2>1, MapStands
<1>3. DataOK'
  BY <1>1 DEF DataSound, DataOK
<1>4. CallOK' /\ NewOK'
  BY <1>1 DEF DataSound, CallOK, NewOK, SetCall
<1>5. ExtraOK'
  BY <1>1, SameFlash, ExtraStays
<1>6. /\ \A k : Before(flash, current, k, Room + 1) = Before(flash, current, k, spos)
      /\ Extra(flash, current, Room + 1) = Extra(flash, current, spos)
      /\ spos = Room + 1 \/ dpos # Room + 1
  <2>1. CASE spos = Room + 1
    BY <2>1
  <2>2. CASE spos # Room + 1
    <3>1. spos \in Slot /\ spos < Room + 1 /\ Room + 1 \in Nat
      BY <1>1, <2>2, KvAssumption DEF Slot
    <3>2. PICK n \in 0..Room : Layout(flash, current, n)
      BY <1>1 DEF Sound, StoresOK
    <3>3. n < spos
      <4>1. spos \notin 1..n
        BY <1>1, <3>1, <3>2 DEF Layout
      <4> QED
        BY <1>1, <4>1, KvAssumption
    <3>4. n < Room + 1
      BY KvAssumption
    <3> QED
      BY <1>1, <3>1, <3>2, <3>3, <3>4, NoMore
  <2> QED
    BY <2>1, <2>2
<1>7. CopyOK'
  <2>1. /\ \A k \in Key : Alike(flash, current, dst, k, Room + 1)
        /\ Fewer(flash, current, dst, Room + 1)
    BY <1>1, <1>6 DEF Alike, Fewer
  <2>2. Room + 1 \in 1..(Room + 1)
    BY KvAssumption
  <2> QED
    BY <1>1, <1>6, <2>1, <2>2 DEF CopyOK, Copied
<1> QED
  BY <1>2, <1>3, <1>4, <1>5, <1>7 DEF DataSound

LEMMA AlikeStays ==
  ASSUME NEW f, NEW g, NEW s, NEW t, SameRecords(f, g, s), SameRecords(f, g, t), NEW n
  PROVE  /\ \A k : Alike(f, s, t, k, n) => Alike(g, s, t, k, n)
         /\ Fewer(f, s, t, n) => Fewer(g, s, t, n)
<1>1. /\ \A k : Before(g, s, k, n) = Before(f, s, k, n)
      /\ \A k : Records(g, t, k) = Records(f, t, k)
      /\ \A l : Extra(g, s, l) = Extra(f, s, l)
      /\ \A l : Extra(g, t, l) = Extra(f, t, l)
  BY SameRecordsReads
<1>2. \A k : Before(f, s, k, n) \in SUBSET Slot /\ Records(f, t, k) \in SUBSET Slot
  BY DEF Before, Records
<1>3. \A k : /\ FirstOf(g, s, Before(f, s, k, n)) = FirstOf(f, s, Before(f, s, k, n))
             /\ RestOf(g, s, Before(f, s, k, n)) = RestOf(f, s, Before(f, s, k, n))
             /\ FirstOf(g, t, Records(f, t, k)) = FirstOf(f, t, Records(f, t, k))
             /\ RestOf(g, t, Records(f, t, k)) = RestOf(f, t, Records(f, t, k))
  BY <1>2, SameRecordsReads
<1> QED
  BY <1>1, <1>3 DEF Alike, Fewer

LEMMA HeaderMagicKeeps ==
  ASSUME Sound, DataSound, failures \in Nat, ~void, HeaderMagic
  PROVE  DataSound' /\ MapStep
<1> USE DEF HeaderMagic, ram, local
<1>1. /\ Typed(flash) /\ current \in Store /\ dst \in Store
      /\ pos = StoreInit(flash, current)
      /\ dst # current => ~Valid(flash, dst)
      /\ dst = current => pos = 0
  BY DEF Sound, LocalOK, CurrentOK, HeaderOK
<1>2. ~Valid(flash, dst)
  <2>1. PICK n \in 0..Room : Layout(flash, current, n)
    BY <1>1 DEF Sound, StoresOK
  <2> QED
    BY <1>1, <2>1, PosIs, KvAssumption
<1>3. flash[<<dst, 0, "seq">>] = Erased
  BY <1>1, <1>2, ValidIs
<1>4. Programs(flash, flash', <<dst, 0, "magic">>, "magic")
  BY DEF flash_program, Programs
<1>5. /\ flash'[<<dst, 0, "seq">>] = Erased
      /\ \A t \in Store : SameRecords(flash, flash', t)
      /\ \A t \in Store : t # dst => SameHeader(flash, flash', t)
  BY <1>1, <1>3, <1>4, ProgramMagic
<1>6. \A t \in Store : Valid(flash', t) <=> Valid(flash, t)
  <2>1. ~Valid(flash', dst)
    BY <1>5 DEF Valid
  <2> QED
    BY <1>2, <1>5, <2>1, SameHeaderReads
<1>7. MapStep
  <2>1. UNCHANGED <<Mem, Limbo>>
    BY <1>1, <1>5, <1>6, ReadsUnchanged
  <2> QED
    BY <2>1, MapStands
<1>8. DataOK'
  BY <1>5 DEF DataSound, DataOK, SameRecords
<1>9. CallOK' /\ NewOK'
  BY DEF DataSound, CallOK, NewOK, SetCall
<1>10. ExtraOK'
  BY <1>5, <1>6, ExtraStays
<1>11. CopyOK'
  <2>1. Copied = Room + 1 /\ Copied' = Room + 1
    BY DEF Copied
  <2>2. \A i \in Slot : flash'[<<current, i, "hdr">>] = flash[<<current, i, "hdr">>]
    BY <1>1, <1>5 DEF SameRecords
  <2>3. dst # current =>
          /\ \A k \in Key : Alike(flash', current, dst, k, Room + 1)
          /\ Fewer(flash', current, dst, Room + 1)
    BY <1>1, <1>5, <2>1, AlikeStays DEF DataSound, CopyOK
  <2> QED
    BY <2>1, <2>2, <2>3 DEF DataSound, CopyOK
<1> QED
  BY <1>7, <1>8, <1>9, <1>10, <1>11 DEF DataSound

-----------------------------------------------------------------------------
(* A store that is full of valid records, after a copy: each is the first  *)
(* of a key, or was left behind by a failure.                              *)
LEMMA FullStore ==
  ASSUME DataOK, current \in Store, Valid(flash, current), failures \in Nat,
         \A i \in Slot : flash[<<current, i, "hdr">>] = "start",
         Cardinality(Extra(flash, current, Room + 1)) <= failures
  PROVE  Cardinality({k \in Key : Mem[k] # NULL}) + failures >= Room
<1> DEFINE left == Extra(flash, current, Room + 1)
           firsts == Slot \ left
           found == {k \in Key : Mem[k] # NULL}
           key == [i \in firsts |-> flash[<<current, i, "key">>]]
<1>1. \A i \in Slot : i \in Nat /\ i < Room + 1
  BY KvAssumption DEF Slot
<1>2. \A k : Records(flash, current, k) = {i \in Slot : flash[<<current, i, "key">>] = k}
  BY DEF Records
<1>3. \A i \in firsts : /\ flash[<<current, i, "key">>] \in Key
                        /\ \A j \in Records(flash, current, flash[<<current, i, "key">>]) : ~(j < i)
  BY <1>1 DEF Extra
<1>4. \A k \in Key : Mem[k] = FirstOf(flash, current, Records(flash, current, k))
  BY ReadsIs DEF Mem, Reads
<1>5. key \in [firsts -> found]
  <2> SUFFICES ASSUME NEW i \in firsts PROVE flash[<<current, i, "key">>] \in found
    OBVIOUS
  <2> DEFINE k == flash[<<current, i, "key">>]
  <2>1. k \in Key /\ i \in Records(flash, current, k) /\ Records(flash, current, k) \in SUBSET Slot
    BY <1>2, <1>3
  <2>2. Min(Records(flash, current, k)) \in Slot
    BY <2>1, MinIs
  <2>3. Mem[k] = flash[<<current, Min(Records(flash, current, k)), "val">>]
    BY <1>4, <2>1 DEF FirstOf
  <2>4. Mem[k] # NULL
    BY <2>2, <2>3, KvAssumption DEF DataOK
  <2> QED
    BY <2>1, <2>4
<1>6. \A i, j \in firsts : key[i] = key[j] => i = j
  <2> SUFFICES ASSUME NEW i \in firsts, NEW j \in firsts, key[i] = key[j] PROVE i = j
    OBVIOUS
  <2>1. /\ i \in Slot /\ j \in Slot
        /\ flash[<<current, i, "key">>] = flash[<<current, j, "key">>]
    OBVIOUS
  <2>2. ~(j < i) /\ ~(i < j)
    BY <1>2, <1>3, <2>1
  <2> QED
    BY <1>1, <2>1, <2>2
<1>7. \A k \in found : \E i \in firsts : key[i] = k
  <2> SUFFICES ASSUME NEW k \in found PROVE \E i \in firsts : key[i] = k
    OBVIOUS
  <2>1. Records(flash, current, k) # {} /\ Records(flash, current, k) \in SUBSET Slot
    BY <1>2, <1>4 DEF FirstOf
  <2>2. PICK i \in Records(flash, current, k) : \A j \in Records(flash, current, k) : i <= j
    BY <2>1, MinIs
  <2>3. i \in Slot /\ flash[<<current, i, "key">>] = k
    BY <1>2, <2>2
  <2>4. ~\E j \in Records(flash, current, k) : j < i
    BY <1>1, <2>1, <2>2, <2>3
  <2>5. i \notin left
    BY <2>3, <2>4 DEF Extra
  <2> QED
    BY <2>3, <2>5
<1>8. ExistsBijection(firsts, found)
  <2>1. key \in Injection(firsts, found)
    BY <1>5, <1>6 DEF Injection, IsInjective
  <2>2. key \in Surjection(firsts, found)
    BY <1>5, <1>7 DEF Surjection
  <2> QED
    BY <2>1, <2>2 DEF ExistsBijection, Bijection
<1>9. left \in SUBSET Slot /\ firsts \in SUBSET Slot
  BY ExtraIs
<1> HIDE DEF left, found, key
<1>10. /\ IsFiniteSet(left) /\ Cardinality(left) \in Nat
       /\ IsFiniteSet(firsts) /\ Cardinality(firsts) \in Nat
  BY <1>9, SlotsCounted
<1>11. Cardinality(found) = Cardinality(firsts)
  BY <1>8, <1>10, FS_Bijection
<1>12. Room = Cardinality(firsts) + Cardinality(left)
  <2>1. firsts \cup left = Slot /\ firsts \cap left = {}
    BY <1>9
  <2> HIDE DEF firsts
  <2>2. Cardinality(firsts \cup left)
          = Cardinality(firsts) + Cardinality(left) - Cardinality(firsts \cap left)
    BY <1>10, FS_Union
  <2>3. Cardinality(firsts \cap left) = 0
    BY <2>1, FS_EmptySet
  <2> QED
    BY <1>10, <2>1, <2>2, <2>3, SlotsCounted
<1>13. Cardinality(left) <= failures
  BY DEF left
<1> HIDE DEF firsts
<1>14. Cardinality(found) + failures >= Room
  BY <1>10, <1>11, <1>12, <1>13
<1> QED
  BY <1>14 DEF found

LEMMA HeaderSeqKeeps ==
  ASSUME Sound, DataSound, failures \in Nat, ~void, HeaderSeq
  PROVE  DataSound' /\ MapStep
<1> DEFINE seq == IF dst = current THEN 1 ELSE kv_store_get_seq(flash, current) + 1
<1>1. /\ Typed(flash) /\ current \in Store /\ dst \in Store
      /\ pos = StoreInit(flash, current)
      /\ dst # current => Valid(flash, current) /\ ~Valid(flash, dst)
      /\ dst = current => pos = 0 /\ dpos = 1
      /\ dst # current => dpos \in 1..(Room + 1)
      /\ Magic(flash, dst) /\ pc = "seq"
  BY DEF Sound, LocalOK, CurrentOK, HeaderOK, HeaderSeq
<1>2. ~Valid(flash, dst)
  <2>1. PICK n \in 0..Room : Layout(flash, current, n)
    BY <1>1 DEF Sound, StoresOK
  <2> QED
    BY <1>1, <2>1, PosIs, KvAssumption
<1>3. seq \in Nat
  <2>1. dst # current => kv_store_get_seq(flash, current) \in Nat
    BY <1>1, ValidIs
  <2> QED
    BY <2>1
<1>4. Programs(flash, flash', <<dst, 0, "seq">>, seq)
  BY DEF flash_program, Programs, HeaderSeq
<1> HIDE DEF seq
<1>5. /\ Typed(flash')
      /\ flash'[<<dst, 0, "magic">>] = flash[<<dst, 0, "magic">>]
      /\ flash'[<<dst, 0, "seq">>] = seq
      /\ \A t \in Store : SameRecords(flash, flash', t)
      /\ \A t \in Store : t # dst => SameHeader(flash, flash', t)
  BY <1>1, <1>3, <1>4, ProgramSeq
<1>6. /\ Valid(flash', dst)
      /\ \A t \in Store : t # dst => (Valid(flash', t) <=> Valid(flash, t))
  BY <1>1, <1>3, <1>5, ValidIs, SameHeaderReads, KvAssumption
<1>7. /\ current' = dst /\ pos' = dpos /\ UNCHANGED <<failures, void>>
      /\ \/ /\ call # NULL /\ dpos <= Room
            /\ pc' = "hdr" /\ call' = call
            /\ ppos' = IF dst = current THEN ppos ELSE dpos
         \/ ~(call # NULL /\ dpos <= Room) /\ pc' = "idle" /\ call' = NULL
  BY DEF HeaderSeq, End
<1>8. Sound'
  BY HeaderSeqSound
<1>9. dst # current =>
        /\ \A k \in Key : Alike(flash, current, dst, k, Room + 1)
        /\ Fewer(flash, current, dst, Room + 1)
        /\ dpos = Room + 1 => \A i \in Slot : flash[<<current, i, "hdr">>] = "start"
  <2>1. Copied = Room + 1
    BY <1>1 DEF Copied
  <2>2. \A i \in Slot : i < Room + 1
    BY KvAssumption DEF Slot
  <2> QED
    BY <1>1, <2>1, <2>2 DEF DataSound, CopyOK
<1>10. \A k : Before(flash, current, k, Room + 1) = Records(flash, current, k)
  <2>1. \A i \in Slot : i < Room + 1
    BY KvAssumption DEF Slot
  <2> QED
    BY <2>1 DEF Before, Records
<1>11. dst = current =>
         /\ \A k : Records(flash, dst, k) = {}
         /\ Extra(flash, dst, Room + 1) = {}
  <2> SUFFICES ASSUME dst = current PROVE Layout(flash, dst, 0)
    BY NoRecords
  <2>1. PICK n \in 0..Room : Layout(flash, dst, n)
    BY <1>1 DEF Sound, StoresOK
  <2>2. Layout(flash', dst, n)
    BY <1>1, <1>5, <2>1, SameRecordsLayout
  <2>3. pos' = StoreInit(flash', dst)
    BY <1>7, <1>8 DEF Sound, CurrentOK
  <2>4. 1 = n + 1
    BY <1>1, <1>6, <1>7, <2>2, <2>3, PosIs
  <2> QED
    BY <2>1, <2>4, KvAssumption
<1>12. UNCHANGED <<Mem, Limbo>>
  <2> SUFFICES ASSUME NEW k \in Key
               PROVE  /\ kv_get_val(flash', current', k) = kv_get_val(flash, current, k)
                      /\ Hidden(k)' = Hidden(k)
    BY DEF Mem, Limbo
  <2>1. /\ Reads(flash', current', k) = Records(flash, dst, k)
        /\ Records(flash, dst, k) \in SUBSET Slot
    <3>1. Records(flash', dst, k) = Records(flash, dst, k)
      BY <1>1, <1>5, SameRecordsReads
    <3> QED
      BY <1>6, <1>7, <3>1 DEF Reads, Records
  <2>2. /\ FirstOf(flash', dst, Records(flash, dst, k))
             = FirstOf(flash, dst, Records(flash, dst, k))
        /\ RestOf(flash', dst, Records(flash, dst, k))
             = RestOf(flash, dst, Records(flash, dst, k))
    BY <1>1, <1>5, <2>1, SameRecordsReads
  <2>3. CASE dst = current
    <3>1. Reads(flash, current, k) = {} /\ Records(flash, dst, k) = {}
      BY <1>2, <1>11, <2>3 DEF Reads
    <3>2. \A f, s : FirstOf(f, s, {}) = NULL /\ RestOf(f, s, {}) = {}
      BY DEF FirstOf, RestOf
    <3> QED
      BY <1>7, <2>1, <3>1, <3>2, ReadsIs
  <2>4. CASE dst # current
    <3>1. Reads(flash, current, k) = Records(flash, current, k)
      BY <1>1, <2>4 DEF Reads
    <3>2. /\ FirstOf(flash, current, Records(flash, current, k))
               = FirstOf(flash, dst, Records(flash, dst, k))
          /\ RestOf(flash, current, Records(flash, current, k))
               = RestOf(flash, dst, Records(flash, dst, k))
      BY <1>9, <1>10, <2>4 DEF Alike
    <3> QED
      BY <1>7, <2>1, <2>2, <3>1, <3>2, ReadsIs
  <2> QED
    BY <2>3, <2>4
<1>13. \A s \in Store : Valid(flash, s) => Cardinality(Extra(flash, s, Room + 1)) <= failures
  <2>1. \A s : New(s) = {}
    BY <1>1 DEF New
  <2>2. \A s : Extra(flash, s, Room + 1) \ {} = Extra(flash, s, Room + 1)
    OBVIOUS
  <2> QED
    BY <1>1, <2>1, <2>2 DEF DataSound, ExtraOK
<1>14. call = NULL \/ SetCall
  BY <1>1 DEF DataSound, CallOK
<1>15. MapStep
  <2>1. CASE call' = call
    BY <1>7, <1>12, <2>1, MapStands
  <2>2. CASE call' = NULL /\ call # NULL
    <3>1. dpos = Room + 1 /\ dst # current
      BY <1>1, <1>7, <2>2, KvAssumption
    <3>2. call.val # NULL
      BY <1>14, <2>2, KvAssumption DEF SetCall
    <3>3. Cardinality({k \in Key : Mem[k] # NULL}) + failures >= Room
      BY <1>1, <1>9, <1>13, <3>1, FullStore DEF DataSound
    <3> QED
      BY <1>7, <1>12, <2>2, <3>2, <3>3, MapRefuses
  <2> QED
    BY <1>7, <2>1, <2>2
<1>16. DataOK'
  BY <1>5 DEF DataSound, DataOK, SameRecords
<1>17. CallOK'
  BY <1>7, <1>14 DEF CallOK, SetCall
<1>18. NewOK'
  BY <1>1, <1>7 DEF DataSound, NewOK
<1>19. ExtraOK'
  <2> SUFFICES ASSUME NEW s \in Store, Valid(flash', s)
               PROVE  Cardinality(Extra(flash', s, Room + 1)) <= failures
    <3>1. \A s \in Store : New(s)' = {}
      BY <1>7 DEF New
    <3>2. \A s : Extra(flash', s, Room + 1) \ {} = Extra(flash', s, Room + 1)
      OBVIOUS
    <3> QED
      BY <1>7, <3>1, <3>2 DEF ExtraOK
  <2>1. Extra(flash', s, Room + 1) = Extra(flash, s, Room + 1)
    BY <1>5, SameRecordsReads
  <2>2. CASE s # dst
    BY <1>6, <1>13, <2>1, <2>2
  <2>3. CASE s = dst /\ dst = current
    <3>1. Cardinality(Extra(flash, s, Room + 1)) = 0
      BY <1>11, <2>3, FS_EmptySet
    <3> QED
      BY <2>1, <3>1
  <2>4. CASE s = dst /\ dst # current
    <3>1. /\ Cardinality(Extra(flash, s, Room + 1)) <= Cardinality(Extra(flash, current, Room + 1))
          /\ Cardinality(Extra(flash, current, Room + 1)) <= failures
      BY <1>1, <1>9, <1>13, <2>4 DEF Fewer
    <3> QED
      BY <2>1, <3>1, ExtraIs
  <2> QED
    BY <2>2, <2>3, <2>4
<1>20. CopyOK'
  BY <1>7 DEF CopyOK
<1> QED
  BY <1>15, <1>16, <1>17, <1>18, <1>19, <1>20 DEF DataSound

-----------------------------------------------------------------------------
(* The record of the call, word by word.                                   *)

SameBut(f, g, s, i) ==
  \A j \in Slot : j # i => /\ g[<<s, j, "hdr">>] = f[<<s, j, "hdr">>]
                           /\ g[<<s, j, "key">>] = f[<<s, j, "key">>]
                           /\ g[<<s, j, "val">>] = f[<<s, j, "val">>]

LEMMA SlotReads ==
  ASSUME NEW f, Typed(f), NEW s \in Store, NEW i \in Slot, NEW g, ChangesSlot(f, g, s, i)
  PROVE  /\ SameBut(f, g, s, i)
         /\ \A t \in Store : Valid(g, t) <=> Valid(f, t)
         /\ \A t \in Store : t # s => SameRecords(f, g, t)
<1>1. SameBut(f, g, s, i)
  BY Words DEF ChangesSlot, SameBut
<1>2. /\ \A t \in Store : SameHeader(f, g, t)
      /\ \A t \in Store : t # s => SameRecords(f, g, t)
  BY SlotChange
<1> QED
  BY <1>1, <1>2, SameHeaderReads

(* The current store is read as its records say.                           *)
LEMMA KeyReads ==
  ASSUME NEW k, UNCHANGED current, Valid(flash', current) <=> Valid(flash, current)
  PROVE  /\ Records(flash', current, k) = Records(flash, current, k)
            /\ (\A i \in Records(flash, current, k) :
                  flash'[<<current, i, "val">>] = flash[<<current, i, "val">>])
              => kv_get_val(flash', current', k) = kv_get_val(flash, current, k)
                 /\ Hidden(k)' = Hidden(k)
         /\ Valid(flash, current) =>
              /\ kv_get_val(flash, current, k)
                   = FirstOf(flash, current, Records(flash, current, k))
              /\ Hidden(k) = RestOf(flash, current, Records(flash, current, k))
              /\ kv_get_val(flash', current', k)
                   = FirstOf(flash', current, Records(flash', current, k))
              /\ Hidden(k)' = RestOf(flash', current, Records(flash', current, k))
<1>1. Records(flash, current, k) \in SUBSET Slot
  BY DEF Records
<1>2. ASSUME Records(flash', current, k) = Records(flash, current, k),
             \A i \in Records(flash, current, k) :
                  flash'[<<current, i, "val">>] = flash[<<current, i, "val">>]
      PROVE  kv_get_val(flash', current', k) = kv_get_val(flash, current, k)
             /\ Hidden(k)' = Hidden(k)
  <2>1. Reads(flash', current, k) = Reads(flash, current, k)
    BY <1>2 DEF Reads
  <2>2. /\ Reads(flash, current, k) \in SUBSET Slot
        /\ \A i \in Reads(flash, current, k) :
             flash'[<<current, i, "val">>] = flash[<<current, i, "val">>]
    BY <1>1, <1>2 DEF Reads
  <2>3. /\ FirstOf(flash', current, Reads(flash, current, k))
             = FirstOf(flash, current, Reads(flash, current, k))
        /\ RestOf(flash', current, Reads(flash, current, k))
             = RestOf(flash, current, Reads(flash, current, k))
    BY <2>2, SameVals
  <2> QED
    BY <2>1, <2>3, ReadsIs
<1>3. ASSUME Valid(flash, current)
      PROVE  /\ Reads(flash, current, k) = Records(flash, current, k)
             /\ Reads(flash', current, k) = Records(flash', current, k)
  BY <1>3 DEF Reads
<1> QED
  BY <1>2, <1>3, ReadsIs

LEMMA ExtraShrinks ==
  ASSUME DataSound, current \in Store, UNCHANGED <<current, failures>>, failures \in Nat,
         \A t \in Store : Valid(flash', t) => Valid(flash, t),
         \A t \in Store : t # current => SameRecords(flash, flash', t),
         Extra(flash', current, Room + 1) \ New(current)'
           \subseteq Extra(flash, current, Room + 1) \ New(current)
  PROVE  ExtraOK'
<1> SUFFICES ASSUME NEW s \in Store, Valid(flash', s)
             PROVE  Cardinality(Extra(flash', s, Room + 1) \ New(s)') <= failures
  BY DEF ExtraOK
<1>1. Cardinality(Extra(flash, s, Room + 1) \ New(s)) <= failures
  BY DEF DataSound, ExtraOK
<1>2. Extra(flash', s, Room + 1) \ New(s)' \subseteq Extra(flash, s, Room + 1) \ New(s)
  <2>1. s # current => New(s) = {} /\ New(s)' = {}
    BY DEF New
  <2>2. s # current => Extra(flash', s, Room + 1) = Extra(flash, s, Room + 1)
    BY SameRecordsReads
  <2> QED
    BY <2>1, <2>2
<1>3. Extra(flash, s, Room + 1) \ New(s) \in SUBSET Slot
  BY ExtraIs
<1>4. Cardinality(Extra(flash', s, Room + 1) \ New(s)')
        <= Cardinality(Extra(flash, s, Room + 1) \ New(s))
  BY <1>2, <1>3, SlotsCounted
<1>5. /\ Cardinality(Extra(flash', s, Room + 1) \ New(s)') \in Nat
      /\ Cardinality(Extra(flash, s, Room + 1) \ New(s)) \in Nat
  BY ExtraIs
<1> QED
  BY <1>1, <1>4, <1>5

LEMMA WriteHdrKeeps ==
  ASSUME Sound, DataSound, failures \in Nat, ~void, WriteHdr
  PROVE  DataSound' /\ MapStep
<1>1. /\ Typed(flash) /\ Layout(flash, current, pos - 1) /\ pos \in Slot /\ current \in Store
      /\ pc = "hdr" /\ pc' = "key"
      /\ UNCHANGED <<current, pos, call, ppos, dst, dpos, spos, failures, void>>
  BY WriteHdrSound DEF Sound, LocalOK, WriteHdr, ram, local
<1>2. Programs(flash, flash', <<current, pos, "hdr">>, "start")
  BY DEF WriteHdr, flash_program, Programs
<1>3. /\ ChangesSlot(flash, flash', current, pos)
      /\ flash'[<<current, pos, "key">>] = flash[<<current, pos, "key">>]
      /\ flash'[<<current, pos, "val">>] = flash[<<current, pos, "val">>]
  BY <1>1, <1>2, ProgramHdr
<1>4. /\ SameBut(flash, flash', current, pos)
      /\ \A t \in Store : Valid(flash', t) <=> Valid(flash, t)
      /\ \A t \in Store : t # current => SameRecords(flash, flash', t)
  BY <1>1, <1>3, SlotReads
<1>5. /\ flash[<<current, pos, "hdr">>] = Erased
      /\ flash[<<current, pos, "key">>] = Erased
      /\ flash'[<<current, pos, "hdr">>] = "start"
  <2>1. pos > pos - 1
    BY <1>1, KvAssumption DEF Slot
  <2>2. <<current, pos, "hdr">> \in Word
    BY <1>1, Words
  <2> QED
    BY <1>1, <1>2, <2>1, <2>2, ProgramIs DEF Layout
<1>6. SetCall /\ SetCall'
  BY <1>1 DEF DataSound, CallOK, SetCall
<1>7. \A k \in Key : Records(flash', current, k) = Records(flash, current, k)
                     /\ pos \notin Records(flash, current, k)
  BY <1>3, <1>4, <1>5, KvAssumption DEF Records, SameBut
<1>8. MapStep
  <2> SUFFICES ASSUME NEW k \in Key
               PROVE  kv_get_val(flash', current', k) = kv_get_val(flash, current, k)
                      /\ Hidden(k)' = Hidden(k)
    BY <1>1, MapStands DEF Mem, Limbo
  <2>1. \A i \in Records(flash, current, k) :
          flash'[<<current, i, "val">>] = flash[<<current, i, "val">>]
    BY <1>4, <1>7 DEF SameBut, Records
  <2> QED
    BY <1>1, <1>4, <1>7, <2>1, KeyReads
<1>9. DataOK'
  <2>1. \A i \in Slot : /\ flash'[<<current, i, "key">>] = flash[<<current, i, "key">>]
                        /\ flash'[<<current, i, "val">>] = flash[<<current, i, "val">>]
    BY <1>3, <1>4 DEF SameBut
  <2>2. \A t \in Store, i \in Slot : t # current =>
           /\ flash'[<<t, i, "key">>] = flash[<<t, i, "key">>]
           /\ flash'[<<t, i, "val">>] = flash[<<t, i, "val">>]
    BY <1>4 DEF SameRecords
  <2> QED
    BY <2>1, <2>2 DEF DataSound, DataOK
<1>10. CallOK'
  BY <1>1, <1>6 DEF CallOK
<1>11. NewOK'
  BY <1>1, <1>5 DEF DataSound, NewOK
<1>12. ExtraOK'
  <2>1. New(current) = {} /\ New(current)' = {pos}
    BY <1>1, <1>6 DEF New, NewSlot
  <2>2. ASSUME NEW i \in Extra(flash', current, Room + 1), i # pos
        PROVE  i \in Extra(flash, current, Room + 1)
    <3>1. /\ i \in Slot /\ i < Room + 1
          /\ flash'[<<current, i, "hdr">>] = "start"
          /\ \A k \in Key : flash'[<<current, i, "key">>] = k =>
               \E j \in Records(flash', current, k) : j < i
      BY <2>2 DEF Extra
    <3>2. /\ flash'[<<current, i, "hdr">>] = flash[<<current, i, "hdr">>]
          /\ flash'[<<current, i, "key">>] = flash[<<current, i, "key">>]
      BY <1>4, <2>2, <3>1 DEF SameBut
    <3> QED
      BY <1>7, <3>1, <3>2 DEF Extra
  <2>3. Extra(flash', current, Room + 1) \ New(current)'
           \subseteq Extra(flash, current, Room + 1) \ New(current)
    BY <2>1, <2>2
  <2> QED
    BY <1>1, <1>4, <2>3, ExtraShrinks
<1>13. CopyOK'
  BY <1>1 DEF CopyOK
<1> QED
  BY <1>8, <1>9, <1>10, <1>11, <1>12, <1>13 DEF DataSound

(* A record behind those of a key, of some value.                          *)
LEMMA KeyWritten ==
  ASSUME NEW k \in Key, UNCHANGED current, Valid(flash, current), Valid(flash', current),
         NEW i \in Slot, \A j \in Records(flash, current, k) : j < i,
         SameBut(flash, flash', current, i),
         Records(flash', current, k) = Records(flash, current, k) \cup {i},
         flash'[<<current, i, "val">>] = Erased, call.val # NULL
  PROVE  MayRead(k)
<1> DEFINE R == Records(flash, current, k)
<1>1. R \in SUBSET Slot /\ i \notin R
  BY KvAssumption DEF Records, Slot
<1>2. \A j \in R : flash'[<<current, j, "val">>] = flash[<<current, j, "val">>]
  BY <1>1 DEF SameBut
<1>3. /\ FirstOf(flash', current, R) = FirstOf(flash, current, R)
      /\ RestOf(flash', current, R) = RestOf(flash, current, R)
  BY <1>1, <1>2, SameVals
<1>4. AddsLast(flash', current, R, i)
  BY <1>1, AddLast
<1>5. /\ Mem[k] = FirstOf(flash, current, R)
      /\ Limbo[k] = RestOf(flash, current, R)
      /\ Mem'[k] = FirstOf(flash', current, R \cup {i})
      /\ Limbo'[k] = RestOf(flash', current, R \cup {i})
  BY KeyReads DEF Mem, Limbo
<1> HIDE DEF R
<1>6. CASE R = {}
  <2>1. Mem'[k] = Erased /\ Limbo'[k] = {}
    BY <1>4, <1>5, <1>6 DEF AddsLast
  <2>2. Mem[k] = NULL
    BY <1>5, <1>6 DEF FirstOf
  <2> QED
    BY <2>1, <2>2 DEF MayRead
<1>7. CASE R # {}
  <2>1. Mem'[k] = Mem[k] /\ Limbo'[k] = Limbo[k] \cup {Erased}
    BY <1>3, <1>4, <1>5, <1>7 DEF AddsLast
  <2> QED
    BY <2>1 DEF MayRead
<1> QED
  BY <1>6, <1>7

LEMMA WriteKeyKeeps ==
  ASSUME Sound, DataSound, failures \in Nat, ~void, WriteKey
  PROVE  DataSound' /\ MapStep
<1>1. /\ Typed(flash) /\ Layout(flash, current, pos) /\ pos \in Slot /\ current \in Store
      /\ Valid(flash, current)
      /\ flash[<<current, pos, "key">>] = Erased
      /\ flash[<<current, pos, "val">>] = Erased
      /\ pc = "key" /\ pc' = "val"
      /\ UNCHANGED <<current, pos, call, ppos, dst, dpos, spos, failures, void>>
  BY DEF Sound, LocalOK, CurrentOK, WriteKey, ram, local
<1>2. SetCall /\ SetCall' /\ flash[<<current, pos, "hdr">>] = "start"
  BY <1>1 DEF DataSound, CallOK, NewOK, SetCall
<1>3. PICK k \in call.keys : Programs(flash, flash', <<current, pos, "key">>, k)
  BY DEF WriteKey, flash_program, Programs
<1>4. /\ k \in Key /\ call.keys = {k} /\ call # NULL /\ call.val \in Val /\ call.val # NULL
  <2>1. PICK j \in Key : \E v \in Val : call = [keys |-> {j}, val |-> v]
    BY <1>2 DEF SetCall
  <2>2. call # NULL
    BY <1>1, KvAssumption DEF Sound, LocalOK, Calls
  <2> QED
    BY <1>3, <2>1, <2>2, KvAssumption
<1>5. /\ ChangesSlot(flash, flash', current, pos)
      /\ flash'[<<current, pos, "val">>] = flash[<<current, pos, "val">>]
  BY <1>1, <1>2, <1>3, KvAssumption, ProgramKey
<1>6. /\ flash'[<<current, pos, "hdr">>] = "start"
      /\ flash'[<<current, pos, "key">>] = k
  <2>1. <<current, pos, "hdr">> \in Word /\ <<current, pos, "key">> \in Word
    BY <1>1, Words
  <2> QED
    BY <1>1, <1>2, <1>3, <2>1, ProgramIs
<1>7. /\ SameBut(flash, flash', current, pos)
      /\ \A t \in Store : Valid(flash', t) <=> Valid(flash, t)
      /\ \A t \in Store : t # current => SameRecords(flash, flash', t)
  BY <1>1, <1>5, SlotReads
<1>8. \A kk \in Key : pos \notin Records(flash, current, kk)
  BY <1>1, KvAssumption DEF Records
<1>9. \A kk \in Key : \A j \in Records(flash, current, kk) : j < pos
  <2>1. ASSUME NEW kk \in Key, NEW j \in Records(flash, current, kk) PROVE j < pos
    <3>1. j \in Slot /\ flash[<<current, j, "hdr">>] = "start" /\ j # pos
      BY <1>8 DEF Records
    <3>2. ~(j > pos)
      BY <1>1, <3>1, KvAssumption DEF Layout
    <3> QED
      BY <1>1, <3>1, <3>2, KvAssumption DEF Slot
  <2> QED
    BY <2>1
<1>10. Records(flash', current, k) = Records(flash, current, k) \cup {pos}
  BY <1>1, <1>6, <1>7 DEF Records, SameBut
<1>11. \A kk \in Key \ {k} : Records(flash', current, kk) = Records(flash, current, kk)
  BY <1>6, <1>7, <1>8 DEF Records, SameBut
<1>12. MapStep
  <2>1. MayRead(k)
    BY <1>1, <1>4, <1>5, <1>7, <1>9, <1>10, KeyWritten
  <2>2. ASSUME NEW kk \in Key \ {k} PROVE SameRead(kk)
    <3>1. \A i \in Records(flash, current, kk) :
            flash'[<<current, i, "val">>] = flash[<<current, i, "val">>]
      BY <1>7, <1>8 DEF SameBut, Records
    <3>2. /\ kv_get_val(flash', current', kk) = kv_get_val(flash, current, kk)
          /\ Hidden(kk)' = Hidden(kk)
      BY <1>1, <1>7, <1>11, <2>2, <3>1, KeyReads
    <3> QED
      BY <3>2 DEF SameRead, Mem, Limbo
  <2> QED
    BY <1>1, <1>4, <2>1, <2>2, MapEffects
<1>13. DataOK'
  <2>1. \A i \in Slot : /\ flash'[<<current, i, "key">>] \in Key \cup {Erased}
                        /\ flash'[<<current, i, "val">>] = flash[<<current, i, "val">>]
    BY <1>1, <1>4, <1>5, <1>6, <1>7 DEF SameBut, DataSound, DataOK
  <2>2. \A t \in Store, i \in Slot : t # current =>
           /\ flash'[<<t, i, "key">>] = flash[<<t, i, "key">>]
           /\ flash'[<<t, i, "val">>] = flash[<<t, i, "val">>]
    BY <1>7 DEF SameRecords
  <2> QED
    BY <2>1, <2>2 DEF DataSound, DataOK
<1>14. CallOK' /\ CopyOK'
  BY <1>1, <1>2 DEF CallOK, CopyOK
<1>15. NewOK'
  BY <1>1, <1>3, <1>6 DEF DataSound, NewOK
<1>16. ExtraOK'
  <2>1. New(current) = {pos} /\ New(current)' = {pos}
    BY <1>1, <1>2 DEF New, NewSlot
  <2>2. ASSUME NEW i \in Extra(flash', current, Room + 1), i # pos
        PROVE  i \in Extra(flash, current, Room + 1)
    <3>1. /\ i \in Slot /\ i < Room + 1
          /\ flash'[<<current, i, "hdr">>] = "start"
          /\ \A kk \in Key : flash'[<<current, i, "key">>] = kk =>
               \E j \in Records(flash', current, kk) : j < i
      BY <2>2 DEF Extra
    <3>2. /\ flash'[<<current, i, "hdr">>] = flash[<<current, i, "hdr">>]
          /\ flash'[<<current, i, "key">>] = flash[<<current, i, "key">>]
      BY <1>7, <2>2, <3>1 DEF SameBut
    <3>3. ASSUME NEW kk \in Key, flash[<<current, i, "key">>] = kk
          PROVE  \E j \in Records(flash, current, kk) : j < i
      <4>1. PICK j \in Records(flash', current, kk) : j < i
        BY <3>1, <3>2, <3>3
      <4>2. i < pos
        BY <1>9, <3>1, <3>2, <3>3 DEF Records
      <4>3. j # pos
        BY <1>1, <3>1, <4>1, <4>2, KvAssumption DEF Slot
      <4> QED
        BY <1>10, <1>11, <4>1, <4>3
    <3> QED
      BY <3>1, <3>2, <3>3 DEF Extra
  <2>3. Extra(flash', current, Room + 1) \ New(current)'
           \subseteq Extra(flash, current, Room + 1) \ New(current)
    BY <2>1, <2>2
  <2> QED
    BY <1>1, <1>7, <2>3, ExtraShrinks
<1> QED
  BY <1>12, <1>13, <1>14, <1>15, <1>16 DEF DataSound

LEMMA WriteValKeeps ==
  ASSUME Sound, DataSound, failures \in Nat, ~void, WriteVal
  PROVE  DataSound' /\ MapStep
<1>1. /\ Typed(flash) /\ pos \in Slot /\ current \in Store
      /\ Valid(flash, current)
      /\ pc = "val" /\ pc' = "invalidate" /\ pos' = pos + 1
      /\ UNCHANGED <<current, call, ppos, dst, dpos, spos, failures, void>>
  BY DEF Sound, LocalOK, CurrentOK, WriteVal, local
<1>2. /\ SetCall /\ SetCall'
      /\ flash[<<current, pos, "hdr">>] = "start"
      /\ flash[<<current, pos, "key">>] \in call.keys
      /\ ppos = pos \/ (ppos = 0 /\ pos = 1)
  BY <1>1 DEF DataSound, CallOK, NewOK, SetCall
<1>3. /\ call # NULL /\ call.keys \subseteq Key /\ call.val \in Val
      /\ \A k \in call.keys : call.keys = {k}
      /\ ~DeleteCall'
  <2>1. PICK k \in Key : \E v \in Val : call = [keys |-> {k}, val |-> v]
    BY <1>2 DEF SetCall
  <2>2. call # NULL
    BY <1>1, KvAssumption DEF Sound, LocalOK, Calls
  <2>3. call.val \in Val /\ call.val # NULL /\ call.keys = {k}
    BY <2>1, KvAssumption
  <2>4. ~DeleteCall'
    BY <1>1, <2>3 DEF DeleteCall
  <2> QED
    BY <2>2, <2>3, <2>4
<1>4. Programs(flash, flash', <<current, pos, "val">>, call.val)
  BY DEF WriteVal, flash_program, Programs
<1>5. ChangesSlot(flash, flash', current, pos)
  BY <1>1, <1>2, <1>4, KvAssumption, ProgramVal
<1>6. /\ flash'[<<current, pos, "hdr">>] = flash[<<current, pos, "hdr">>]
      /\ flash'[<<current, pos, "key">>] = flash[<<current, pos, "key">>]
      /\ flash'[<<current, pos, "val">>] = call.val
  <2>1. /\ <<current, pos, "hdr">> \in Word
        /\ <<current, pos, "key">> \in Word
        /\ <<current, pos, "val">> \in Word
    BY <1>1, Words
  <2> QED
    BY <1>1, <1>4, <2>1, ProgramIs
<1>7. /\ SameBut(flash, flash', current, pos)
      /\ \A t \in Store : Valid(flash', t) <=> Valid(flash, t)
      /\ \A t \in Store : t # current => SameRecords(flash, flash', t)
  BY <1>1, <1>5, SlotReads
<1>8. /\ \A i \in Slot : /\ flash'[<<current, i, "hdr">>] = flash[<<current, i, "hdr">>]
                         /\ flash'[<<current, i, "key">>] = flash[<<current, i, "key">>]
      /\ \A i \in Slot :
           flash'[<<current, i, "val">>] \in {flash[<<current, i, "val">>], call.val}
  BY <1>6, <1>7 DEF SameBut
<1>9. \A k : Records(flash', current, k) = Records(flash, current, k)
  BY <1>8 DEF Records
<1>10. MapStep
  <2>1. ASSUME NEW k \in call.keys PROVE MayRead(k)
    <3> DEFINE R == Records(flash, current, k)
    <3>1. R \in SUBSET Slot
      BY DEF Records
    <3>2. /\ Mem[k] = FirstOf(flash, current, R)
          /\ Limbo[k] = RestOf(flash, current, R)
          /\ Mem'[k] = FirstOf(flash', current, R)
          /\ Limbo'[k] = RestOf(flash', current, R)
      BY <1>1, <1>3, <1>7, <1>9, <2>1, KeyReads DEF Mem, Limbo
    <3> HIDE DEF R
    <3>3. FirstOf(flash', current, R) \in {FirstOf(flash, current, R), call.val}
      BY <1>8, <3>1, MinIs DEF FirstOf
    <3>4. RestOf(flash', current, R) \subseteq RestOf(flash, current, R) \cup {call.val}
      BY <1>8, <3>1 DEF RestOf
    <3> QED
      BY <3>2, <3>3, <3>4 DEF MayRead
  <2>2. ASSUME NEW k \in Key \ call.keys PROVE SameRead(k)
    <3>1. \A i \in Records(flash, current, k) :
            flash'[<<current, i, "val">>] = flash[<<current, i, "val">>]
      BY <1>2, <1>7 DEF SameBut, Records
    <3>2. /\ kv_get_val(flash', current', k) = kv_get_val(flash, current, k)
          /\ Hidden(k)' = Hidden(k)
      BY <1>1, <1>7, <1>9, <3>1, KeyReads
    <3> QED
      BY <3>2 DEF SameRead, Mem, Limbo
  <2> QED
    BY <1>1, <1>3, <2>1, <2>2, MapEffects
<1>11. DataOK'
  <2>1. \A i \in Slot : /\ flash'[<<current, i, "key">>] \in Key \cup {Erased}
                        /\ flash'[<<current, i, "val">>] \in Val \cup {Erased}
    BY <1>1, <1>3, <1>8 DEF DataSound, DataOK
  <2>2. \A t \in Store, i \in Slot : t # current =>
           /\ flash'[<<t, i, "key">>] = flash[<<t, i, "key">>]
           /\ flash'[<<t, i, "val">>] = flash[<<t, i, "val">>]
    BY <1>7 DEF SameRecords
  <2> QED
    BY <1>1, <2>1, <2>2 DEF DataSound, DataOK
<1>12. CallOK' /\ CopyOK'
  BY <1>1, <1>2 DEF CallOK, CopyOK
<1>13. NewSlot' = pos /\ NewSlot = pos
  <2>1. pos \in Nat
    BY <1>1, KvAssumption DEF Slot
  <2> QED
    BY <1>1, <2>1 DEF NewSlot
<1>14. NewOK'
  <2>1. Valid(flash', current')
    BY <1>1, <1>7
  <2> QED
    BY <1>1, <1>2, <1>3, <1>6, <1>13, <2>1 DEF NewOK
<1>15. ExtraOK'
  <2>1. New(current) = {pos} /\ New(current)' = {pos}
    BY <1>1, <1>2, <1>13 DEF New
  <2>2. Extra(flash', current, Room + 1) = Extra(flash, current, Room + 1)
    BY <1>8, <1>9 DEF Extra
  <2> QED
    BY <1>1, <1>7, <2>1, <2>2, ExtraShrinks
<1> QED
  BY <1>10, <1>11, <1>12, <1>14, <1>15 DEF DataSound

-----------------------------------------------------------------------------
(* The other records of the key.                                           *)

LEMMA InvalidateCall ==
  ASSUME Sound, DataSound, pc = "invalidate"
  PROVE  /\ Typed(flash) /\ current \in Store /\ pos = StoreInit(flash, current)
         /\ ppos \in Nat
         /\ call # NULL
         /\ \E k \in Key : call.keys = {k}
         /\ \/ DeleteCall /\ ~SetCall /\ ppos = pos /\ call.val = NULL
            \/ SetCall /\ ~DeleteCall /\ Valid(flash, current)
<1>1. Typed(flash) /\ current \in Store /\ pos = StoreInit(flash, current) /\ ppos \in Nat
  BY DEF Sound, LocalOK, CurrentOK
<1>2. call # NULL
  BY KvAssumption DEF Sound, LocalOK, Calls
<1>3. CASE SetCall
  <2>1. PICK k \in Key : \E v \in Val : call = [keys |-> {k}, val |-> v]
    BY <1>3 DEF SetCall
  <2>2. call.val # NULL /\ call.keys = {k}
    BY <2>1, KvAssumption
  <2>3. ~DeleteCall
    BY <2>2 DEF DeleteCall
  <2> QED
    BY <1>1, <1>2, <1>3, <2>2, <2>3 DEF DataSound, NewOK
<1>4. CASE ~SetCall
  <2>1. DeleteCall
    BY <1>4 DEF DataSound, CallOK
  <2>2. PICK k \in Key : call = [keys |-> {k}, val |-> NULL]
    BY <2>1 DEF DeleteCall
  <2>3. call.val = NULL /\ call.keys = {k}
    BY <2>2
  <2> QED
    BY <1>1, <1>2, <1>4, <2>1, <2>3 DEF DataSound, NewOK
<1> QED
  BY <1>3, <1>4

LEMMA InvalidateReturns ==
  ASSUME Sound, DataSound, failures \in Nat, ~void, pc = "invalidate",
         {i \in UNION {Records(flash, current, k) : k \in call.keys} : i < ppos} = {},
         End, UNCHANGED <<flash, current, pos, failures, void>>
  PROVE  DataSound' /\ MapStep
<1> USE DEF End
<1>1. /\ current \in Store /\ pos = StoreInit(flash, current) /\ ppos \in Nat /\ call # NULL
      /\ \/ DeleteCall /\ ~SetCall /\ ppos = pos /\ call.val = NULL
         \/ SetCall /\ ~DeleteCall /\ Valid(flash, current)
  BY InvalidateCall
<1>2. PICK k \in Key : call.keys = {k}
  BY InvalidateCall
<1>3. \A i \in Records(flash, current, k) : ~(i < ppos)
  BY <1>2
<1>4. PICK n \in 0..Room : Layout(flash, current, n)
  BY <1>1 DEF Sound, StoresOK
<1>5. /\ n \in Nat
      /\ Valid(flash, current) => pos = n + 1
      /\ \A i \in Records(flash, current, k) : i \in Slot /\ i \in Nat /\ 1 <= i /\ i <= n
  <2>1. \A i \in Slot : i \in Nat /\ 1 <= i
    BY KvAssumption DEF Slot
  <2>2. ASSUME NEW i \in Records(flash, current, k) PROVE i <= n
    <3>1. i \in Slot /\ flash[<<current, i, "hdr">>] = "start"
      BY DEF Records
    <3>2. ~(i > n)
      BY <1>4, <3>1, KvAssumption DEF Layout
    <3> QED
      BY <2>1, <3>1, <3>2, KvAssumption
  <2>3. Valid(flash, current) => pos = n + 1
    BY <1>1, <1>4, PosIs
  <2> QED
    BY <2>1, <2>2, <2>3, KvAssumption DEF Records
<1>6. /\ Mem[k] = call.val /\ Limbo[k] = {}
      /\ \A i \in New(current) : \A j \in Records(flash, current, k) : ~(j < i)
      /\ New(current) \subseteq Records(flash, current, k)
  <2>1. CASE DeleteCall
    <3>1. Valid(flash, current) => Records(flash, current, k) = {}
      BY <1>1, <1>3, <1>5, <2>1
    <3>2. Reads(flash, current, k) = {}
      BY <3>1 DEF Reads
    <3> QED
      BY <1>1, <2>1, <3>2, ReadsIs DEF New, Mem, Limbo, FirstOf, RestOf
  <2>2. CASE SetCall
    <3>1. /\ NewSlot \in Slot /\ (ppos = NewSlot \/ (ppos = 0 /\ NewSlot = 1))
          /\ flash[<<current, NewSlot, "hdr">>] = "start"
          /\ flash[<<current, NewSlot, "key">>] = k
          /\ flash[<<current, NewSlot, "val">>] = call.val
          /\ Valid(flash, current)
      BY <1>2, <2>2 DEF DataSound, NewOK
    <3>2. NewSlot = pos - 1
      BY DEF NewSlot
    <3>3. NewSlot = n
      BY <1>5, <3>1, <3>2
    <3>4. NewSlot \in Records(flash, current, k)
      BY <3>1 DEF Records
    <3>5. Records(flash, current, k) = {n}
      <4> SUFFICES ASSUME NEW i \in Records(flash, current, k) PROVE i = n
        BY <3>3, <3>4
      <4>1. ~(i < ppos) /\ i \in Nat /\ 1 <= i /\ i <= n
        BY <1>3, <1>5
      <4> QED
        BY <1>1, <1>5, <3>1, <3>3, <4>1
    <3>6. New(current) = {n}
      BY <2>2, <3>3 DEF New
    <3>7. Reads(flash, current, k) = {n}
      BY <3>1, <3>5 DEF Reads
    <3>8. Min({n}) = n
      <4>1. {n} \in SUBSET Slot /\ n \in {n} /\ \A j \in {n} : n <= j
        BY <1>5, <3>1, <3>3
      <4> QED
        BY <4>1, MinIsTheLeast
    <3>9. FirstOf(flash, current, {n}) = call.val
      BY <3>1, <3>3, <3>8 DEF FirstOf
    <3>10. RestOf(flash, current, {n}) = {}
      <4>1. {j \in {n} : \E first \in {n} : first < j} = {}
        BY <1>5
      <4> QED
        BY <4>1 DEF RestOf
    <3>11. Mem[k] = call.val /\ Limbo[k] = {}
      BY <3>7, <3>9, <3>10, ReadsIs DEF Mem, Limbo
    <3> QED
      BY <1>5, <3>5, <3>6, <3>11
  <2> QED
    BY <1>1, <2>1, <2>2
<1>7. MapStep
  <2>1. UNCHANGED <<Mem, Limbo>>
    BY <1>1, SameFlash, ReadsUnchanged
  <2>2. /\ \A j \in call.keys : Mem'[j] = call.val /\ Limbo'[j] = {}
        /\ \A j \in Key \ call.keys : SameRead(j)
    BY <1>2, <1>6, <2>1 DEF SameRead
  <2> QED
    BY <1>1, <1>2, <2>2, MapReturns
<1>8. ExtraOK'
  <2>1. New(current)' = {}
    BY DEF New
  <2>2. ASSUME NEW i \in Extra(flash, current, Room + 1) PROVE i \notin New(current)
    <3> SUFFICES ASSUME i \in New(current) PROVE FALSE
      OBVIOUS
    <3>1. flash[<<current, i, "key">>] = k
      BY <1>6 DEF Records
    <3>2. PICK j \in Records(flash, current, k) : j < i
      BY <3>1 DEF Extra
    <3> QED
      BY <1>6, <3>2
  <2>3. Extra(flash', current, Room + 1) \ New(current)'
           \subseteq Extra(flash, current, Room + 1) \ New(current)
    BY <2>1, <2>2
  <2> QED
    BY <1>1, <2>3, SameFlash, ExtraShrinks
<1>9. DataOK'
  BY DEF DataSound, DataOK
<1> QED
  BY <1>7, <1>8, <1>9 DEF DataSound, CallOK, NewOK, CopyOK

LEMMA InvalidateOne ==
  ASSUME Sound, DataSound, failures \in Nat, ~void, pc = "invalidate",
         NEW i \in UNION {Records(flash, current, k) : k \in call.keys}, i < ppos,
         \A j \in UNION {Records(flash, current, k) : k \in call.keys} : j < ppos => i <= j,
         flash_program(<<current, i, "hdr">>, "deleted"),
         UNCHANGED <<current, pos, pc, call, local, failures, void>>
  PROVE  DataSound' /\ MapStep
<1> USE DEF local
<1>1. /\ Typed(flash) /\ current \in Store /\ pos = StoreInit(flash, current) /\ ppos \in Nat
      /\ call # NULL
      /\ \/ DeleteCall /\ ~SetCall /\ ppos = pos /\ call.val = NULL
         \/ SetCall /\ ~DeleteCall /\ Valid(flash, current)
  BY InvalidateCall
<1>2. PICK k \in Key : call.keys = {k}
  BY InvalidateCall
<1>3. /\ i \in Records(flash, current, k) /\ i \in Slot /\ i \in Nat /\ i # 0
      /\ flash[<<current, i, "hdr">>] = "start"
      /\ flash[<<current, i, "key">>] = k
  <2>1. i \in Records(flash, current, k)
    BY <1>2
  <2> QED
    BY <2>1, KvAssumption DEF Records, Slot
<1>4. \A j \in Records(flash, current, k) : i <= j
  <2> SUFFICES ASSUME NEW j \in Records(flash, current, k) PROVE i <= j
    OBVIOUS
  <2>1. j < ppos => i <= j
    BY <1>2
  <2>2. j \in Nat
    BY KvAssumption DEF Records, Slot
  <2> QED
    BY <1>1, <1>3, <2>1, <2>2
<1>5. Valid(flash, current)
  BY <1>1, <1>3 DEF StoreInit
<1>6. Programs(flash, flash', <<current, i, "hdr">>, "deleted")
  BY DEF flash_program, Programs
<1>7. /\ ChangesSlot(flash, flash', current, i)
      /\ flash'[<<current, i, "key">>] = flash[<<current, i, "key">>]
      /\ flash'[<<current, i, "val">>] = flash[<<current, i, "val">>]
  BY <1>1, <1>3, <1>6, ProgramHdr
<1>8. flash'[<<current, i, "hdr">>] = "deleted"
  <2>1. <<current, i, "hdr">> \in Word
    BY <1>1, <1>3, Words
  <2> QED
    BY <1>1, <1>6, <2>1, ProgramIs
<1>9. /\ SameBut(flash, flash', current, i)
      /\ \A t \in Store : Valid(flash', t) <=> Valid(flash, t)
      /\ \A t \in Store : t # current => SameRecords(flash, flash', t)
  BY <1>1, <1>3, <1>7, SlotReads
<1>10. /\ \A j \in Slot : /\ flash'[<<current, j, "key">>] = flash[<<current, j, "key">>]
                          /\ flash'[<<current, j, "val">>] = flash[<<current, j, "val">>]
       /\ \A j \in Slot : flash'[<<current, j, "hdr">>] = "start"
                            <=> (flash[<<current, j, "hdr">>] = "start" /\ j # i)
  BY <1>7, <1>8, <1>9 DEF SameBut
<1>11. \A m : Records(flash', current, m) = Records(flash, current, m) \ {i}
  BY <1>10 DEF Records
<1>12. \A m \in Key \ {k} : Records(flash', current, m) = Records(flash, current, m)
  BY <1>3, <1>10 DEF Records
<1>13. SetCall =>
         /\ NewSlot \in Slot /\ (ppos = NewSlot \/ (ppos = 0 /\ NewSlot = 1))
         /\ flash[<<current, NewSlot, "hdr">>] = "start"
         /\ flash[<<current, NewSlot, "key">>] = k
         /\ flash[<<current, NewSlot, "val">>] = call.val
         /\ NewSlot # i
  <2> SUFFICES ASSUME SetCall
               PROVE  /\ NewSlot \in Slot /\ (ppos = NewSlot \/ (ppos = 0 /\ NewSlot = 1))
                      /\ flash[<<current, NewSlot, "hdr">>] = "start"
                      /\ flash[<<current, NewSlot, "key">>] = k
                      /\ flash[<<current, NewSlot, "val">>] = call.val
                      /\ NewSlot # i
    OBVIOUS
  <2>1. /\ NewSlot \in Slot /\ (ppos = NewSlot \/ (ppos = 0 /\ NewSlot = 1))
        /\ flash[<<current, NewSlot, "hdr">>] = "start"
        /\ flash[<<current, NewSlot, "key">>] \in call.keys
        /\ flash[<<current, NewSlot, "val">>] = call.val
    BY DEF DataSound, NewOK
  <2>2. ppos = NewSlot
    BY <1>1, <1>3, <2>1
  <2> QED
    BY <1>2, <1>3, <2>1, <2>2
<1>14. MapStep
  <2>1. MayRead(k)
    <3> DEFINE R == Records(flash, current, k)
    <3>1. R \in SUBSET Slot /\ i \in R /\ \A j \in R : i <= j
      BY <1>3, <1>4 DEF Records
    <3>2. /\ Mem[k] = FirstOf(flash, current, R)
          /\ Limbo[k] = RestOf(flash, current, R)
          /\ Mem'[k] = FirstOf(flash', current, R \ {i})
          /\ Limbo'[k] = RestOf(flash', current, R \ {i})
      <4>1. Valid(flash', current) <=> Valid(flash, current)
        BY <1>1, <1>9
      <4> QED
        BY <1>5, <1>11, <4>1, KeyReads DEF Mem, Limbo
    <3>3. R \ {i} = {} => call.val = NULL
      <4>1. SetCall => NewSlot \in R \ {i}
        BY <1>13 DEF Records
      <4> QED
        BY <1>1, <4>1
    <3> HIDE DEF R
    <3>4. /\ FirstOf(flash', current, R \ {i}) = FirstOf(flash, current, R \ {i})
          /\ RestOf(flash', current, R \ {i}) = RestOf(flash, current, R \ {i})
      <4>1. R \ {i} \in SUBSET Slot
        BY <3>1
      <4>2. \A j \in R \ {i} : flash'[<<current, j, "val">>] = flash[<<current, j, "val">>]
        BY <1>10, <4>1
      <4> QED
        BY <4>1, <4>2, SameVals
    <3>5. /\ R \ {i} # {} => FirstOf(flash, current, R \ {i}) \in RestOf(flash, current, R)
          /\ RestOf(flash, current, R \ {i}) \subseteq RestOf(flash, current, R)
      BY <3>1, DropFirst
    <3>6. CASE R \ {i} = {}
      <4>1. Mem'[k] = call.val
        BY <3>2, <3>3, <3>6 DEF FirstOf
      <4> QED
        BY <3>2, <3>4, <3>5, <4>1 DEF MayRead
    <3>7. CASE R \ {i} # {}
      BY <3>2, <3>4, <3>5, <3>7 DEF MayRead
    <3> QED
      BY <3>6, <3>7
  <2>2. ASSUME NEW m \in Key \ {k} PROVE SameRead(m)
    <3>1. \A j \in Records(flash, current, m) :
            flash'[<<current, j, "val">>] = flash[<<current, j, "val">>]
      BY <1>10 DEF Records
    <3>2. /\ kv_get_val(flash', current', m) = kv_get_val(flash, current, m)
          /\ Hidden(m)' = Hidden(m)
      BY <1>1, <1>9, <1>12, <2>2, <3>1, KeyReads
    <3> QED
      BY <3>2 DEF SameRead, Mem, Limbo
  <2> QED
    BY <1>1, <1>2, <2>1, <2>2, MapEffects
<1>15. DataOK'
  <2>1. \A t \in Store, j \in Slot : t # current =>
           /\ flash'[<<t, j, "key">>] = flash[<<t, j, "key">>]
           /\ flash'[<<t, j, "val">>] = flash[<<t, j, "val">>]
    BY <1>9 DEF SameRecords
  <2> QED
    BY <1>1, <1>10, <2>1 DEF DataSound, DataOK
<1>16. (SetCall <=> SetCall') /\ (DeleteCall <=> DeleteCall') /\ NewSlot' = NewSlot
  BY DEF SetCall, DeleteCall, NewSlot
<1>17. CallOK' /\ CopyOK'
  BY <1>16 DEF DataSound, CallOK, CopyOK
<1>18. NewOK'
  <2>1. Valid(flash', current')
    BY <1>1, <1>5, <1>9
  <2>2. SetCall =>
         /\ flash'[<<current, NewSlot, "hdr">>] = "start"
         /\ flash'[<<current, NewSlot, "key">>] = k
         /\ flash'[<<current, NewSlot, "val">>] = call.val
    BY <1>10, <1>13
  <2> QED
    BY <1>1, <1>2, <1>13, <1>16, <2>1, <2>2 DEF NewOK
<1>19. ExtraOK'
  <2>1. New(current)' = New(current)
    BY <1>16 DEF New
  <2>2. ASSUME NEW j \in Extra(flash', current, Room + 1)
        PROVE  j \in Extra(flash, current, Room + 1)
    <3>1. /\ j \in Slot /\ j < Room + 1
          /\ flash'[<<current, j, "hdr">>] = "start"
          /\ \A m \in Key : flash'[<<current, j, "key">>] = m =>
               \E l \in Records(flash', current, m) : l < j
      BY DEF Extra
    <3>2. /\ flash[<<current, j, "hdr">>] = "start"
          /\ flash'[<<current, j, "key">>] = flash[<<current, j, "key">>]
      BY <1>10, <3>1
    <3> QED
      BY <1>11, <3>1, <3>2 DEF Extra
  <2>3. Extra(flash', current, Room + 1) \ New(current)'
           \subseteq Extra(flash, current, Room + 1) \ New(current)
    BY <2>1, <2>2
  <2> QED
    BY <1>1, <1>9, <2>3, ExtraShrinks
<1> QED
  BY <1>14, <1>15, <1>17, <1>18, <1>19 DEF DataSound

LEMMA InvalidateKeeps ==
  ASSUME Sound, DataSound, failures \in Nat, ~void, Invalidate
  PROVE  DataSound' /\ MapStep
<1> DEFINE all == UNION {Records(flash, current, k) : k \in call.keys}
           old == {i \in all : i < ppos}
<1>1. pc = "invalidate" /\ UNCHANGED <<current, pos, failures, void>>
  BY DEF Invalidate
<1>2. \/ old = {} /\ End /\ UNCHANGED flash
      \/ \E i \in old : /\ \A j \in old : i <= j
                        /\ flash_program(<<current, i, "hdr">>, "deleted")
                        /\ UNCHANGED <<pc, call, local>>
  BY DEF Invalidate
<1>3. CASE old = {} /\ End /\ UNCHANGED flash
  BY <1>1, <1>3, InvalidateReturns
<1>4. ASSUME NEW i \in all, i < ppos, \A j \in all : j < ppos => i <= j,
             flash_program(<<current, i, "hdr">>, "deleted"),
             UNCHANGED <<pc, call, local>>
      PROVE  DataSound' /\ MapStep
  BY <1>1, <1>4, InvalidateOne
<1> QED
  BY <1>2, <1>3, <1>4

-----------------------------------------------------------------------------
(* Erasure, and failures of the power.                                     *)

LEMMA NothingReads ==
  ASSUME NEW f, NEW s, Layout(f, s, 0)
  PROVE  /\ \A i \in Slot, x \in {"hdr", "key", "val"} : f[<<s, i, x>>] = Erased
         /\ \A k : Reads(f, s, k) = {}
         /\ \A n : Extra(f, s, n) = {}
<1>1. \A i \in Slot : i > 0
  BY KvAssumption DEF Slot
<1>2. \A i \in Slot, x \in {"hdr", "key", "val"} : f[<<s, i, x>>] = Erased
  BY <1>1 DEF Layout
<1>3. \A i \in Slot : f[<<s, i, "hdr">>] # "start"
  BY <1>2, KvAssumption
<1> QED
  BY <1>2, <1>3 DEF Reads, Records, Extra

LEMMA EraseCall ==
  ASSUME DataSound, pc \in {"erase1", "erase2"}
  PROVE  call # NULL /\ call.keys = Key /\ call.val = NULL
<1>1. call = [keys |-> Key, val |-> NULL]
  BY DEF DataSound, CallOK
<1>2. [keys |-> Key, val |-> NULL] # NULL
  BY KvAssumption
<1> QED
  BY <1>1, <1>2

LEMMA EraseFirstKeeps ==
  ASSUME Sound, DataSound, failures \in Nat, ~void, EraseFirst
  PROVE  DataSound' /\ MapStep
<1> USE DEF EraseFirst, ram, local
<1>1. /\ Typed(flash) /\ current \in Store /\ 1 \in Store /\ 2 \in Store
      /\ pc = "erase1" /\ pc' = "erase2"
      /\ UNCHANGED <<current, pos, call, failures, void>>
  BY DEF Sound, LocalOK, Store
<1>2. call # NULL /\ call.keys = Key /\ call.val = NULL
  BY <1>1, EraseCall
<1>3. /\ \A t \in Store : t # 1 => SameHeader(flash, flash', t) /\ SameRecords(flash, flash', t)
      /\ ~Valid(flash', 1) /\ Layout(flash', 1, 0)
  BY <1>1, EraseStore DEF flash_erase
<1>4. \A t \in Store : Valid(flash', t) => Valid(flash, t) /\ SameRecords(flash, flash', t)
  BY <1>3, SameHeaderReads
<1>5. MapStep
  <2>1. CASE current = 1
    <3>1. \A k : Reads(flash', current', k) = {}
      BY <1>1, <1>3, <2>1, NothingReads
    <3>2. \A k \in Key : Mem'[k] = call.val /\ Limbo'[k] = {}
      BY <1>2, <3>1, ReadsIs DEF Mem, Limbo, FirstOf, RestOf
    <3>3. \A k \in call.keys : MayRead(k)
      BY <1>2, <3>2 DEF MayRead
    <3> QED
      BY <1>1, <1>2, <3>3, MapEffects
  <2>2. CASE current # 1
    <3>1. /\ Valid(flash', current) <=> Valid(flash, current)
          /\ SameRecords(flash, flash', current)
      BY <1>1, <1>3, <2>2, SameHeaderReads
    <3>2. UNCHANGED <<Mem, Limbo>>
      BY <1>1, <3>1, ReadsUnchanged
    <3> QED
      BY <1>1, <3>2, MapStands
  <2> QED
    BY <2>1, <2>2
<1>6. DataOK'
  <2> SUFFICES ASSUME NEW t \in Store, NEW i \in Slot
               PROVE  /\ flash'[<<t, i, "key">>] \in Key \cup {Erased}
                      /\ flash'[<<t, i, "val">>] \in Val \cup {Erased}
    BY DEF DataOK
  <2>1. CASE t = 1
    BY <1>3, <2>1, NothingReads
  <2>2. CASE t # 1
    BY <1>3, <2>2 DEF SameRecords, DataSound, DataOK
  <2> QED
    BY <2>1, <2>2
<1>7. ExtraOK'
  BY <1>1, <1>4, ExtraStays
<1> QED
  BY <1>1, <1>5, <1>6, <1>7 DEF DataSound, CallOK, NewOK, CopyOK

LEMMA EraseSecondKeeps ==
  ASSUME Sound, DataSound, failures \in Nat, ~void, EraseSecond
  PROVE  DataSound' /\ MapStep
<1> USE DEF EraseSecond, End
<1>1. /\ Typed(flash) /\ 1 \in Store /\ 2 \in Store /\ Layout(flash, 1, 0)
      /\ pc = "erase2" /\ pc' = "idle" /\ call' = NULL
      /\ UNCHANGED <<failures, void>>
  BY DEF Sound, LocalOK, CurrentOK, Store
<1>2. call # NULL /\ call.keys = Key /\ call.val = NULL
  BY <1>1, EraseCall
<1>3. SameRecords(flash, flash', 1) /\ Layout(flash', 2, 0)
  BY <1>1, EraseStore DEF flash_erase
<1>4. current' \in Store
  BY EraseSecondSound DEF Sound, LocalOK
<1>5. \A t \in Store : Layout(flash', t, 0)
  BY <1>1, <1>3, SameRecordsLayout DEF Store
<1>6. \A t \in Store :
        /\ \A i \in Slot, x \in {"hdr", "key", "val"} : flash'[<<t, i, x>>] = Erased
        /\ \A k : Reads(flash', t, k) = {}
        /\ \A n : Extra(flash', t, n) = {}
  BY <1>5, NothingReads
<1>7. MapStep
  <2>1. \A k \in Key : Mem'[k] = call.val /\ Limbo'[k] = {}
    BY <1>2, <1>4, <1>6, ReadsIs DEF Mem, Limbo, FirstOf, RestOf
  <2> QED
    BY <1>1, <1>2, <2>1, MapReturns
<1>8. DataOK'
  BY <1>6 DEF DataOK
<1>9. ExtraOK'
  <2> SUFFICES ASSUME NEW s \in Store
               PROVE  Cardinality(Extra(flash', s, Room + 1) \ New(s)') <= failures
    BY <1>1 DEF ExtraOK
  <2>1. Extra(flash', s, Room + 1) \ New(s)' = {}
    BY <1>6
  <2>2. Cardinality(Extra(flash', s, Room + 1) \ New(s)') = 0
    BY <2>1, FS_EmptySet
  <2>3. 0 <= failures
    OBVIOUS
  <2> QED
    BY <2>2, <2>3
<1> QED
  BY <1>1, <1>7, <1>8, <1>9 DEF DataSound, CallOK, NewOK, CopyOK

(* A failure leaves one more record behind at most.                        *)
LEMMA OneLeftBehind ==
  ASSUME NEW S \in SUBSET Slot, NEW x
  PROVE  Cardinality(S) \in Nat /\ Cardinality(S \ {x}) \in Nat
         /\ Cardinality(S) <= Cardinality(S \ {x}) + 1
<1>1. /\ IsFiniteSet(S) /\ Cardinality(S) \in Nat
      /\ S \ {x} \in SUBSET Slot
  BY SlotsCounted
<1>2. Cardinality(S \ {x}) \in Nat
  BY <1>1, SlotsCounted
<1>3. CASE x \in S
  <2>1. Cardinality(S \ {x}) = Cardinality(S) - 1
    BY <1>1, <1>3, FS_RemoveElement
  <2> QED
    BY <1>1, <1>2, <2>1
<1>4. CASE x \notin S
  <2>1. S \ {x} = S
    BY <1>4
  <2> QED
    BY <1>1, <2>1
<1> QED
  BY <1>3, <1>4

LEMMA RestartKeeps ==
  ASSUME Sound, DataSound, failures \in Nat, void \in BOOLEAN, ~void, Restart
  PROVE  (~void' => DataSound') /\ MapStep
<1> USE DEF Restart, End
<1>1. /\ pc' = "idle" /\ call' = NULL /\ failures' = failures + 1 /\ flash' = flash
      /\ current' = kv_init(flash).current /\ void' = HalfWritten
  BY DEF Load, HalfWritten
<1>2. CASE void'
  <2>1. void' = TRUE
    BY <1>1, <1>2 DEF HalfWritten
  <2> QED
    BY <1>2, <2>1 DEF MapStep, Map!Next, Map!Tear
<1>3. CASE ~void'
  <2>1. UNCHANGED void /\ ~HalfWritten
    BY <1>1, <1>3 DEF HalfWritten
  <2>2. MapStep
    <3>1. CASE pc = "erase2"
      BY <1>1, <2>1, <3>1, EraseCall, MapFails
    <3>2. CASE pc # "erase2"
      <4>1. Chosen(flash, current)
        BY <2>1, <3>2 DEF Sound, CurrentOK
      <4>2. current' = current
        BY <1>1, <4>1 DEF Chosen, kv_init
      <4>3. UNCHANGED <<Mem, Limbo>>
        BY <1>1, <4>2, SameFlash, ReadsUnchanged
      <4> QED
        BY <1>1, <2>1, <4>3, MapFails
    <3> QED
      BY <3>1, <3>2
  <2>3. DataOK'
    BY <1>1 DEF DataSound, DataOK
  <2>4. ExtraOK'
    <3> SUFFICES ASSUME NEW s \in Store, Valid(flash, s)
                 PROVE  Cardinality(Extra(flash, s, Room + 1)) <= failures + 1
      <4>1. \A s : Extra(flash, s, Room + 1) \ New(s)' = Extra(flash, s, Room + 1)
        BY <1>1 DEF New
      <4> QED
        BY <1>1, <4>1 DEF ExtraOK
    <3> DEFINE E == Extra(flash, s, Room + 1)
    <3>1. E \in SUBSET Slot /\ Cardinality(E \ New(s)) <= failures
      BY ExtraIs DEF DataSound, ExtraOK
    <3>2. New(s) = {} \/ New(s) = {NewSlot}
      BY DEF New
    <3> HIDE DEF E
    <3>3. CASE New(s) = {}
      <4>1. E \ New(s) = E
        BY <3>3
      <4>2. Cardinality(E) \in Nat
        BY <3>1, SlotsCounted
      <4> QED
        BY <3>1, <4>1, <4>2 DEF E
    <3>4. CASE New(s) = {NewSlot}
      <4>1. /\ Cardinality(E) \in Nat /\ Cardinality(E \ {NewSlot}) \in Nat
            /\ Cardinality(E) <= Cardinality(E \ {NewSlot}) + 1
        BY <3>1, OneLeftBehind
      <4>2. Cardinality(E \ {NewSlot}) <= failures
        BY <3>1, <3>4
      <4>3. Cardinality(E) <= failures + 1
        BY <4>1, <4>2
      <4> QED
        BY <4>3 DEF E
    <3> QED
      BY <3>2, <3>3, <3>4
  <2> QED
    BY <1>1, <2>2, <2>3, <2>4 DEF DataSound, CallOK, NewOK, CopyOK
<1> QED
  BY <1>2, <1>3

-----------------------------------------------------------------------------
(* The log implements the map.                                             *)

KvInv ==
  /\ void \in BOOLEAN
  /\ failures \in Nat
  /\ ~void => Sound /\ DataSound

LEMMA InitKeeps == Init => KvInv /\ Map!Init
<1> SUFFICES ASSUME Init PROVE KvInv /\ Map!Init
  OBVIOUS
<1> USE DEF Init
<1>1. \A w \in Word : flash[w] = Erased
  OBVIOUS
<1>2. \A s \in Store : ~Valid(flash, s)
  <2>1. ASSUME NEW s \in Store PROVE ~Valid(flash, s)
    <3>1. <<s, 0, "magic">> \in Word
      BY Words
    <3>2. flash[<<s, 0, "magic">>] = Erased
      BY <1>1, <3>1
    <3> QED
      BY <3>2, KvAssumption DEF Valid, Magic
  <2> QED
    BY <2>1
<1>3. current \in Store
  BY DEF Store
<1>4. DataOK
  <2>1. ASSUME NEW s \in Store, NEW i \in Slot
        PROVE  flash[<<s, i, "key">>] = Erased /\ flash[<<s, i, "val">>] = Erased
    <3>1. <<s, i, "key">> \in Word /\ <<s, i, "val">> \in Word
      BY Words
    <3> QED
      BY <1>1, <3>1
  <2> QED
    BY <2>1 DEF DataOK
<1>5. ExtraOK
  BY <1>2 DEF ExtraOK
<1>6. DataSound
  BY <1>4, <1>5 DEF DataSound, CallOK, NewOK, CopyOK
<1>7. \A k : kv_get_val(flash, current, k) = NULL /\ Hidden(k) = {}
  BY <1>2, <1>3 DEF kv_get_val, Hidden
<1>8. Map!Init
  BY <1>7 DEF Map!Init
<1>9. Sound
  BY InitSound
<1> QED
  BY <1>6, <1>8, <1>9 DEF KvInv

LEMMA NextKeeps ==
  ASSUME KvInv, [Next]_vars
  PROVE  KvInv' /\ MapStep
<1>1. CASE UNCHANGED vars
  <2> USE <1>1 DEF vars, ram, local
  <2>1. UNCHANGED <<Mem, Limbo, call, failures, void>>
    BY DEF Mem, Limbo, Hidden
  <2>2. MapStep
    BY <2>1 DEF MapStep, Map!vars, Mem, Limbo
  <2>3. Sound => Sound'
    BY DEF Sound, LocalOK, StoresOK, CurrentOK, HeaderOK, HalfWritten
  <2>4. DataOK => DataOK'
    BY DEF DataOK
  <2>5. CallOK => CallOK'
    BY DEF CallOK, SetCall, DeleteCall
  <2>6. NewOK => NewOK'
    BY DEF NewOK, NewSlot, SetCall, DeleteCall
  <2>7. ExtraOK => ExtraOK'
    <3>1. \A s : New(s)' = New(s)
      BY DEF New, NewSlot, SetCall
    <3> QED
      BY <3>1 DEF ExtraOK
  <2>8. CopyOK => CopyOK'
    BY DEF CopyOK, Copied
  <2>9. DataSound => DataSound'
    BY <2>4, <2>5, <2>6, <2>7, <2>8 DEF DataSound
  <2> QED
    BY <2>2, <2>3, <2>9 DEF KvInv
<1>2. CASE Next
  <2>1. Sound /\ DataSound /\ failures \in Nat /\ void \in BOOLEAN /\ ~void
    BY <1>2 DEF Next, KvInv
  <2>2. ~void' => Sound'
    BY <1>2, <2>1, NextSound DEF IInv
  <2>3. void' \in BOOLEAN /\ failures' \in Nat
    <3>1. CASE kv_copy_valid
      BY <2>1, <3>1 DEF kv_copy_valid
    <3>2. CASE Restart
      <4>1. failures + 1 \in Nat
        BY <2>1
      <4> QED
        BY <3>2, <4>1 DEF Restart
    <3>3. ~kv_copy_valid /\ ~Restart => UNCHANGED <<failures, void>>
      BY <1>2 DEF Next, User, Write, kv_delete, kv_set_data, kv_erase,
         Reinit, Copy, CopyEnds, HeaderMagic, HeaderSeq, WriteHdr, WriteKey, WriteVal,
         Invalidate, EraseFirst, EraseSecond
    <3> QED
      BY <2>1, <3>1, <3>2, <3>3
  <2>4. (~void' => DataSound') /\ MapStep
    <3>1. CASE \E k \in Key : kv_delete(k)
      BY <2>1, <3>1, DeleteKeeps
    <3>2. CASE \E k \in Key, v \in Val : kv_set_data(k, v)
      BY <2>1, <3>2, SetKeeps
    <3>3. CASE kv_copy_valid
      BY <2>1, <3>3, CopyCallKeeps
    <3>4. CASE kv_erase
      BY <2>1, <3>4, EraseCallKeeps
    <3>5. CASE Reinit
      BY <2>1, <3>5, ReinitKeeps
    <3>6. CASE Copy
      BY <2>1, <3>6, CopyKeeps
    <3>7. CASE CopyEnds
      BY <2>1, <3>7, CopyEndsKeeps
    <3>8. CASE HeaderMagic
      BY <2>1, <3>8, HeaderMagicKeeps
    <3>9. CASE HeaderSeq
      BY <2>1, <3>9, HeaderSeqKeeps
    <3>10. CASE WriteHdr
      BY <2>1, <3>10, WriteHdrKeeps
    <3>11. CASE WriteKey
      BY <2>1, <3>11, WriteKeyKeeps
    <3>12. CASE WriteVal
      BY <2>1, <3>12, WriteValKeeps
    <3>13. CASE Invalidate
      BY <2>1, <3>13, InvalidateKeeps
    <3>14. CASE EraseFirst
      BY <2>1, <3>14, EraseFirstKeeps
    <3>15. CASE EraseSecond
      BY <2>1, <3>15, EraseSecondKeeps
    <3>16. CASE Restart
      BY <2>1, <3>16, RestartKeeps
    <3> QED
      BY <1>2, <3>1, <3>2, <3>3, <3>4, <3>5, <3>6, <3>7, <3>8, <3>9, <3>10, <3>11,
         <3>12, <3>13, <3>14, <3>15, <3>16 DEF Next, User, Write
  <2> QED
    BY <2>2, <2>3, <2>4 DEF KvInv
<1> QED
  BY <1>1, <1>2

(* However often the power fails, and wherever: a call that returned keeps *)
(* its effect, one that was cut off has it or not, and no other key        *)
(* changes; a set is refused only when the values and the records that     *)
(* failures left behind fill a store (kvlog.c:571-601, 478-519, 358-384).  *)
THEOREM LogKeepsPromise == Spec => KeepsPromise
<1>1. Init => KvInv /\ Map!Init
  BY InitKeeps
<1>2. KvInv /\ [Next]_vars => KvInv' /\ [Map!Next]_(Map!vars)
  BY NextKeeps DEF MapStep
<1> QED
  BY <1>1, <1>2, PTL DEF Spec, KeepsPromise, Map!Spec
=============================================================================
