---------------------------- MODULE UsartProofs ----------------------------
(***************************************************************************)
(* Theorems about the UART driver: of transmission, order and the          *)
(* handshake between callback and handler; of reception, conservation of   *)
(* the messages of the pool, the order of the bytes, the counting of what  *)
(* is lost, and when the driver holds bytes back.                          *)
(***************************************************************************)
EXTENDS Usart, CircBufProofs, FiniteSetTheorems, SequenceTheorems, TLAPS

-----------------------------------------------------------------------------
(* Reception.                                                              *)

(* The part of the state the receive operators work on, with h messages in *)
(* the hands of tasks.                                                     *)
RxRecord == [hw : Seq(Byte), cb : CircBuf, pool : Nat, rxq : Nat,
             overrun : Nat, delivered : Seq(Byte)]

RxOK(r, h) ==
  /\ r \in RxRecord
  /\ Len(r.hw) <= Depth
  /\ r.pool + r.rxq + h = MsgCnt

(* A delivery moves a message from the pool to the receive queue.          *)
LEMMA DeliverOK ==
  ASSUME NEW h \in Nat, NEW r, RxOK(r, h), r.pool # 0, NEW s \in Seq(Byte)
  PROVE  RxOK(Deliver(r, s), h) /\ Deliver(r, s).hw = r.hw /\ Deliver(r, s).cb = r.cb
<1>1. r.delivered \o s \in Seq(Byte)
  BY DEF RxOK, RxRecord
<1>2. r.pool - 1 \in Nat /\ r.rxq + 1 \in Nat
  BY DEF RxOK, RxRecord
<1>3. /\ Deliver(r, s).pool = r.pool - 1
      /\ Deliver(r, s).rxq = r.rxq + 1
      /\ Deliver(r, s).hw = r.hw
      /\ Deliver(r, s) \in RxRecord
      /\ Deliver(r, s).cb = r.cb
  BY <1>1, <1>2 DEF RxOK, RxRecord, Deliver
<1>4. (r.pool - 1) + (r.rxq + 1) + h = MsgCnt /\ Len(r.hw) <= Depth
  BY DEF RxOK, RxRecord
<1> QED
  BY <1>3, <1>4 DEF RxOK

LEMMA SendcbOK ==
  ASSUME NEW h \in Nat, NEW r, RxOK(r, h)
  PROVE  RxOK(sendcb(r), h) /\ sendcb(r).hw = r.hw
<1>1. CASE r.pool = 0
  <2>1. sendcb(r) = [r EXCEPT !.overrun = @ + 1]
    BY <1>1 DEF sendcb
  <2>2. r.overrun + 1 \in Nat /\ r \in RxRecord
    BY DEF RxOK, RxRecord
  <2>3. sendcb(r) \in RxRecord
    BY <2>1, <2>2 DEF RxRecord
  <2>4. /\ sendcb(r).hw = r.hw /\ sendcb(r).pool = r.pool
        /\ sendcb(r).rxq = r.rxq
    BY <2>1, <2>2 DEF RxRecord
  <2> QED
    BY <2>3, <2>4 DEF RxOK
<1>2. CASE r.pool # 0
  <2> DEFINE r1 == circ_buf_read(r.cb, MsgLen)
             r2 == circ_buf_read(r1.cb, MsgLen)
             s  == IF Len(r1.s) < MsgLen THEN r1.s \o r2.s ELSE r1.s
             c  == IF Len(r1.s) < MsgLen THEN r2.cb ELSE r1.cb
  <2>1. r1.s \in Seq(Byte) /\ r1.cb \in CircBuf
    BY ReadType, BufLenPositive DEF MsgLen, RxOK, RxRecord
  <2>2. r2.s \in Seq(Byte) /\ r2.cb \in CircBuf
    BY <2>1, ReadType, BufLenPositive DEF MsgLen
  <2>3. s \in Seq(Byte) /\ c \in CircBuf
    BY <2>1, <2>2
  <2>4. sendcb(r) = [Deliver(r, s) EXCEPT !.cb = c]
    BY <1>2 DEF sendcb
  <2> HIDE DEF r1, r2, s, c
  <2>5. RxOK(Deliver(r, s), h) /\ Deliver(r, s).hw = r.hw
    BY <1>2, <2>3, DeliverOK
  <2> QED
    BY <2>3, <2>4, <2>5 DEF RxOK, RxRecord
<1> QED
  BY <1>1, <1>2

LEMMA SendcbIfUsedOK ==
  ASSUME NEW h \in Nat, NEW r, RxOK(r, h)
  PROVE  RxOK(sendcbIfUsed(r), h) /\ sendcbIfUsed(r).hw = r.hw
BY SendcbOK DEF sendcbIfUsed

LEMMA RxFifoOK ==
  ASSUME NEW h \in Nat, NEW r, RxOK(r, h), NEW rxne \in BOOLEAN
  PROVE  RxOK(rx_fifo(r, rxne), h)
<1>1. CASE r.pool = 0
  <2>1. /\ r.overrun + 1 \in Nat
        /\ <<>> \in Seq(Byte)
        /\ Len(<<>>) <= Depth
    BY UsartAssumption DEF RxOK, RxRecord
  <2> QED
    BY <1>1, <2>1 DEF rx_fifo, RxOK, RxRecord
<1>2. CASE r.pool # 0 /\ r.hw = <<>>
  <2>1. <<Junk>> \in Seq(Byte)
    BY UsartAssumption DEF Junk
  <2> QED
    BY <1>2, <2>1, DeliverOK DEF rx_fifo
<1>3. CASE r.pool # 0 /\ r.hw # <<>>
  <2>1. PICK n \in 0..Len(r.hw) : n = Least(Len(r.hw), MsgLen)
    BY BufLenPositive DEF MsgLen, Least, RxOK, RxRecord
  <2>2. /\ SubSeq(r.hw, 1, n) \in Seq(Byte)
        /\ SubSeq(r.hw, n + 1, Len(r.hw)) \in Seq(Byte)
        /\ Len(SubSeq(r.hw, n + 1, Len(r.hw))) <= Depth
    BY UsartAssumption DEF RxOK, RxRecord
  <2>3. RxOK(Deliver(r, SubSeq(r.hw, 1, n)), h) /\ Deliver(r, SubSeq(r.hw, 1, n)).hw = r.hw
    BY <1>3, <2>2, DeliverOK
  <2>4. RxOK(rxTake(r, n), h)
    BY <2>2, <2>3 DEF rxTake, RxOK, RxRecord
  <2> QED
    BY <1>3, <2>1, <2>4 DEF rx_fifo
<1> QED
  BY <1>1, <1>2, <1>3

LEMMA RxByteOK ==
  ASSUME NEW h \in Nat, NEW r, RxOK(r, h), r.hw # <<>>
  PROVE  RxOK(rx_byte(r), h)
<1> DEFINE c  == <<Head(r.hw)>>
           w  == circ_buf_write(r.cb, c)
           r1 == [r EXCEPT !.hw = Tail(@)]
           r2 == sendcb(r1)
           w2 == circ_buf_write(r2.cb, c)
<1>1. c \in Seq(Byte) /\ Tail(r.hw) \in Seq(Byte) /\ Len(Tail(r.hw)) <= Depth
  BY UsartAssumption DEF RxOK, RxRecord
<1>2. RxOK(r1, h)
  BY <1>1 DEF RxOK, RxRecord
<1>3. w.cb \in CircBuf
  BY <1>1, WriteType DEF RxOK, RxRecord
<1>4. RxOK(r2, h)
  BY <1>2, SendcbOK
<1>5. w2.cb \in CircBuf
  BY <1>1, <1>4, WriteType DEF RxOK, RxRecord
<1>6. rx_byte(r) = IF w.n = 0 THEN [r2 EXCEPT !.cb = w2.cb] ELSE [r1 EXCEPT !.cb = w.cb]
  BY DEF rx_byte, RxOK, RxRecord
<1> HIDE DEF w, w2, r1, r2
<1> QED
  BY <1>2, <1>3, <1>4, <1>5, <1>6 DEF RxOK, RxRecord

-----------------------------------------------------------------------------
(* Transmission.                                                           *)

(* TxInOrder of a wire w, messages o and p bytes put on the queue.         *)
InOrder(w, o, p) ==
  /\ \A i \in 1..Len(w) : w[i] = i
  /\ \A i \in 1..Len(o) :
       /\ o[i].data = IF i = 1 THEN Len(w) + 1 ELSE o[i-1].data + o[i-1].data_len
       /\ o[i].data_len > 0
  /\ p = IF o = <<>> THEN Len(w)
         ELSE LET m == o[Len(o)] IN m.data + m.data_len - 1

(* A message put at the end continues where the last one ends.             *)
LEMMA AppendInOrder ==
  ASSUME NEW w \in Seq(Nat), NEW o \in Seq(Message), NEW p \in Nat,
         InOrder(w, o, p), NEW len \in Nat \ {0}
  PROVE  InOrder(w, Append(o, [data |-> p + 1, data_len |-> len]), p + len)
<1> DEFINE m  == [data |-> p + 1, data_len |-> len]
           o2 == Append(o, m)
<1>1. /\ Len(o2) = Len(o) + 1
      /\ o2[Len(o) + 1] = m
      /\ \A i \in 1..Len(o) : o2[i] = o[i]
      /\ o2 # <<>>
  <2>1. m \in Message
    BY DEF Message
  <2> HIDE DEF m
  <2> QED
    BY <2>1, AppendProperties
<1> HIDE DEF o2
<1>2. m.data = IF o = <<>> THEN Len(w) + 1 ELSE o[Len(o)].data + o[Len(o)].data_len
  <2>1. CASE o = <<>>
    BY <2>1 DEF InOrder
  <2>2. CASE o # <<>>
    <3>1. o[Len(o)] \in Message
      BY <2>2
    <3>2. PICK k \in Nat : k = Len(o) /\ k \in 1..Len(o)
      BY <2>2
    <3>3. o[k].data \in Nat /\ o[k].data_len \in Nat
      BY <3>1, <3>2 DEF Message
    <3>4. p = o[k].data + o[k].data_len - 1
      BY <2>2, <3>2 DEF InOrder
    <3>5. m.data = p + 1
      OBVIOUS
    <3> QED
      BY <2>2, <3>2, <3>3, <3>4, <3>5
  <2> QED
    BY <2>1, <2>2
<1>3. o = <<>> <=> Len(o) = 0
  OBVIOUS
<1>4. \A i \in 1..Len(o2) :
        /\ o2[i].data = IF i = 1 THEN Len(w) + 1 ELSE o2[i-1].data + o2[i-1].data_len
        /\ o2[i].data_len > 0
  <2> TAKE i \in 1..Len(o2)
  <2>1. CASE i = Len(o) + 1
    <3>1. i # 1 => i - 1 = Len(o) /\ o2[i-1] = o[Len(o)] /\ o # <<>>
      BY <1>1, <1>3, <2>1
    <3> QED
      BY <1>1, <1>2, <1>3, <2>1, <3>1
  <2>2. CASE i \in 1..Len(o)
    <3>1. i # 1 => i - 1 \in 1..Len(o)
      BY <2>2
    <3>2. i # 1 => o2[i-1] = o[i-1]
      BY <1>1, <3>1
    <3> QED
      BY <1>1, <2>2, <3>2 DEF InOrder
  <2> QED
    BY <1>1, <2>1, <2>2
<1>5. p + len = o2[Len(o2)].data + o2[Len(o2)].data_len - 1
  BY <1>1
<1> QED
  BY <1>1, <1>4, <1>5 DEF InOrder, o2

(* Sending n bytes of the first message, and dropping it after the last.   *)
LEMMA SendInOrder ==
  ASSUME NEW w \in Seq(Nat), NEW m \in Message, NEW q \in Seq(Message), NEW p \in Nat,
         InOrder(w, <<m>> \o q, p), NEW n \in 1..m.data_len, NULL \notin Message
  PROVE  LET rest == txRest(m, n)
         IN  /\ w \o [i \in 1..n |-> m.data + i - 1] \in Seq(Nat)
             /\ rest \in Message \cup {NULL}
             /\ InOrder(w \o [i \in 1..n |-> m.data + i - 1],
                        (IF rest = NULL THEN <<>> ELSE <<rest>>) \o q, p)
<1> DEFINE o  == <<m>> \o q
           w2 == w \o [i \in 1..n |-> m.data + i - 1]
           o2 == (IF txRest(m, n) = NULL THEN <<>> ELSE <<txRest(m, n)>>) \o q
<1>1. /\ Len(o) = Len(q) + 1
      /\ o[1] = m
      /\ \A i \in 1..Len(q) : o[i+1] = q[i]
      /\ o # <<>>
  OBVIOUS
<1>2. m.data = Len(w) + 1 /\ m.data \in Nat /\ m.data_len \in Nat
  BY <1>1 DEF InOrder, Message
<1>8. Len(w) \in Nat /\ n \in Nat /\ n <= m.data_len
  BY <1>2
<1>3. /\ w2 \in Seq(Nat)
      /\ Len(w2) = Len(w) + n
      /\ \A i \in 1..Len(w2) : w2[i] = i
  <2> DEFINE f == [i \in 1..n |-> m.data + i - 1]
  <2>1. f \in Seq(Nat) /\ Len(f) = n /\ \A i \in 1..n : f[i] = Len(w) + i
    BY <1>2
  <2> HIDE DEF f
  <2>2. PICK l \in Nat : l = Len(w)
    OBVIOUS
  <2>3. /\ w \o f \in Seq(Nat)
        /\ Len(w \o f) = l + n
        /\ \A i \in 1..(l + n) : (w \o f)[i] = IF i <= l THEN w[i] ELSE f[i - l]
    <3>1. /\ w \o f \in Seq(Nat)
          /\ Len(w \o f) = Len(w) + Len(f)
          /\ \A i \in 1..(Len(w) + Len(f)) :
               (w \o f)[i] = IF i <= Len(w) THEN w[i] ELSE f[i - Len(w)]
      BY <2>1, ConcatProperties
    <3> QED
      BY <2>1, <2>2, <3>1
  <2>4. ASSUME NEW i \in 1..(l + n)
        PROVE  (w \o f)[i] = i
    <3>1. CASE i <= l
      BY <2>2, <2>3, <3>1 DEF InOrder
    <3>2. CASE ~(i <= l)
      <4>1. i - l \in 1..n /\ l + (i - l) = i
        BY <1>8, <3>2
      <4>2. f[i - l] = l + (i - l)
        BY <2>1, <2>2, <4>1
      <4> QED
        BY <2>3, <3>2, <4>1, <4>2
    <3> QED
      BY <3>1, <3>2
  <2> QED
    BY <2>2, <2>3, <2>4 DEF f
<1>4. \A i \in 1..Len(q) :
        /\ q[i].data = IF i = 1 THEN m.data + m.data_len ELSE q[i-1].data + q[i-1].data_len
        /\ q[i].data_len > 0
  <2> TAKE i \in 1..Len(q)
  <2>1. /\ i + 1 \in 1..Len(o)
        /\ o[i+1] = q[i]
        /\ o[i] = IF i = 1 THEN m ELSE q[i-1]
    BY <1>1
  <2>2. /\ o[i+1].data = IF i + 1 = 1 THEN Len(w) + 1
                         ELSE o[i+1-1].data + o[i+1-1].data_len
        /\ o[i+1].data_len > 0
    <3>1. InOrder(w, o, p)
      OBVIOUS
    <3> HIDE DEF o
    <3> QED
      BY <2>1, <3>1 DEF InOrder
  <2>3. i + 1 # 1 /\ i + 1 - 1 = i
    OBVIOUS
  <2> QED
    BY <2>1, <2>2, <2>3
<1>5. p = IF q = <<>> THEN m.data + m.data_len - 1
          ELSE q[Len(q)].data + q[Len(q)].data_len - 1
  BY <1>1 DEF InOrder
<1>9. PICK sent \in Nat : sent = Len(w2)
  BY <1>3
<1>10. sent = m.data + n - 1
  BY <1>2, <1>3, <1>8, <1>9
<1>6. CASE n = m.data_len
  <2>1. txRest(m, n) = NULL /\ o2 = q
    BY <1>6 DEF txRest
  <2>2. Len(w2) + 1 = m.data + m.data_len /\ Len(w2) = m.data + m.data_len - 1
    <3> HIDE DEF w2
    <3> QED
      BY <1>2, <1>6, <1>9, <1>10
  <2> HIDE DEF w2
  <2>3. InOrder(w2, q, p)
    BY <1>3, <1>4, <1>5, <2>2 DEF InOrder
  <2> QED
    BY <1>3, <2>1, <2>3 DEF w2
<1>7. CASE n # m.data_len
  <2> DEFINE r == [data |-> m.data + n, data_len |-> m.data_len - n]
  <2>1. txRest(m, n) = r /\ r \in Message /\ r # NULL
    BY <1>2, <1>7 DEF txRest, Message
  <2>2. /\ r.data = Len(w2) + 1
        /\ r.data_len > 0
        /\ r.data + r.data_len = m.data + m.data_len
        /\ r.data \in Nat /\ r.data_len \in Nat
    <3>1. r.data = m.data + n /\ r.data_len = m.data_len - n
      OBVIOUS
    <3>2. PICK first \in Nat, len \in Nat : first = m.data /\ len = m.data_len
      BY <1>2
    <3>3. /\ sent = first + n - 1
          /\ n <= len /\ n # len
          /\ r.data = first + n /\ r.data_len = len - n
      BY <1>7, <1>8, <1>10, <3>1, <3>2
    <3> HIDE DEF w2, r
    <3>4. r.data = sent + 1 /\ r.data \in Nat
      BY <1>8, <3>3
    <3>5. r.data_len > 0 /\ r.data_len \in Nat
      BY <1>8, <3>3
    <3>6. r.data + r.data_len = first + len
      BY <1>8, <3>3
    <3> QED
      BY <1>9, <3>2, <3>4, <3>5, <3>6
  <2>7. o2 = <<r>> \o q
    BY <2>1
  <2> HIDE DEF r, w2
  <2>3. /\ Len(o2) = Len(q) + 1
        /\ o2[1] = r
        /\ \A i \in 1..Len(q) : o2[i+1] = q[i]
        /\ o2 # <<>>
    BY <2>1, <2>7, ConcatProperties
  <2> HIDE DEF o2
  <2>4. \A i \in 1..Len(o2) :
          /\ o2[i].data = IF i = 1 THEN Len(w2) + 1 ELSE o2[i-1].data + o2[i-1].data_len
          /\ o2[i].data_len > 0
    <3> TAKE i \in 1..Len(o2)
    <3>1. CASE i = 1
      BY <2>2, <2>3, <3>1
    <3>2. CASE i \in 2..Len(o2)
      <4>1. PICK k \in 1..Len(q) : i = k + 1
        BY <2>3, <3>2
      <4>3. k # 1 => k - 1 \in 1..Len(q) /\ i - 1 = (k - 1) + 1
        BY <4>1
      <4>4. k # 1 => o2[i-1] = q[k-1]
        BY <2>3, <4>3
      <4>5. k = 1 => i - 1 = 1
        BY <4>1
      <4>2. o2[i] = q[k] /\ o2[i-1] = IF k = 1 THEN r ELSE q[k-1]
        BY <2>3, <4>1, <4>4, <4>5
      <4> QED
        BY <1>4, <2>2, <3>2, <4>1, <4>2
    <3> QED
      BY <3>1, <3>2
  <2>5. p = o2[Len(o2)].data + o2[Len(o2)].data_len - 1
    <3>1. CASE q = <<>>
      <4>1. Len(o2) = 1 /\ o2[Len(o2)] = r
        BY <2>3, <3>1
      <4>2. r.data + r.data_len - 1 = m.data + m.data_len - 1
        <5>1. PICK u \in Nat, v \in Nat : u = r.data /\ v = r.data_len
          BY <2>2
        <5>2. PICK x \in Nat, y \in Nat : x = m.data /\ y = m.data_len
          BY <1>2
        <5>3. u + v = x + y
          BY <2>2, <5>1, <5>2
        <5>4. u + v - 1 = x + y - 1
          BY <5>3
        <5> QED
          BY <5>1, <5>2, <5>4
      <4>3. p = m.data + m.data_len - 1
        BY <1>5, <3>1
      <4> QED
        BY <4>1, <4>2, <4>3
    <3>2. CASE q # <<>>
      <4>1. Len(q) \in 1..Len(q) /\ Len(o2) = Len(q) + 1
        BY <2>3, <3>2
      <4>2. o2[Len(o2)] = q[Len(q)]
        BY <2>3, <4>1
      <4> QED
        BY <1>5, <3>2, <4>2
    <3> QED
      BY <3>1, <3>2
  <2>6. InOrder(w2, o2, p)
    BY <1>3, <2>3, <2>4, <2>5 DEF InOrder
  <2> QED
    BY <1>3, <2>1, <2>6 DEF w2, o2
<1> QED
  BY <1>6, <1>7

-----------------------------------------------------------------------------
(* The inductive invariant.                                                *)

IInv == TypeOK /\ TxInOrder /\ TxHandshake /\ PoolConserved

LEMMA OutgoingType ==
  ASSUME TypeOK
  PROVE  Outgoing \in Seq(Message)
BY DEF TypeOK, Outgoing

LEMMA AtFinite ==
  ASSUME NEW place
  PROVE  IsFiniteSet(At(place)) /\ Cardinality(At(place)) \in Nat
<1>1. IsFiniteSet(At(place))
  BY FS_Subset, UsartAssumption DEF At
<1> QED
  BY <1>1, FS_CardinalityType

(* How the set of tasks at a place changes when one task moves.            *)
LEMMA MoveIn ==
  ASSUME TypeOK, NEW t \in Task, NEW from, NEW to, from # to,
         pc[t] = from, pc' = [pc EXCEPT ![t] = to]
  PROVE  /\ At(to)' = At(to) \cup {t}
         /\ At(from)' = At(from) \ {t}
         /\ \A place : place \notin {from, to} => At(place)' = At(place)
         /\ Cardinality(At(to)') = Cardinality(At(to)) + 1
         /\ Cardinality(At(from)') = Cardinality(At(from)) - 1
<1>1. pc \in [Task -> Places]
  BY DEF TypeOK
<1>2. /\ At(to)' = At(to) \cup {t}
      /\ At(from)' = At(from) \ {t}
      /\ \A place : place \notin {from, to} => At(place)' = At(place)
      /\ t \notin At(to) /\ t \in At(from)
  BY <1>1 DEF At
<1>3. Cardinality(At(to) \cup {t}) = Cardinality(At(to)) + 1
  BY <1>2, AtFinite, FS_AddElement
<1>4. Cardinality(At(from) \ {t}) = Cardinality(At(from)) - 1
  BY <1>2, AtFinite, FS_RemoveElement
<1> QED
  BY <1>2, <1>3, <1>4

LEMMA InitInv == Init => IInv
<1> SUFFICES ASSUME Init PROVE IInv
  OBVIOUS
<1>1. cb \in CircBuf
  BY BufLenPositive, UsartAssumption DEF Init, CircBuf, Index, Junk
<1>2. TypeOK
  <2>1. /\ txq \in Seq(Message) /\ wire \in Seq(Nat)
        /\ hw \in Seq(Byte) /\ delivered \in Seq(Byte)
    BY DEF Init
  <2>2. msg \in Message \cup {NULL} /\ txeie \in BOOLEAN /\ txe \in BOOLEAN
    BY DEF Init
  <2>3. ore \in BOOLEAN /\ idle \in BOOLEAN /\ busy \in BOOLEAN
    BY DEF Init
  <2>4. /\ put \in Nat /\ Len(hw) <= Depth
        /\ pool \in 0..MsgCnt /\ rxq \in 0..MsgCnt
        /\ overrun \in Nat /\ hw_overrun \in Nat /\ received \in 0..MaxRx
    BY UsartAssumption DEF Init
  <2>5. pc \in [Task -> Places]
    BY DEF Init, Places
  <2> QED
    BY <1>1, <2>1, <2>2, <2>3, <2>4, <2>5 DEF TypeOK
<1>3. TxInOrder /\ TxHandshake
  BY DEF Init, TxInOrder, TxHandshake, Outgoing
<1>4. PoolConserved
  <2>1. At("hold") = {}
    BY DEF Init, At
  <2>2. Cardinality(At("hold")) = 0
    BY <2>1, FS_EmptySet
  <2>3. pool = MsgCnt /\ rxq = 0
    BY DEF Init
  <2> QED
    BY <2>2, <2>3, UsartAssumption DEF PoolConserved
<1> QED
  BY <1>2, <1>3, <1>4 DEF IInv

-----------------------------------------------------------------------------
(* The steps.                                                              *)

(* What a step of transmission leaves alone.                               *)
LEMMA RxKept ==
  ASSUME IInv, UNCHANGED rxVars, At("hold")' = At("hold")
  PROVE  /\ PoolConserved'
         /\ hw' \in Seq(Byte) /\ Len(hw') <= Depth
         /\ ore' \in BOOLEAN /\ idle' \in BOOLEAN /\ busy' \in BOOLEAN
         /\ cb' \in CircBuf
         /\ pool' \in 0..MsgCnt /\ rxq' \in 0..MsgCnt
         /\ overrun' \in Nat /\ hw_overrun' \in Nat
         /\ received' \in 0..MaxRx /\ delivered' \in Seq(Byte)
BY DEF IInv, TypeOK, PoolConserved, rxVars

(* What a step of reception leaves alone.                                  *)
LEMMA TxKept ==
  ASSUME IInv, UNCHANGED txVars, At("put")' = At("put")
  PROVE  /\ TxInOrder' /\ TxHandshake'
         /\ txq' \in Seq(Message) /\ msg' \in Message \cup {NULL}
         /\ txeie' \in BOOLEAN /\ txe' \in BOOLEAN
         /\ wire' \in Seq(Nat) /\ put' \in Nat
BY DEF IInv, TypeOK, TxInOrder, TxHandshake, Outgoing, txVars

(* The receive operators start from the state of the driver.               *)
LEMMA RxStart ==
  ASSUME IInv
  PROVE  RxOK(Rx, Cardinality(At("hold")))
BY AtFinite DEF IInv, TypeOK, PoolConserved, RxOK, RxRecord, Rx

LEMMA RxEnd ==
  ASSUME IInv, NEW r, RxOK(r, Cardinality(At("hold"))), SetRx(r), At("hold")' = At("hold")
  PROVE  /\ PoolConserved'
         /\ hw' \in Seq(Byte) /\ Len(hw') <= Depth
         /\ cb' \in CircBuf
         /\ pool' \in 0..MsgCnt /\ rxq' \in 0..MsgCnt
         /\ overrun' \in Nat /\ delivered' \in Seq(Byte)
<1>1. Cardinality(At("hold")) \in Nat
  BY AtFinite
<1>2. /\ hw' = r.hw /\ cb' = r.cb /\ pool' = r.pool /\ rxq' = r.rxq
      /\ overrun' = r.overrun /\ delivered' = r.delivered
  BY DEF SetRx
<1>3. /\ hw' \in Seq(Byte) /\ Len(hw') <= Depth /\ cb' \in CircBuf
      /\ pool' \in Nat /\ rxq' \in Nat
      /\ overrun' \in Nat /\ delivered' \in Seq(Byte)
      /\ pool' + rxq' + Cardinality(At("hold")) = MsgCnt
  BY <1>2 DEF RxOK, RxRecord
<1>4. pool' \in 0..MsgCnt /\ rxq' \in 0..MsgCnt
  BY <1>1, <1>3, UsartAssumption
<1> QED
  BY <1>3, <1>4 DEF PoolConserved

(* The handler's part for the transmitter.                                 *)
LEMMA TxStep ==
  ASSUME IInv, TxPending, usart_tx, UNCHANGED put, At("put")' = At("put")
  PROVE  /\ TxInOrder' /\ TxHandshake'
         /\ txq' \in Seq(Message) /\ msg' \in Message \cup {NULL}
         /\ txeie' \in BOOLEAN /\ txe' \in BOOLEAN
         /\ wire' \in Seq(Nat) /\ put' \in Nat
<1>1. CASE msg = NULL /\ txq = <<>>
  <2>1. UNCHANGED <<txq, msg, txe, wire>> /\ txeie' = FALSE
    BY <1>1 DEF usart_tx
  <2>2. Outgoing' = Outgoing /\ Outgoing = <<>>
    BY <1>1, <2>1 DEF Outgoing
  <2> QED
    BY <2>1, <2>2 DEF IInv, TypeOK, TxInOrder, TxHandshake
<1>2. CASE ~(msg = NULL /\ txq = <<>>)
  <2> DEFINE m == IF msg # NULL THEN msg ELSE Head(txq)
             q == IF msg # NULL THEN txq ELSE Tail(txq)
  <2>1. m \in Message /\ q \in Seq(Message)
    BY <1>2 DEF IInv, TypeOK
  <2>2. Outgoing = <<m>> \o q
    BY <1>2 DEF IInv, TypeOK, Outgoing
  <2>3. PICK n \in 1..m.data_len :
          /\ wire' = wire \o [i \in 1..n |-> m.data + i - 1]
          /\ msg' = txRest(m, n)
    BY <1>2 DEF usart_tx
  <2>4. txq' = q /\ txe' = FALSE /\ txeie' = txeie
    BY <1>2 DEF usart_tx
  <2>5. Outgoing' = (IF txRest(m, n) = NULL THEN <<>> ELSE <<txRest(m, n)>>) \o q
    BY <2>3, <2>4 DEF Outgoing
  <2> HIDE DEF m, q
  <2>6. InOrder(wire, <<m>> \o q, put)
    BY <2>2 DEF IInv, TxInOrder, InOrder
  <2>7. wire \in Seq(Nat) /\ put \in Nat /\ NULL \notin Message
    BY UsartAssumption DEF IInv, TypeOK
  <2>8. /\ wire' \in Seq(Nat)
        /\ msg' \in Message \cup {NULL}
        /\ InOrder(wire', Outgoing', put)
    BY <2>1, <2>3, <2>5, <2>6, <2>7, SendInOrder
  <2>9. TxInOrder'
    BY <2>8 DEF TxInOrder, InOrder
  <2>10. TxHandshake' /\ txeie' = TRUE
    BY <2>4 DEF IInv, TypeOK, TxHandshake, TxPending
  <2> QED
    BY <2>1, <2>4, <2>7, <2>8, <2>9, <2>10
<1> QED
  BY <1>1, <1>2

LEMMA IsrStep == IInv /\ usart_isr => IInv'
<1> SUFFICES ASSUME IInv, usart_isr PROVE IInv'
  OBVIOUS
<1> DEFINE h  == Cardinality(At("hold"))
           r1 == IF ~idle THEN Rx
                 ELSE IF Fifo THEN rx_fifo(Rx, RXNE) ELSE sendcbIfUsed(Rx)
           r2 == IF RXFT THEN rx_fifo(r1, RXNE)
                 ELSE IF ~Fifo /\ RXNE THEN rx_byte(r1) ELSE r1
<1>1. \A place : At(place)' = At(place)
  BY DEF usart_isr, At
<1>2. h \in Nat /\ RxOK(Rx, h) /\ RXNE \in BOOLEAN /\ Rx.hw = hw
  BY AtFinite, RxStart DEF RXNE, Rx
<1>3. RxOK(r1, h) /\ (~Fifo => r1.hw = hw)
  BY <1>2, RxFifoOK, SendcbIfUsedOK
<1>4. SetRx(r2)
  BY DEF usart_isr
<1> HIDE DEF r1, h
<1>5. RxOK(r2, h)
  BY <1>2, <1>3, RxFifoOK, RxByteOK DEF RXNE
<1> HIDE DEF r2
<1>6. /\ PoolConserved'
      /\ hw' \in Seq(Byte) /\ Len(hw') <= Depth
      /\ cb' \in CircBuf
      /\ pool' \in 0..MsgCnt /\ rxq' \in 0..MsgCnt
      /\ overrun' \in Nat /\ delivered' \in Seq(Byte)
  BY <1>1, <1>4, <1>5, RxEnd DEF h
<1>7. /\ TxInOrder' /\ TxHandshake'
      /\ txq' \in Seq(Message) /\ msg' \in Message \cup {NULL}
      /\ txeie' \in BOOLEAN /\ txe' \in BOOLEAN
      /\ wire' \in Seq(Nat) /\ put' \in Nat
  <2>1. CASE TxPending
    BY <1>1, <2>1, TxStep DEF usart_isr
  <2>2. CASE ~TxPending
    <3>1. UNCHANGED txVars
      BY <2>2 DEF usart_isr, txVars
    <3> QED
      BY <1>1, <3>1, TxKept
  <2> QED
    BY <2>1, <2>2
<1>8. /\ ore' = FALSE /\ idle' = FALSE
      /\ UNCHANGED <<busy, received, pc>>
      /\ hw_overrun' = IF ore THEN hw_overrun + 1 ELSE hw_overrun
  BY DEF usart_isr
<1>9. hw_overrun' \in Nat
  BY <1>8 DEF IInv, TypeOK
<1>10. /\ busy \in BOOLEAN /\ received \in 0..MaxRx /\ pc \in [Task -> Places]
  BY DEF IInv, TypeOK
<1>11. TypeOK'
  BY <1>6, <1>7, <1>8, <1>9, <1>10 DEF TypeOK
<1> QED
  BY <1>6, <1>7, <1>11 DEF IInv

LEMMA TransmitStep == ASSUME IInv, NEW t \in Task, Transmit(t) PROVE IInv'
<1>1. PICK len \in TxLen :
        /\ txq' = Append(txq, [data |-> put + 1, data_len |-> len])
        /\ put' = put + len
  BY DEF Transmit
<1>2. /\ pc[t] = "out" /\ pc' = [pc EXCEPT ![t] = "put"]
      /\ UNCHANGED <<msg, txeie, txe, wire>> /\ UNCHANGED rxVars
  BY DEF Transmit
<1>3. TypeOK /\ len \in Nat \ {0} /\ put \in Nat /\ wire \in Seq(Nat)
  BY <1>1, UsartAssumption DEF IInv, TypeOK
<1>4. /\ At("put")' = At("put") \cup {t}
      /\ \A place : place \notin {"out", "put"} => At(place)' = At(place)
  BY <1>2, <1>3, MoveIn
<1>5. At("hold")' = At("hold")
  BY <1>4
<1>6. TxHandshake'
  BY <1>4 DEF TxHandshake
<1> DEFINE m == [data |-> put + 1, data_len |-> len]
<1>7. Outgoing' = Append(Outgoing, m)
  <2> DEFINE s == IF msg = NULL THEN <<>> ELSE <<msg>>
  <2>1. s \in Seq(Message) /\ txq \in Seq(Message) /\ m \in Message
    <3>1. m \in Message
      BY <1>3 DEF Message
    <3>2. txq \in Seq(Message) /\ msg \in Message \cup {NULL}
      BY <1>3 DEF TypeOK
    <3>3. s \in Seq(Message)
      BY <3>2
    <3> QED
      BY <3>1, <3>2, <3>3
  <2>2. Outgoing = s \o txq /\ Outgoing' = s \o Append(txq, m)
    BY <1>1, <1>2 DEF Outgoing
  <2> HIDE DEF s, m
  <2>3. Append(txq, m) = txq \o <<m>> /\ Append(s \o txq, m) = (s \o txq) \o <<m>>
    BY <2>1, AppendIsConcat, ConcatProperties
  <2>4. (s \o txq) \o <<m>> = s \o (txq \o <<m>>)
    BY <2>1, ConcatAssociative
  <2> QED
    BY <2>2, <2>3, <2>4
<1>8. InOrder(wire, Outgoing, put)
  BY DEF IInv, TxInOrder, InOrder
<1>9. InOrder(wire, Append(Outgoing, m), put + len)
  BY <1>3, <1>8, AppendInOrder, OutgoingType
<1>10. TxInOrder'
  <2> HIDE DEF m
  <2> QED
    BY <1>1, <1>2, <1>7, <1>9 DEF TxInOrder, InOrder
<1>11. txq' \in Seq(Message) /\ put' \in Nat
  BY <1>1, <1>3 DEF TypeOK, Message
<1>12. pc' \in [Task -> Places]
  BY <1>2, <1>3 DEF TypeOK, Places
<1>13. TypeOK'
  BY <1>2, <1>3, <1>5, <1>11, <1>12, RxKept DEF TypeOK
<1> QED
  BY <1>2, <1>5, <1>6, <1>10, <1>13, RxKept DEF IInv

LEMMA PutStep == ASSUME IInv, NEW t \in Task, _put(t) PROVE IInv'
<1>1. /\ pc[t] = "put" /\ pc' = [pc EXCEPT ![t] = "out"]
      /\ txeie' = TRUE
      /\ UNCHANGED <<txq, msg, txe, wire, put>> /\ UNCHANGED rxVars
  BY DEF _put
<1>2. TypeOK
  BY DEF IInv
<1>3. \A place : place \notin {"put", "out"} => At(place)' = At(place)
  BY <1>1, <1>2, MoveIn
<1>4. At("hold")' = At("hold")
  BY <1>3
<1>5. TxInOrder' /\ TxHandshake'
  BY <1>1 DEF IInv, TxInOrder, TxHandshake, Outgoing
<1>6. pc' \in [Task -> Places]
  BY <1>1, <1>2 DEF TypeOK, Places
<1>7. TypeOK'
  BY <1>1, <1>2, <1>4, <1>6, RxKept DEF TypeOK
<1> QED
  BY <1>1, <1>4, <1>5, <1>7, RxKept DEF IInv

LEMMA SentStep == IInv /\ Sent => IInv'
<1> SUFFICES ASSUME IInv, Sent PROVE IInv'
  OBVIOUS
<1>1. /\ txe' = TRUE
      /\ UNCHANGED <<txq, msg, txeie, wire, put, pc>> /\ UNCHANGED rxVars
  BY DEF Sent
<1>2. At("hold")' = At("hold") /\ At("put")' = At("put")
  BY <1>1 DEF At
<1>3. TxInOrder' /\ TxHandshake'
  BY <1>1, <1>2 DEF IInv, TxInOrder, TxHandshake, Outgoing
<1>4. TypeOK'
  BY <1>1, <1>2, RxKept DEF IInv, TypeOK
<1> QED
  BY <1>1, <1>2, <1>3, <1>4, RxKept DEF IInv

LEMMA PutPoolStep == ASSUME IInv, NEW t \in Task, _put_pool(t) PROVE IInv'
<1> DEFINE h == Cardinality(At("hold"))
           r == sendcbIfUsed(Rx)
<1>1. /\ pc[t] = "return" /\ pc' = [pc EXCEPT ![t] = "out"]
      /\ SetRx(r)
      /\ UNCHANGED <<ore, idle, busy, hw_overrun, received>> /\ UNCHANGED txVars
  BY DEF _put_pool
<1>2. TypeOK
  BY DEF IInv
<1>3. \A place : place \notin {"return", "out"} => At(place)' = At(place)
  BY <1>1, <1>2, MoveIn
<1>4. At("hold")' = At("hold") /\ At("put")' = At("put")
  BY <1>3
<1>5. RxOK(r, h)
  BY AtFinite, RxStart, SendcbIfUsedOK
<1> HIDE DEF r
<1>6. pc' \in [Task -> Places]
  BY <1>1, <1>2 DEF TypeOK, Places
<1>7. /\ PoolConserved'
      /\ hw' \in Seq(Byte) /\ Len(hw') <= Depth
      /\ cb' \in CircBuf
      /\ pool' \in 0..MsgCnt /\ rxq' \in 0..MsgCnt
      /\ overrun' \in Nat /\ delivered' \in Seq(Byte)
  BY <1>1, <1>4, <1>5, RxEnd
<1>8. TypeOK'
  BY <1>1, <1>2, <1>4, <1>6, <1>7, TxKept DEF TypeOK
<1> QED
  BY <1>1, <1>4, <1>7, <1>8, TxKept DEF IInv

LEMMA ReceiveStep == ASSUME IInv, NEW t \in Task, Receive(t) PROVE IInv'
<1>1. /\ pc[t] = "out" /\ pc' = [pc EXCEPT ![t] = "hold"]
      /\ rxq > 0 /\ rxq' = rxq - 1
      /\ UNCHANGED <<hw, ore, idle, busy, cb, pool, overrun, hw_overrun, received, delivered>>
      /\ UNCHANGED txVars
  BY DEF Receive
<1>2. TypeOK
  BY DEF IInv
<1>3. /\ \A place : place \notin {"out", "hold"} => At(place)' = At(place)
      /\ Cardinality(At("hold")') = Cardinality(At("hold")) + 1
  BY <1>1, <1>2, MoveIn
<1>4. At("put")' = At("put")
  BY <1>3
<1>5. rxq' \in 0..MsgCnt /\ rxq \in Nat /\ pool \in Nat
  BY <1>1, <1>2, UsartAssumption DEF TypeOK
<1>6. PoolConserved'
  <2>1. PICK h \in Nat : h = Cardinality(At("hold"))
    BY AtFinite
  <2>2. pool + rxq + h = MsgCnt /\ Cardinality(At("hold"))' = h + 1
    BY <1>3, <2>1 DEF IInv, PoolConserved
  <2> QED
    BY <1>1, <1>5, <2>2 DEF PoolConserved
<1>7. pc' \in [Task -> Places]
  BY <1>1, <1>2 DEF TypeOK, Places
<1>8. TypeOK'
  BY <1>1, <1>2, <1>4, <1>5, <1>7, TxKept DEF TypeOK
<1> QED
  BY <1>1, <1>4, <1>6, <1>8, TxKept DEF IInv

LEMMA ReturnStep == ASSUME IInv, NEW t \in Task, Return(t) PROVE IInv'
<1>1. /\ pc[t] = "hold" /\ pc' = [pc EXCEPT ![t] = "return"]
      /\ pool' = pool + 1
      /\ UNCHANGED <<hw, ore, idle, busy, cb, rxq, overrun, hw_overrun, received, delivered>>
      /\ UNCHANGED txVars
  BY DEF Return
<1>2. TypeOK
  BY DEF IInv
<1>3. /\ \A place : place \notin {"hold", "return"} => At(place)' = At(place)
      /\ Cardinality(At("hold")') = Cardinality(At("hold")) - 1
  BY <1>1, <1>2, MoveIn
<1>4. At("put")' = At("put")
  BY <1>3
<1>5. rxq \in Nat /\ pool \in Nat /\ pool' \in Nat
  BY <1>1, <1>2, UsartAssumption DEF TypeOK
<1>6. PICK h \in Nat : h = Cardinality(At("hold"))
  BY AtFinite
<1>7. PICK h2 \in Nat : h2 = Cardinality(At("hold")')
  <2>1. IsFiniteSet(At("hold")')
    BY FS_Subset, UsartAssumption DEF At
  <2> QED
    BY <2>1, FS_CardinalityType
<1>8. pool + rxq + h = MsgCnt /\ h2 = h - 1
  BY <1>3, <1>6, <1>7 DEF IInv, PoolConserved
<1>9. pool' + rxq + h2 = MsgCnt
  BY <1>1, <1>5, <1>8
<1>10. PoolConserved'
  BY <1>1, <1>7, <1>9 DEF PoolConserved
<1>11. pool' \in 0..MsgCnt
  <2>1. PICK x \in Nat, y \in Nat, z \in Nat : x = pool' /\ y = rxq /\ z = MsgCnt
    BY <1>5, UsartAssumption
  <2>2. x + y + h2 = z
    BY <1>9, <2>1
  <2>3. x \in 0..z
    BY <2>2
  <2> QED
    BY <2>1, <2>3
<1>12. pc' \in [Task -> Places]
  BY <1>1, <1>2 DEF TypeOK, Places
<1>13. TypeOK'
  BY <1>1, <1>2, <1>4, <1>11, <1>12, TxKept DEF TypeOK
<1> QED
  BY <1>1, <1>4, <1>10, <1>13, TxKept DEF IInv

LEMMA LineStep == IInv /\ Line => IInv'
<1> SUFFICES ASSUME IInv, Line PROVE IInv'
  OBVIOUS
<1>1. /\ UNCHANGED <<cb, pool, rxq, overrun, hw_overrun, delivered, pc>>
      /\ UNCHANGED txVars
  BY DEF Line, Arrive, Idle
<1>2. At("hold")' = At("hold") /\ At("put")' = At("put")
  BY <1>1 DEF At
<1>3. PoolConserved'
  BY <1>1, <1>2 DEF IInv, PoolConserved
<1>4. /\ ore' \in BOOLEAN /\ idle' \in BOOLEAN /\ busy' \in BOOLEAN
      /\ received' \in 0..MaxRx
      /\ hw' \in Seq(Byte) /\ Len(hw') <= Depth
  <2>1. CASE Arrive
    <3>1. received + 1 \in 0..MaxRx /\ received + 1 \in Byte
      BY <2>1, UsartAssumption DEF Arrive, IInv, TypeOK
    <3>2. hw \in Seq(Byte) /\ Len(hw) <= Depth /\ Depth \in Nat
      BY UsartAssumption DEF IInv, TypeOK
    <3>3. hw' \in Seq(Byte) /\ Len(hw') <= Depth
      BY <2>1, <3>1, <3>2 DEF Arrive
    <3> QED
      BY <2>1, <3>1, <3>3 DEF Arrive, IInv, TypeOK
  <2>2. CASE Idle
    BY <2>2 DEF Idle, IInv, TypeOK
  <2> QED
    BY <2>1, <2>2 DEF Line
<1>5. TypeOK'
  BY <1>1, <1>2, <1>4, TxKept DEF IInv, TypeOK
<1> QED
  BY <1>1, <1>2, <1>3, <1>5, TxKept DEF IInv

-----------------------------------------------------------------------------
(* IInv holds in every reachable state.                                    *)
THEOREM Invariant == Spec => []IInv
<1>1. Init => IInv
  BY InitInv
<1>2. IInv /\ [Next]_vars => IInv'
  <2> SUFFICES ASSUME IInv, [Next]_vars PROVE IInv'
    OBVIOUS
  <2>1. CASE usart_isr
    BY <2>1, IsrStep
  <2>2. CASE Sent
    BY <2>2, SentStep
  <2>3. CASE Line
    BY <2>3, LineStep
  <2>4. ASSUME NEW t \in Task, User(t) PROVE IInv'
    BY <2>4, TransmitStep, PutStep, ReceiveStep, ReturnStep, PutPoolStep DEF User
  <2>5. CASE UNCHANGED vars
    <3>1. UNCHANGED txVars /\ UNCHANGED rxVars /\ UNCHANGED pc
      BY <2>5 DEF vars
    <3>2. At("hold")' = At("hold") /\ At("put")' = At("put")
      BY <3>1 DEF At
    <3>3. TypeOK'
      BY <3>1, <3>2, RxKept, TxKept DEF IInv, TypeOK
    <3> QED
      BY <3>1, <3>2, <3>3, RxKept, TxKept DEF IInv
  <2> QED
    BY <2>1, <2>2, <2>3, <2>4, <2>5 DEF Next
<1> QED
  BY <1>1, <1>2, PTL DEF Spec

(* Indices, counters and queues of the driver stay in range, whatever the  *)
(* sizes of ring, pool and messages: in particular the handler never takes *)
(* a message the pool does not have.                                       *)
THEOREM DriverTyped == Spec => []TypeOK
<1>1. IInv => TypeOK
  BY DEF IInv
<1> QED
  BY <1>1, Invariant, PTL

(* The bytes on the wire are the bytes put on the transmit queue, each     *)
(* once and in order, for any lengths of messages.                         *)
THEOREM TransmitsInOrder == Spec => []TxInOrder
<1>1. IInv => TxInOrder
  BY DEF IInv
<1> QED
  BY <1>1, Invariant, PTL

(* A message to be sent never waits with the transmit interrupt disabled   *)
(* and nobody about to enable it, for any number of users.                 *)
THEOREM TransmitterNeverForgotten == Spec => []TxHandshake
<1>1. IInv => TxHandshake
  BY DEF IInv
<1> QED
  BY <1>1, Invariant, PTL

(* The driver loses none of the messages of its pool.                      *)
THEOREM PoolKept == Spec => []PoolConserved
<1>1. IInv => PoolConserved
  BY DEF IInv
<1> QED
  BY <1>1, Invariant, PTL

-----------------------------------------------------------------------------
(* Streams.                                                                *)

Bytes(s) == {s[i] : i \in 1..Len(s)}

(* RxInOrder of a stream s when n bytes have been received.                *)
Ordered(s, n) ==
  /\ \A i, j \in 1..Len(s) : i < j => s[i] < s[j]
  /\ Bytes(s) \subseteq 1..n

(* The first byte of each run of bytes that are missing.                   *)
Gaps(s, n) == {k \in (1..n) \ Bytes(s) : k = 1 \/ k - 1 \in Bytes(s)}

GoodStream(s, n, g) == Ordered(s, n) /\ Cardinality(Gaps(s, n)) <= g

LEMMA GapsFinite ==
  ASSUME NEW s, NEW n \in Nat
  PROVE  IsFiniteSet(Gaps(s, n)) /\ Cardinality(Gaps(s, n)) \in Nat
<1>1. IsFiniteSet(1..n)
  BY FS_Interval
<1>2. IsFiniteSet(Gaps(s, n))
  BY <1>1, FS_Subset DEF Gaps
<1> QED
  BY <1>2, FS_CardinalityType

(* Of two sets of gaps that differ in one element at most.                 *)
LEMMA OneGapMore ==
  ASSUME NEW s, NEW n \in Nat, NEW s2, NEW n2 \in Nat, NEW x,
         Gaps(s2, n2) \subseteq Gaps(s, n) \cup {x}
  PROVE  Cardinality(Gaps(s2, n2)) <= Cardinality(Gaps(s, n)) + 1
<1>1. IsFiniteSet(Gaps(s, n)) /\ IsFiniteSet(Gaps(s2, n2))
  BY GapsFinite
<1>2. /\ IsFiniteSet(Gaps(s, n) \cup {x})
      /\ Cardinality(Gaps(s, n) \cup {x})
           = IF x \in Gaps(s, n) THEN Cardinality(Gaps(s, n)) ELSE Cardinality(Gaps(s, n)) + 1
  BY <1>1, FS_AddElement
<1>3. Cardinality(Gaps(s2, n2)) <= Cardinality(Gaps(s, n) \cup {x})
  BY <1>2, FS_Subset
<1>4. Cardinality(Gaps(s, n)) \in Nat /\ Cardinality(Gaps(s2, n2)) \in Nat
  BY GapsFinite
<1> QED
  BY <1>2, <1>3, <1>4

LEMMA NoGapMore ==
  ASSUME NEW s, NEW n \in Nat, NEW s2, NEW n2 \in Nat,
         Gaps(s2, n2) \subseteq Gaps(s, n)
  PROVE  Cardinality(Gaps(s2, n2)) <= Cardinality(Gaps(s, n))
BY GapsFinite, FS_Subset

(* A stream that loses its end has one gap more at most.                   *)
LEMMA LoseEnd ==
  ASSUME NEW p \in Seq(Byte), NEW q \in Seq(Byte), q # <<>>,
         NEW n \in Nat, NEW g \in Nat, GoodStream(p \o q, n, g)
  PROVE  GoodStream(p, n, g + 1)
<1> DEFINE s == p \o q
           x == q[1]
<1>1. PICK lp \in Nat, lq \in Nat : lp = Len(p) /\ lq = Len(q) /\ lq > 0
  OBVIOUS
<1>2. /\ Len(s) = lp + lq
      /\ \A i \in 1..lp : s[i] = p[i] /\ i \in 1..Len(s)
      /\ \A j \in 1..lq : s[lp + j] = q[j] /\ lp + j \in 1..Len(s)
  BY <1>1, ConcatProperties
<1>3. /\ \A i, j \in 1..Len(s) : i < j => s[i] < s[j]
      /\ Bytes(s) \subseteq 1..n
      /\ Cardinality(Gaps(s, n)) <= g
  BY DEF GoodStream, Ordered
<1> HIDE DEF s
<1>4. \A i \in 1..lp : p[i] \in 1..n /\ p[i] \in Bytes(s) /\ p[i] < x
  <2> TAKE i \in 1..lp
  <2>1. s[i] \in Bytes(s) /\ s[i] = p[i]
    BY <1>2 DEF Bytes
  <2>2. x = s[lp + 1] /\ lp + 1 \in 1..Len(s) /\ i < lp + 1
    BY <1>1, <1>2
  <2> QED
    BY <1>2, <1>3, <2>1, <2>2
<1>5. \A j \in 1..lq : q[j] \in 1..n /\ (j # 1 => x < q[j])
  <2> TAKE j \in 1..lq
  <2>1. s[lp + j] = q[j] /\ s[lp + 1] = x /\ s[lp + j] \in Bytes(s)
    BY <1>1, <1>2 DEF Bytes
  <2>2. j # 1 => lp + 1 < lp + j /\ lp + 1 \in 1..Len(s) /\ lp + j \in 1..Len(s)
    BY <1>1, <1>2
  <2> QED
    BY <1>3, <2>1, <2>2
<1>6. \A k \in Bytes(s) : k \in Bytes(p) \/ \E j \in 1..lq : k = q[j]
  <2> TAKE k \in Bytes(s)
  <2>1. PICK i \in 1..Len(s) : k = s[i]
    BY DEF Bytes
  <2>2. CASE i \in 1..lp
    BY <1>1, <1>2, <2>1, <2>2 DEF Bytes
  <2>3. CASE i \notin 1..lp
    <3>1. i - lp \in 1..lq /\ lp + (i - lp) = i
      BY <1>1, <1>2, <2>3
    <3> QED
      BY <1>2, <2>1, <3>1
  <2> QED
    BY <2>2, <2>3
<1>7. Bytes(p) \subseteq Bytes(s) /\ Bytes(p) \subseteq 1..n /\ \A k \in Bytes(p) : k < x
  BY <1>1, <1>4 DEF Bytes
<1>8. Ordered(p, n)
  <2>1. \A i, j \in 1..Len(p) : i < j => p[i] < p[j]
    BY <1>1, <1>2, <1>3
  <2> QED
    BY <1>7, <2>1 DEF Ordered
<1>9. Gaps(p, n) \subseteq Gaps(s, n) \cup {x}
  <2> SUFFICES ASSUME NEW k \in Gaps(p, n), k \notin Gaps(s, n) PROVE k = x
    OBVIOUS
  <2>1. /\ k \in 1..n /\ k \notin Bytes(p)
        /\ k = 1 \/ k - 1 \in Bytes(p)
    BY DEF Gaps
  <2>2. k \in Bytes(s)
    BY <1>7, <2>1 DEF Gaps
  <2>3. PICK j \in 1..lq : k = q[j]
    BY <1>6, <2>1, <2>2
  <2>4. x \in 1..n /\ (j # 1 => x < k)
    BY <1>1, <1>5, <2>3
  <2>5. k = 1 \/ k - 1 < x
    BY <1>7, <2>1
  <2> QED
    BY <2>1, <2>3, <2>4, <2>5
<1>10. Cardinality(Gaps(p, n)) <= Cardinality(Gaps(s, n)) + 1
  BY <1>9, OneGapMore
<1>11. Cardinality(Gaps(s, n)) \in Nat /\ Cardinality(Gaps(p, n)) \in Nat
  BY GapsFinite
<1> QED
  BY <1>3, <1>8, <1>10, <1>11 DEF GoodStream

(* The next byte comes in.                                                 *)
LEMMA TakeNext ==
  ASSUME NEW s \in Seq(Byte), NEW n \in Nat, NEW g \in Nat, n + 1 \in Byte,
         GoodStream(s, n, g)
  PROVE  GoodStream(Append(s, n + 1), n + 1, g)
<1> DEFINE s2 == Append(s, n + 1)
<1>1. /\ Len(s2) = Len(s) + 1
      /\ s2[Len(s) + 1] = n + 1
      /\ \A i \in 1..Len(s) : s2[i] = s[i]
  BY AppendProperties
<1>2. /\ \A i, j \in 1..Len(s) : i < j => s[i] < s[j]
      /\ Bytes(s) \subseteq 1..n
      /\ Cardinality(Gaps(s, n)) <= g
  BY DEF GoodStream, Ordered
<1> HIDE DEF s2
<1>3. PICK l \in Nat : l = Len(s)
  OBVIOUS
<1>4. \A i \in 1..l : s[i] \in 1..n
  BY <1>2, <1>3 DEF Bytes
<1>5. Bytes(s2) = Bytes(s) \cup {n + 1}
  BY <1>1, <1>3 DEF Bytes
<1>6. \A i, j \in 1..Len(s2) : i < j => s2[i] < s2[j]
  <2> SUFFICES ASSUME NEW i \in 1..(l + 1), NEW j \in 1..(l + 1), i < j PROVE s2[i] < s2[j]
    BY <1>1, <1>3
  <2>1. i \in 1..l /\ s2[i] = s[i]
    BY <1>1, <1>3
  <2>2. CASE j = l + 1
    BY <1>1, <1>3, <1>4, <2>1, <2>2
  <2>3. CASE j \in 1..l
    BY <1>1, <1>2, <1>3, <2>1, <2>3
  <2> QED
    BY <2>2, <2>3
<1>7. Ordered(s2, n + 1)
  BY <1>2, <1>5, <1>6 DEF Ordered
<1>8. Gaps(s2, n + 1) \subseteq Gaps(s, n)
  BY <1>2, <1>5 DEF Gaps
<1>9. Cardinality(Gaps(s2, n + 1)) <= Cardinality(Gaps(s, n))
  BY <1>8, NoGapMore
<1>10. Cardinality(Gaps(s, n)) \in Nat /\ Cardinality(Gaps(s2, n + 1)) \in Nat
  BY GapsFinite
<1> QED
  BY <1>2, <1>7, <1>9, <1>10 DEF GoodStream, s2

(* The next byte is lost: a new gap, or a longer one.                      *)
LEMMA LoseNext ==
  ASSUME NEW s \in Seq(Byte), NEW n \in Nat, NEW g \in Nat, GoodStream(s, n, g)
  PROVE  /\ GoodStream(s, n + 1, g + 1)
         /\ n > 0 /\ n \notin Bytes(s) => GoodStream(s, n + 1, g)
         /\ n + 1 \notin Bytes(s)
<1>1. Ordered(s, n) /\ Cardinality(Gaps(s, n)) <= g
  BY DEF GoodStream
<1>2. Ordered(s, n + 1) /\ n + 1 \notin Bytes(s)
  BY <1>1 DEF Ordered
<1>3. Gaps(s, n + 1) \subseteq Gaps(s, n) \cup {n + 1}
  BY DEF Gaps
<1>4. n > 0 /\ n \notin Bytes(s) => Gaps(s, n + 1) \subseteq Gaps(s, n)
  BY DEF Gaps
<1>5. Cardinality(Gaps(s, n + 1)) <= Cardinality(Gaps(s, n)) + 1
  <2>1. PICK m \in Nat : m = n + 1
    OBVIOUS
  <2>2. Gaps(s, m) \subseteq Gaps(s, n) \cup {m}
    BY <1>3, <2>1
  <2>3. Cardinality(Gaps(s, m)) <= Cardinality(Gaps(s, n)) + 1
    BY <2>2, OneGapMore
  <2> QED
    BY <2>1, <2>3
<1>7. ASSUME n > 0, n \notin Bytes(s)
      PROVE  Cardinality(Gaps(s, n + 1)) <= Cardinality(Gaps(s, n))
  BY <1>4, <1>7, NoGapMore
<1>6. Cardinality(Gaps(s, n)) \in Nat /\ Cardinality(Gaps(s, n + 1)) \in Nat
  BY GapsFinite
<1> QED
  BY <1>1, <1>2, <1>5, <1>6, <1>7 DEF GoodStream

-----------------------------------------------------------------------------
(* The receive operators.                                                  *)

StreamOf(r) == r.delivered \o Content(r.cb) \o r.hw

(* n bytes have been received, and e hardware overruns seen.               *)
RxGood(r, h, n, e) ==
  /\ RxOK(r, h)
  /\ Fifo => Content(r.cb) = <<>>
  /\ GoodStream(StreamOf(r), n, r.overrun + e)

LEMMA Grouping ==
  ASSUME NEW x \in Seq(Byte), NEW y \in Seq(Byte), NEW z \in Seq(Byte)
  PROVE  (x \o (y \o z)) \o <<>> = (x \o y) \o z
<1>1. y \o z \in Seq(Byte)
  BY ConcatProperties
<1>2. x \o (y \o z) \in Seq(Byte)
  BY <1>1, ConcatProperties
<1>3. (x \o (y \o z)) \o <<>> = x \o (y \o z)
  BY <1>2, ConcatEmptySeq
<1> QED
  BY <1>3, ConcatAssociative

LEMMA StreamType ==
  ASSUME NEW r \in RxRecord
  PROVE  /\ StreamOf(r) \in Seq(Byte)
         /\ r.delivered \in Seq(Byte) /\ Content(r.cb) \in Seq(Byte) /\ r.hw \in Seq(Byte)
<1>1. r.cb \in CircBuf /\ r.delivered \in Seq(Byte) /\ r.hw \in Seq(Byte)
  BY DEF RxRecord
<1>2. Content(r.cb) \in Seq(Byte)
  BY <1>1, ContentIs
<1> QED
  BY <1>1, <1>2 DEF StreamOf

(* What keeps the stream keeps it good, however many overruns it counts.   *)
LEMMA StreamKept ==
  ASSUME NEW h, NEW n \in Nat, NEW e \in Nat, NEW r, NEW r2,
         RxGood(r, h, n, e), RxOK(r2, h), Fifo => Content(r2.cb) = <<>>,
         StreamOf(r2) = StreamOf(r), r2.overrun >= r.overrun
  PROVE  RxGood(r2, h, n, e)
<1>1. r.overrun \in Nat /\ r2.overrun \in Nat
  BY DEF RxGood, RxOK, RxRecord
<1>2. Cardinality(Gaps(StreamOf(r), n)) \in Nat
  BY GapsFinite
<1> QED
  BY <1>1, <1>2 DEF RxGood, GoodStream

(* What takes bytes off its end does if it counts an overrun.              *)
LEMMA EndLost ==
  ASSUME NEW h, NEW n \in Nat, NEW e \in Nat, NEW r, NEW r2, NEW q \in Seq(Byte),
         RxGood(r, h, n, e), RxOK(r2, h), Fifo => Content(r2.cb) = <<>>,
         StreamOf(r) = StreamOf(r2) \o q, r2.overrun = r.overrun + 1
  PROVE  RxGood(r2, h, n, e)
<1>1. r.overrun \in Nat /\ StreamOf(r2) \in Seq(Byte)
  BY StreamType DEF RxGood, RxOK, RxRecord
<1>2. CASE q = <<>>
  <2>1. StreamOf(r2) = StreamOf(r)
    BY <1>1, <1>2
  <2>2. r2.overrun >= r.overrun
    BY <1>1
  <2> QED
    BY <2>1, <2>2, StreamKept
<1>3. CASE q # <<>>
  <2>1. PICK g \in Nat : g = r.overrun + e
    BY <1>1
  <2>2. GoodStream(StreamOf(r2) \o q, n, g)
    BY <2>1 DEF RxGood
  <2>3. GoodStream(StreamOf(r2), n, g + 1)
    BY <1>1, <1>3, <2>2, LoseEnd
  <2>4. g + 1 = r2.overrun + e
    BY <1>1, <2>1
  <2> QED
    BY <2>3, <2>4 DEF RxGood
<1> QED
  BY <1>2, <1>3

(* Two reads take all that is in the ring.                                 *)
LEMMA TwoReads ==
  ASSUME NEW c \in CircBuf
  PROVE  LET r1 == circ_buf_read(c, MsgLen)
             r2 == circ_buf_read(r1.cb, MsgLen)
         IN  /\ Len(r1.s) < MsgLen
             /\ r1.s \in Seq(Byte) /\ r2.s \in Seq(Byte) /\ r2.cb \in CircBuf
             /\ Content(c) = r1.s \o r2.s
             /\ Content(r2.cb) = <<>>
             /\ circ_buf_used(r2.cb) = 0
<1> DEFINE r1 == circ_buf_read(c, MsgLen)
           r2 == circ_buf_read(r1.cb, MsgLen)
<1>1. MsgLen \in Nat \ {0} /\ MsgLen = BufLen
  BY BufLenPositive DEF MsgLen
<1>2. r1.s \in Seq(Byte) /\ r1.cb \in CircBuf
  BY <1>1, ReadType
<1>3. r2.s \in Seq(Byte) /\ r2.cb \in CircBuf
  BY <1>1, <1>2, ReadType
<1>4. /\ Content(c) = r1.s \o Content(r1.cb)
      /\ Len(r1.s) = Least(Least(MsgLen, circ_buf_used(c)), BufLen - c.next_out)
      /\ r1.cb.next_out = IF c.next_out + Len(r1.s) < BufLen
                            THEN c.next_out + Len(r1.s) ELSE 0
      /\ circ_buf_used(r1.cb) = circ_buf_used(c) - Len(r1.s)
  BY <1>1, ReadContent
<1>5. /\ Content(r1.cb) = r2.s \o Content(r2.cb)
      /\ Len(r2.s) = Least(Least(MsgLen, circ_buf_used(r1.cb)), BufLen - r1.cb.next_out)
      /\ circ_buf_used(r2.cb) = circ_buf_used(r1.cb) - Len(r2.s)
  BY <1>1, <1>2, ReadContent
<1> HIDE DEF r1, r2
<1>12. /\ circ_buf_used(c) \in Nat /\ circ_buf_used(c) < MsgLen
       /\ c.next_out \in Nat /\ c.next_out < MsgLen
       /\ r1.cb.next_out \in Nat
       /\ Len(r1.s) \in Nat /\ Len(r2.s) \in Nat
  BY <1>1, <1>2, <1>3, UsedType, Indices
<1>6. PICK L \in Nat \ {0}, u \in Nat, o \in Nat, l1 \in Nat, l2 \in Nat, o2 \in Nat :
        /\ L = MsgLen /\ L = BufLen /\ u = circ_buf_used(c) /\ u < L
        /\ o = c.next_out /\ o < L
        /\ l1 = Len(r1.s) /\ l2 = Len(r2.s) /\ o2 = r1.cb.next_out
  BY <1>1, <1>12
<1>7. /\ l1 = Least(Least(L, u), L - o)
      /\ o2 = IF o + l1 < L THEN o + l1 ELSE 0
      /\ l2 = Least(Least(L, u - l1), L - o2)
  BY <1>4, <1>5, <1>6
<1>8. l1 < L /\ (u - l1) - l2 = 0
  BY <1>6, <1>7 DEF Least
<1>9. circ_buf_used(r2.cb) = 0
  BY <1>4, <1>5, <1>6, <1>8
<1>10. Content(r2.cb) = <<>>
  <2>1. Content(r2.cb) \in Seq(Byte) /\ Len(Content(r2.cb)) = 0
    BY <1>3, <1>9, ContentIs
  <2> QED
    BY <2>1
<1>11. Content(c) = r1.s \o r2.s
  BY <1>3, <1>4, <1>5, <1>10
<1> QED
  BY <1>2, <1>3, <1>6, <1>8, <1>9, <1>10, <1>11 DEF r1, r2

(* Without a message in the pool nothing is read, and it is counted.       *)
LEMMA SendcbCounts ==
  ASSUME NEW r \in RxRecord, r.pool = 0
  PROVE  /\ sendcb(r).overrun = r.overrun + 1
         /\ sendcb(r).cb = r.cb /\ sendcb(r).hw = r.hw /\ sendcb(r).pool = 0
         /\ StreamOf(sendcb(r)) = StreamOf(r)
BY DEF sendcb, RxRecord, StreamOf

(* With one, all of the ring is delivered.                                 *)
LEMMA SendcbDelivers ==
  ASSUME NEW r \in RxRecord, r.pool # 0
  PROVE  /\ sendcb(r).overrun = r.overrun
         /\ sendcb(r).hw = r.hw
         /\ sendcb(r).pool = r.pool - 1
         /\ Content(sendcb(r).cb) = <<>> /\ circ_buf_used(sendcb(r).cb) = 0
         /\ StreamOf(sendcb(r)) = StreamOf(r)
<1> DEFINE r1 == circ_buf_read(r.cb, MsgLen)
           r2 == circ_buf_read(r1.cb, MsgLen)
<1>1. /\ Len(r1.s) < MsgLen
      /\ r1.s \in Seq(Byte) /\ r2.s \in Seq(Byte) /\ r2.cb \in CircBuf
      /\ Content(r.cb) = r1.s \o r2.s
      /\ Content(r2.cb) = <<>> /\ circ_buf_used(r2.cb) = 0
  BY TwoReads DEF RxRecord
<1>2. sendcb(r) = [Deliver(r, r1.s \o r2.s) EXCEPT !.cb = r2.cb]
  BY <1>1 DEF sendcb
<1> HIDE DEF r1, r2
<1>3. /\ sendcb(r).overrun = r.overrun /\ sendcb(r).hw = r.hw
      /\ sendcb(r).pool = r.pool - 1 /\ sendcb(r).cb = r2.cb
      /\ sendcb(r).delivered = r.delivered \o Content(r.cb)
  BY <1>1, <1>2 DEF Deliver, RxRecord
<1>4. StreamOf(sendcb(r)) = (r.delivered \o Content(r.cb)) \o <<>> \o r.hw
  BY <1>1, <1>3 DEF StreamOf
<1>5. (r.delivered \o Content(r.cb)) \o <<>> = r.delivered \o Content(r.cb)
  BY StreamType
<1> QED
  BY <1>1, <1>3, <1>4, <1>5 DEF StreamOf

LEMMA SendcbIfUsedGood ==
  ASSUME NEW h \in Nat, NEW n \in Nat, NEW e \in Nat, NEW r, RxGood(r, h, n, e)
  PROVE  /\ RxGood(sendcbIfUsed(r), h, n, e)
         /\ sendcbIfUsed(r).hw = r.hw
         /\ StreamOf(sendcbIfUsed(r)) = StreamOf(r)
         /\ r.pool # 0 => Content(sendcbIfUsed(r).cb) = <<>>
         /\ r.pool = 0 => sendcbIfUsed(r).pool = 0
<1>1. RxOK(r, h) /\ r \in RxRecord /\ r.overrun \in Nat /\ r.cb \in CircBuf
  BY DEF RxGood, RxOK, RxRecord
<1>2. RxOK(sendcbIfUsed(r), h) /\ sendcbIfUsed(r).hw = r.hw
  BY <1>1, SendcbIfUsedOK
<1>3. CASE circ_buf_used(r.cb) > 0 /\ r.pool = 0
  <2>1. sendcbIfUsed(r) = sendcb(r)
    BY <1>3 DEF sendcbIfUsed
  <2>2. /\ sendcb(r).overrun >= r.overrun /\ sendcb(r).cb = r.cb
        /\ sendcb(r).pool = 0 /\ StreamOf(sendcb(r)) = StreamOf(r)
    BY <1>1, <1>3, SendcbCounts
  <2>3. Fifo => Content(sendcb(r).cb) = <<>>
    BY <2>2 DEF RxGood
  <2> QED
    BY <1>2, <1>3, <2>1, <2>2, <2>3, StreamKept
<1>4. CASE circ_buf_used(r.cb) > 0 /\ r.pool # 0
  <2>1. sendcbIfUsed(r) = sendcb(r)
    BY <1>4 DEF sendcbIfUsed
  <2>2. /\ sendcb(r).overrun >= r.overrun /\ Content(sendcb(r).cb) = <<>>
        /\ StreamOf(sendcb(r)) = StreamOf(r)
    BY <1>1, <1>4, SendcbDelivers
  <2> QED
    BY <1>2, <1>4, <2>1, <2>2, StreamKept
<1>5. CASE ~(circ_buf_used(r.cb) > 0)
  <2>1. sendcbIfUsed(r) = r
    BY <1>5 DEF sendcbIfUsed
  <2>2. Content(r.cb) = <<>>
    <3>1. Content(r.cb) \in Seq(Byte) /\ Len(Content(r.cb)) = 0
      BY <1>1, <1>5, ContentIs, UsedType
    <3> QED
      BY <3>1
  <2> QED
    BY <1>2, <2>1, <2>2
<1> QED
  BY <1>3, <1>4, <1>5

(* One byte into a ring that takes one, or does not.                       *)
LEMMA WriteOne ==
  ASSUME NEW c \in CircBuf, NEW b \in Byte
  PROVE  LET w == circ_buf_write(c, <<b>>)
         IN  /\ w.n \in {0, 1}
             /\ w.cb \in CircBuf
             /\ w.n = 1 => Content(w.cb) = Content(c) \o <<b>>
             /\ w.n = 0 => Content(w.cb) = Content(c) /\ circ_buf_used(c) # 0
<1> DEFINE w == circ_buf_write(c, <<b>>)
<1>1. <<b>> \in Seq(Byte) /\ Len(<<b>>) = 1 /\ <<b>> # <<>>
  OBVIOUS
<1>2. /\ Content(w.cb) = Content(c) \o SubSeq(<<b>>, 1, w.n)
      /\ w.n \in 0..1
      /\ w.n = 0 => circ_buf_used(c) = BufLen - 1
  BY <1>1, WriteContent
<1>3. w.cb \in CircBuf
  BY <1>1, WriteType
<1> HIDE DEF w
<1>4. SubSeq(<<b>>, 1, 1) = <<b>> /\ SubSeq(<<b>>, 1, 0) = <<>>
  <2>1. \A t \in Seq(Byte) : SubSeq(t, 1, Len(t)) = t
    OBVIOUS
  <2>2. SubSeq(<<b>>, 1, 0) = <<>>
    BY SubSeqEmpty
  <2> QED
    BY <1>1, <2>1, <2>2
<1>5. Content(c) \in Seq(Byte)
  BY ContentIs
<1>6. BufLen - 1 # 0
  BY BufLenPositive, UsartAssumption DEF MsgLen
<1>7. w.n = 0 => Content(w.cb) = Content(c) /\ circ_buf_used(c) # 0
  BY <1>2, <1>4, <1>5, <1>6
<1>8. w.n = 1 => Content(w.cb) = Content(c) \o <<b>>
  BY <1>2, <1>4
<1>9. w.n \in {0, 1}
  BY <1>2
<1> QED
  BY <1>3, <1>7, <1>8, <1>9 DEF w

LEMMA RxByteGood ==
  ASSUME NEW h \in Nat, NEW n \in Nat, NEW e \in Nat, NEW r, RxGood(r, h, n, e),
         ~Fifo, r.hw # <<>>
  PROVE  RxGood(rx_byte(r), h, n, e)
<1> DEFINE b  == Head(r.hw)
           w  == circ_buf_write(r.cb, <<b>>)
           r1 == [r EXCEPT !.hw = Tail(@)]
           r2 == sendcb(r1)
           w2 == circ_buf_write(r2.cb, <<b>>)
<1>1. RxOK(r, h) /\ r \in RxRecord /\ r.overrun \in Nat /\ r.cb \in CircBuf
  BY DEF RxGood, RxOK, RxRecord
<1>2. r.hw = <<b>> /\ Tail(r.hw) = <<>> /\ b \in Byte
  <2>1. r.hw \in Seq(Byte) /\ Len(r.hw) <= 1
    BY <1>1, UsartAssumption DEF RxOK, RxRecord
  <2> QED
    BY <2>1
<1>3. /\ r1 \in RxRecord /\ r1.hw = <<>> /\ r1.cb = r.cb /\ r1.pool = r.pool
      /\ r1.overrun = r.overrun /\ r1.delivered = r.delivered
  BY <1>1, <1>2 DEF RxRecord
<1>4. rx_byte(r) = IF w.n = 0 THEN [r2 EXCEPT !.cb = w2.cb] ELSE [r1 EXCEPT !.cb = w.cb]
  BY <1>1 DEF rx_byte, RxRecord
<1>5. RxOK(rx_byte(r), h)
  BY <1>1, RxByteOK
<1>6. /\ w.n \in {0, 1} /\ w.cb \in CircBuf
      /\ w.n = 1 => Content(w.cb) = Content(r.cb) \o <<b>>
      /\ w.n = 0 => Content(w.cb) = Content(r.cb) /\ circ_buf_used(r.cb) # 0
  BY <1>1, <1>2, WriteOne
<1>7. /\ r.delivered \in Seq(Byte) /\ Content(r.cb) \in Seq(Byte)
      /\ <<b>> \in Seq(Byte)
      /\ StreamOf(r) = (r.delivered \o Content(r.cb)) \o <<b>>
  <2>1. r.delivered \in Seq(Byte) /\ Content(r.cb) \in Seq(Byte)
    BY <1>1, StreamType
  <2>2. StreamOf(r) = (r.delivered \o Content(r.cb)) \o r.hw
    BY DEF StreamOf
  <2> HIDE DEF b
  <2> QED
    BY <1>2, <2>1, <2>2
<1> HIDE DEF w, r1, r2, w2, b
<1>8. CASE w.n = 1
  <2> DEFINE x == [r1 EXCEPT !.cb = w.cb]
  <2>1. rx_byte(r) = x
    BY <1>4, <1>8
  <2>2. /\ x.delivered = r.delivered /\ x.hw = <<>> /\ x.overrun = r.overrun
        /\ Content(x.cb) = Content(r.cb) \o <<b>>
    BY <1>3, <1>6, <1>8 DEF RxRecord
  <2> HIDE DEF x
  <2>3. StreamOf(x) = (r.delivered \o (Content(r.cb) \o <<b>>)) \o <<>>
    BY <2>2 DEF StreamOf
  <2>4. StreamOf(x) = StreamOf(r)
    BY <1>7, <2>3, Grouping
  <2>5. x.overrun >= r.overrun
    BY <1>1, <2>2
  <2> QED
    BY <1>5, <2>1, <2>4, <2>5, StreamKept
<1>9. CASE w.n = 0 /\ r.pool = 0
  <2> DEFINE x == [r2 EXCEPT !.cb = w2.cb]
  <2>1. rx_byte(r) = x
    BY <1>4, <1>9
  <2>2. r2 \in RxRecord
    <3>1. RxOK(r1, h)
      BY <1>1, <1>2, <1>3, UsartAssumption DEF RxOK, RxRecord, r1
    <3> QED
      BY <3>1, SendcbOK DEF r2, RxOK
  <2>3. /\ r2.cb = r.cb /\ r2.hw = <<>> /\ r2.overrun = r.overrun + 1
        /\ r2.delivered = r.delivered
    BY <1>3, <1>9 DEF r2, sendcb, RxRecord
  <2>4. w2 = w
    BY <2>3 DEF w2, w
  <2>5. /\ x.delivered = r.delivered /\ x.hw = <<>> /\ x.overrun = r.overrun + 1
        /\ Content(x.cb) = Content(r.cb)
    BY <1>6, <1>9, <2>2, <2>3, <2>4 DEF RxRecord
  <2> HIDE DEF x
  <2>6. StreamOf(x) = (r.delivered \o Content(r.cb)) \o <<>>
    BY <2>5 DEF StreamOf
  <2>7. StreamOf(r) = StreamOf(x) \o <<b>>
    BY <1>7, <2>6
  <2> QED
    BY <1>5, <1>7, <2>1, <2>5, <2>7, EndLost
<1>10. CASE w.n = 0 /\ r.pool # 0
  <2> DEFINE x == [r2 EXCEPT !.cb = w2.cb]
  <2>1. rx_byte(r) = x
    BY <1>4, <1>10
  <2>2. RxOK(r1, h)
    BY <1>1, <1>2, <1>3, UsartAssumption DEF RxOK, RxRecord, r1
  <2>3. r2 \in RxRecord
    BY <2>2, SendcbOK DEF r2, RxOK
  <2>4. /\ r2.overrun = r.overrun /\ r2.hw = <<>>
        /\ Content(r2.cb) = <<>> /\ circ_buf_used(r2.cb) = 0
        /\ StreamOf(r2) = StreamOf(r1)
    BY <1>3, <1>10, SendcbDelivers DEF r2
  <2>5. w2.n \in {0, 1} /\ w2.n # 0 /\ w2.cb \in CircBuf /\ Content(w2.cb) = Content(r2.cb) \o <<b>>
    BY <1>2, <2>3, <2>4, WriteOne DEF w2, RxRecord
  <2>6. /\ x.delivered = r2.delivered /\ x.hw = <<>> /\ x.overrun = r.overrun
        /\ Content(x.cb) = <<b>>
    BY <1>7, <2>3, <2>4, <2>5 DEF RxRecord
  <2> HIDE DEF x
  <2>7. r2.delivered \in Seq(Byte)
    BY <2>3 DEF RxRecord
  <2>8. StreamOf(r1) = r.delivered \o Content(r.cb) /\ StreamOf(r2) = r2.delivered
    BY <1>3, <1>7, <2>4, <2>7 DEF StreamOf
  <2>9. StreamOf(x) = (r2.delivered \o <<b>>) \o <<>>
    BY <2>6 DEF StreamOf
  <2>10. StreamOf(x) = StreamOf(r)
    <3>1. r2.delivered = r.delivered \o Content(r.cb)
      BY <2>4, <2>8
    <3>2. r2.delivered \o <<b>> \in Seq(Byte)
      BY <1>7, <2>7
    <3>3. StreamOf(x) = r2.delivered \o <<b>>
      BY <2>9, <3>2, ConcatEmptySeq
    <3> QED
      BY <1>7, <3>1, <3>3
  <2>11. x.overrun >= r.overrun
    BY <1>1, <2>6
  <2> QED
    BY <1>5, <2>1, <2>10, <2>11, StreamKept
<1> QED
  BY <1>6, <1>8, <1>9, <1>10

(* Whatever happens the receive FIFO is empty then.                        *)
LEMMA RxFifoEmpties ==
  ASSUME NEW h \in Nat, NEW r, RxOK(r, h), NEW rxne \in BOOLEAN, rxne \/ r.hw = <<>>
  PROVE  /\ rx_fifo(r, rxne).hw = <<>>
         /\ rx_fifo(r, rxne).cb = r.cb
         /\ r.pool = 0 => rx_fifo(r, rxne).pool = 0
         /\ rxne /\ r.pool # 0 => rx_fifo(r, rxne).pool = r.pool - 1
<1>1. r \in RxRecord /\ r.hw \in Seq(Byte) /\ Len(r.hw) <= Depth
  BY DEF RxOK, RxRecord
<1>2. CASE ~rxne
  BY <1>1, <1>2 DEF rx_fifo, RxRecord
<1>3. CASE rxne /\ r.pool = 0
  BY <1>1, <1>3 DEF rx_fifo, RxRecord
<1>4. CASE rxne /\ r.pool # 0 /\ r.hw = <<>>
  BY <1>1, <1>4 DEF rx_fifo, RxRecord, Deliver
<1>5. CASE rxne /\ r.pool # 0 /\ r.hw # <<>>
  <2>1. Least(Len(r.hw), MsgLen) = Len(r.hw)
    BY <1>1, UsartAssumption DEF Least
  <2>2. rx_fifo(r, rxne) = rxTake(r, Len(r.hw))
    BY <1>5, <2>1 DEF rx_fifo
  <2>3. SubSeq(r.hw, Len(r.hw) + 1, Len(r.hw)) = <<>>
    BY <1>1, SubSeqEmpty
  <2> DEFINE t == Deliver(r, SubSeq(r.hw, 1, Len(r.hw)))
  <2>4. /\ t.hw = r.hw /\ t.cb = r.cb /\ t.pool = r.pool - 1
        /\ rxTake(r, Len(r.hw)) = [t EXCEPT !.hw = SubSeq(@, Len(r.hw) + 1, Len(@))]
        /\ DOMAIN t = DOMAIN r
    BY <1>1 DEF rxTake, Deliver, RxRecord
  <2>5. DOMAIN r = {"hw", "cb", "pool", "rxq", "overrun", "delivered"}
    BY <1>1 DEF RxRecord
  <2> HIDE DEF t
  <2>6. /\ rxTake(r, Len(r.hw)).hw = <<>>
        /\ rxTake(r, Len(r.hw)).cb = r.cb
        /\ rxTake(r, Len(r.hw)).pool = r.pool - 1
    BY <2>3, <2>4, <2>5
  <2> QED
    BY <1>5, <2>2, <2>6
<1> QED
  BY <1>2, <1>3, <1>4, <1>5

(* The stream stays good as long as no byte is read out of an empty FIFO.  *)
LEMMA RxFifoGood ==
  ASSUME NEW h \in Nat, NEW n \in Nat, NEW e \in Nat, NEW r, RxGood(r, h, n, e),
         Fifo, NEW rxne \in BOOLEAN, rxne => r.hw # <<>> \/ r.pool = 0
  PROVE  RxGood(rx_fifo(r, rxne), h, n, e)
<1> DEFINE x == rx_fifo(r, rxne)
<1>1. /\ RxOK(r, h) /\ r \in RxRecord /\ r.overrun \in Nat /\ Content(r.cb) = <<>>
      /\ r.hw \in Seq(Byte) /\ Len(r.hw) <= Depth /\ r.delivered \in Seq(Byte)
  BY DEF RxGood, RxOK, RxRecord
<1>2. RxOK(x, h)
  BY <1>1, RxFifoOK
<1>3. StreamOf(r) = r.delivered \o r.hw
  BY <1>1 DEF StreamOf
<1>4. CASE ~rxne
  <2>1. x.cb = r.cb /\ x.overrun >= r.overrun /\ StreamOf(x) = StreamOf(r)
    <3>1. CASE r.pool # 0
      BY <1>1, <1>4, <3>1 DEF rx_fifo
    <3>2. CASE r.pool = 0
      <4>1. x = [r EXCEPT !.overrun = @ + 1]
        BY <1>4, <3>2 DEF rx_fifo
      <4>2. /\ x.cb = r.cb /\ x.overrun = r.overrun + 1
            /\ x.delivered = r.delivered /\ x.hw = r.hw
        BY <1>1, <4>1 DEF RxRecord
      <4> HIDE DEF x
      <4>3. StreamOf(x) = StreamOf(r)
        BY <4>2 DEF StreamOf
      <4>4. x.overrun >= r.overrun
        BY <1>1, <4>2
      <4> QED
        BY <4>2, <4>3, <4>4
    <3> QED
      BY <3>1, <3>2
  <2>2. Content(x.cb) = <<>>
    BY <1>1, <2>1
  <2> HIDE DEF x
  <2> QED
    BY <1>2, <2>1, <2>2, StreamKept DEF x
<1>5. CASE rxne /\ r.pool = 0
  <2>1. /\ x.cb = r.cb /\ x.overrun = r.overrun + 1
        /\ x.delivered = r.delivered /\ x.hw = <<>>
    BY <1>1, <1>5 DEF rx_fifo, RxRecord
  <2> HIDE DEF x
  <2>2. Content(x.cb) = <<>>
    BY <1>1, <2>1
  <2>3. StreamOf(x) = r.delivered
    <3>1. StreamOf(x) = (r.delivered \o <<>>) \o <<>>
      BY <2>1, <2>2 DEF StreamOf
    <3> QED
      BY <1>1, <3>1, ConcatEmptySeq
  <2>4. StreamOf(r) = StreamOf(x) \o r.hw
    BY <1>3, <2>3
  <2> QED
    BY <1>1, <1>2, <2>1, <2>2, <2>4, EndLost DEF x
<1>6. CASE rxne /\ r.pool # 0
  <2> DEFINE l == Len(r.hw)
  <2>1. Least(l, MsgLen) = l
    BY <1>1, UsartAssumption DEF Least
  <2>2. x = rxTake(r, l)
    BY <1>6, <2>1 DEF rx_fifo
  <2>3. SubSeq(r.hw, 1, l) = r.hw /\ SubSeq(r.hw, l + 1, l) = <<>>
    BY <1>1, SubSeqEmpty
  <2>4. /\ x.cb = r.cb /\ x.overrun = r.overrun
        /\ x.delivered = r.delivered \o r.hw /\ x.hw = <<>>
    BY <1>1, <2>2, <2>3 DEF rxTake, Deliver, RxRecord
  <2> HIDE DEF x
  <2>5. Content(x.cb) = <<>> /\ r.delivered \o r.hw \in Seq(Byte)
    BY <1>1, <2>4
  <2>6. StreamOf(x) = StreamOf(r)
    <3>1. StreamOf(x) = ((r.delivered \o r.hw) \o <<>>) \o <<>>
      BY <2>4, <2>5 DEF StreamOf
    <3> QED
      BY <1>3, <2>5, <3>1, ConcatEmptySeq
  <2>7. x.overrun >= r.overrun
    BY <1>1, <2>4
  <2> QED
    BY <1>2, <2>5, <2>6, <2>7, StreamKept DEF x
<1> QED
  BY <1>4, <1>5, <1>6

-----------------------------------------------------------------------------
(* The inductive invariant.                                                *)

(* The handler reads no byte out of an empty receiver: without the FIFO    *)
(* its status word tells; with it, it may call rx_fifo twice, unless only  *)
(* one of its two reasons can be there, or there is only one message.      *)
NoEmptyRead == ~Fifo \/ Prompt \/ MsgCnt = 1

RxInv ==
  /\ Fifo => Content(cb) = <<>>
  /\ RxInOrder
  /\ GapsCounted
  (* While an overrun waits to be seen, no byte comes after the lost one.  *)
  /\ ore => Len(hw) = Depth /\ received \notin Kept
  (* The line goes idle only when the handler has nothing to do.           *)
  /\ Fifo /\ Prompt => ~(idle /\ RXFT)

(* The hardware overruns, with the one that is not counted yet.            *)
HwOverruns == hw_overrun + (IF ore THEN 1 ELSE 0)

LEMMA RxGoodStart ==
  ASSUME IInv, RxInv
  PROVE  /\ RxGood(Rx, Cardinality(At("hold")), received, HwOverruns)
         /\ HwOverruns \in Nat /\ received \in Nat
         /\ StreamOf(Rx) = Stream /\ Bytes(Stream) = Kept
<1>1. StreamOf(Rx) = Stream /\ Bytes(Stream) = Kept /\ Rx.overrun = overrun /\ Rx.cb = cb
  BY DEF StreamOf, Rx, Stream, Kept, Bytes
<1>2. HwOverruns \in Nat /\ received \in Nat /\ overrun \in Nat /\ hw_overrun \in Nat
  BY UsartAssumption DEF IInv, TypeOK, HwOverruns
<1>3. Ordered(Stream, received)
  BY <1>1 DEF RxInv, RxInOrder, Ordered
<1>4. Gaps(Stream, received) = {n \in (1..received) \ Kept : n = 1 \/ n - 1 \in Kept}
  BY <1>1 DEF Gaps
<1>5. overrun + HwOverruns = overrun + hw_overrun + (IF ore THEN 1 ELSE 0)
  BY <1>2 DEF HwOverruns
<1>6. Cardinality(Gaps(Stream, received)) <= overrun + HwOverruns
  BY <1>4, <1>5 DEF RxInv, GapsCounted
<1>7. GoodStream(StreamOf(Rx), received, Rx.overrun + HwOverruns)
  BY <1>1, <1>3, <1>6 DEF GoodStream
<1> QED
  BY <1>1, <1>2, <1>7, RxStart DEF RxGood, RxInv

LEMMA RxGoodEnd ==
  ASSUME NEW h, GoodStream(Stream', received', overrun' + hw_overrun' + (IF ore' THEN 1 ELSE 0))
  PROVE  RxInOrder' /\ GapsCounted'
<1>1. Bytes(Stream') = Kept'
  BY DEF Bytes, Kept
<1>2. Gaps(Stream', received') = {n \in (1..received') \ Kept' : n = 1 \/ n - 1 \in Kept'}
  BY <1>1 DEF Gaps
<1> QED
  BY <1>1, <1>2 DEF GoodStream, Ordered, RxInOrder, GapsCounted

(* What a task does to rxq, pool or the transmitter is nothing to RxInv.   *)
LEMMA RxUntouched ==
  ASSUME RxInv,
         UNCHANGED <<hw, ore, idle, cb, overrun, hw_overrun, received, delivered>>
  PROVE  RxInv'
<1>1. /\ hw' = hw /\ ore' = ore /\ idle' = idle /\ cb' = cb
      /\ overrun' = overrun /\ hw_overrun' = hw_overrun
      /\ received' = received /\ delivered' = delivered
  OBVIOUS
<1>2. Stream' = Stream /\ RXFT' = RXFT
  BY <1>1 DEF Stream, RXFT
<1>3. Kept' = Kept
  BY <1>2 DEF Kept
<1> QED
  BY <1>1, <1>2, <1>3 DEF RxInv, RxInOrder, GapsCounted

LEMMA IsrRxStep == ASSUME IInv, RxInv, NoEmptyRead, usart_isr PROVE RxInv'
<1> DEFINE h  == Cardinality(At("hold"))
           n  == received
           e  == HwOverruns
           r1 == IF ~idle THEN Rx
                 ELSE IF Fifo THEN rx_fifo(Rx, RXNE) ELSE sendcbIfUsed(Rx)
           r2 == IF RXFT THEN rx_fifo(r1, RXNE)
                 ELSE IF ~Fifo /\ RXNE THEN rx_byte(r1) ELSE r1
<1>1. /\ RxGood(Rx, h, n, e) /\ h \in Nat /\ n \in Nat /\ e \in Nat
      /\ RXNE \in BOOLEAN /\ Rx.hw = hw /\ Rx.pool = pool
      /\ RxOK(Rx, h)
  BY RxGoodStart, RxStart, AtFinite DEF RXNE, Rx
<1>2. /\ SetRx(r2) /\ ore' = FALSE /\ idle' = FALSE /\ UNCHANGED received
      /\ hw_overrun' = IF ore THEN hw_overrun + 1 ELSE hw_overrun
  BY DEF usart_isr
<1> HIDE DEF h, n, e
<1>3. RxGood(r1, h, n, e) /\ (~Fifo => r1.hw = hw)
  <2>1. CASE ~idle
    BY <1>1, <2>1
  <2>2. CASE idle /\ Fifo
    <3>1. RXNE => Rx.hw # <<>> \/ Rx.pool = 0
      BY <1>1 DEF RXNE
    <3> QED
      BY <1>1, <2>2, <3>1, RxFifoGood
  <2>3. CASE idle /\ ~Fifo
    BY <1>1, <2>3, SendcbIfUsedGood
  <2> QED
    BY <2>1, <2>2, <2>3
<1>4. RXFT => Fifo /\ RXNE /\ (r1.hw # <<>> \/ r1.pool = 0)
  <2> SUFFICES ASSUME RXFT PROVE Fifo /\ RXNE /\ (r1.hw # <<>> \/ r1.pool = 0)
    OBVIOUS
  <2>1. Fifo /\ RXNE
    BY UsartAssumption DEF RXFT, RXNE, IInv, TypeOK
  <2>2. CASE ~idle
    BY <1>1, <2>1, <2>2 DEF RXNE
  <2>3. CASE idle
    <3>1. MsgCnt = 1
      BY <2>1, <2>3 DEF NoEmptyRead, RxInv
    <3>2. Rx.pool \in {0, 1}
      BY <1>1, <3>1 DEF IInv, TypeOK
    <3>3. r1 = rx_fifo(Rx, RXNE)
      BY <2>1, <2>3
    <3>4. rx_fifo(Rx, RXNE).pool = 0
      <4>1. /\ Rx.pool = 0 => rx_fifo(Rx, RXNE).pool = 0
            /\ Rx.pool # 0 => rx_fifo(Rx, RXNE).pool = Rx.pool - 1
        BY <1>1, <2>1, RxFifoEmpties
      <4> QED
        BY <3>2, <4>1
    <3> QED
      BY <2>1, <3>3, <3>4
  <2> QED
    BY <2>2, <2>3
<1> HIDE DEF r1
<1>5. RxGood(r2, h, n, e)
  <2>1. CASE RXFT
    BY <1>1, <1>3, <1>4, <2>1, RxFifoGood
  <2>2. CASE ~RXFT /\ ~Fifo /\ RXNE
    BY <1>1, <1>3, <2>2, RxByteGood DEF RXNE
  <2>3. CASE ~RXFT /\ ~(~Fifo /\ RXNE)
    BY <1>3, <2>3
  <2> QED
    BY <2>1, <2>2, <2>3
<1> HIDE DEF r2
<1>6. /\ Stream' = StreamOf(r2) /\ cb' = r2.cb /\ overrun' = r2.overrun
  BY <1>2 DEF SetRx, Stream, StreamOf
<1>7. r2.overrun + e = overrun' + hw_overrun' + (IF ore' THEN 1 ELSE 0)
  <2>1. r2.overrun \in Nat /\ hw_overrun \in Nat
    BY <1>5 DEF RxGood, RxOK, RxRecord, IInv, TypeOK
  <2> QED
    BY <1>2, <1>6, <2>1 DEF e, HwOverruns
<1>8. GoodStream(Stream', received', overrun' + hw_overrun' + (IF ore' THEN 1 ELSE 0))
  BY <1>2, <1>5, <1>6, <1>7 DEF RxGood, n
<1>9. RxInOrder' /\ GapsCounted'
  BY <1>8, RxGoodEnd
<1>10. Fifo => Content(cb') = <<>>
  BY <1>5, <1>6 DEF RxGood
<1> QED
  BY <1>2, <1>9, <1>10 DEF RxInv

LEMMA PutPoolRxStep == ASSUME IInv, RxInv, NEW t \in Task, _put_pool(t) PROVE RxInv'
<1> DEFINE h == Cardinality(At("hold"))
           r == sendcbIfUsed(Rx)
<1>1. /\ SetRx(r) /\ UNCHANGED <<ore, idle, hw_overrun, received>>
  BY DEF _put_pool
<1>2. /\ RxGood(Rx, h, received, HwOverruns) /\ h \in Nat /\ received \in Nat
      /\ HwOverruns \in Nat /\ Rx.hw = hw
      /\ StreamOf(Rx) = Stream
  BY RxGoodStart, AtFinite DEF Rx
<1>3. RxGood(r, h, received, HwOverruns) /\ r.hw = hw /\ StreamOf(r) = Stream
  BY <1>2, SendcbIfUsedGood
<1> HIDE DEF r, h
<1>4. /\ Stream' = StreamOf(r) /\ cb' = r.cb /\ overrun' = r.overrun /\ hw' = hw
  BY <1>1, <1>3 DEF SetRx, Stream, StreamOf
<1>5. r.overrun + HwOverruns = overrun' + hw_overrun' + (IF ore' THEN 1 ELSE 0)
  <2>1. r.overrun \in Nat /\ hw_overrun \in Nat
    BY <1>3 DEF RxGood, RxOK, RxRecord, IInv, TypeOK
  <2> QED
    BY <1>1, <1>4, <2>1 DEF HwOverruns
<1>6. RxInOrder' /\ GapsCounted'
  BY <1>1, <1>3, <1>4, <1>5, RxGoodEnd DEF RxGood
<1>7. Fifo => Content(cb') = <<>>
  BY <1>3, <1>4 DEF RxGood
<1>8. Kept' = Kept /\ RXFT' = RXFT
  BY <1>3, <1>4 DEF Kept, RXFT
<1> QED
  BY <1>1, <1>4, <1>6, <1>7, <1>8 DEF RxInv

LEMMA ArriveRxStep == ASSUME IInv, RxInv, Arrive PROVE RxInv'
<1>1. /\ received' = received + 1
      /\ UNCHANGED <<idle, cb, overrun, hw_overrun, delivered>>
      /\ Prompt => ~RxPending
      /\ IF Len(hw) < Depth THEN hw' = Append(hw, received + 1) /\ UNCHANGED ore
         ELSE ore' = TRUE /\ UNCHANGED hw
  BY DEF Arrive
<1> DEFINE g == overrun + HwOverruns
<1>2. /\ GoodStream(Stream, received, g) /\ received \in Nat /\ g \in Nat
      /\ HwOverruns \in Nat /\ overrun \in Nat /\ hw_overrun \in Nat
      /\ Bytes(Stream) = Kept
  <2>1. /\ RxGood(Rx, Cardinality(At("hold")), received, HwOverruns)
        /\ HwOverruns \in Nat /\ received \in Nat
        /\ StreamOf(Rx) = Stream /\ Bytes(Stream) = Kept
    BY RxGoodStart
  <2>2. Rx.overrun = overrun /\ overrun \in Nat /\ hw_overrun \in Nat
    BY DEF Rx, IInv, TypeOK
  <2> QED
    BY <2>1, <2>2 DEF RxGood
<1>3. /\ delivered \in Seq(Byte) /\ Content(cb) \in Seq(Byte) /\ hw \in Seq(Byte)
      /\ received + 1 \in Byte /\ Len(hw) <= Depth /\ Depth \in Nat \ {0}
  BY ContentIs, UsartAssumption DEF IInv, TypeOK, Arrive
<1>4. Fifo /\ Prompt => ~(idle' /\ RXFT')
  BY <1>1 DEF RxPending
<1>5. Fifo => Content(cb') = <<>>
  BY <1>1 DEF RxInv
<1> HIDE DEF g
<1>6. CASE Len(hw) < Depth
  <2>1. ~ore /\ ore' = ore /\ hw' = Append(hw, received + 1)
    BY <1>1, <1>3, <1>6 DEF RxInv
  <2>2. Stream' = Append(Stream, received + 1)
    <3> DEFINE x == delivered \o Content(cb)
    <3>1. x \in Seq(Byte) /\ Stream = x \o hw /\ Stream' = x \o Append(hw, received + 1)
      BY <1>1, <1>3, <2>1 DEF Stream
    <3> HIDE DEF x
    <3>2. Append(hw, received + 1) = hw \o <<received + 1>>
      BY <1>3, AppendIsConcat
    <3>3. Append(x \o hw, received + 1) = (x \o hw) \o <<received + 1>>
      BY <1>3, <3>1, AppendIsConcat, ConcatProperties
    <3>4. <<received + 1>> \in Seq(Byte)
      BY <1>3
    <3>5. (x \o hw) \o <<received + 1>> = x \o (hw \o <<received + 1>>)
      BY <1>3, <3>1, <3>4, ConcatAssociative
    <3> QED
      BY <3>1, <3>2, <3>3, <3>5
  <2>3. Stream \in Seq(Byte)
    BY <1>3 DEF Stream
  <2>4. GoodStream(Stream', received', g)
    BY <1>1, <1>2, <1>3, <2>2, <2>3, TakeNext
  <2>5. g = overrun' + hw_overrun' + (IF ore' THEN 1 ELSE 0)
    BY <1>1, <1>2, <2>1 DEF g, HwOverruns
  <2>6. RxInOrder' /\ GapsCounted'
    BY <2>4, <2>5, RxGoodEnd
  <2> QED
    BY <1>4, <1>5, <2>1, <2>6 DEF RxInv
<1>7. CASE ~(Len(hw) < Depth)
  <2>1. ore' = TRUE /\ hw' = hw /\ Len(hw) = Depth
    BY <1>1, <1>3, <1>7
  <2>2. Stream' = Stream
    BY <1>1, <2>1 DEF Stream
  <2>3. Stream \in Seq(Byte)
    BY <1>3 DEF Stream
  <2>4. received > 0
    <3>1. PICK i \in 1..Len(Stream) : TRUE
      <4>1. Len(Stream) = Len(delivered \o Content(cb)) + Len(hw)
        BY <1>3, ConcatProperties DEF Stream
      <4>2. Len(delivered \o Content(cb)) \in Nat
        BY <1>3
      <4> QED
        BY <1>3, <2>1, <4>1, <4>2
    <3>2. Stream[i] \in 1..received
      BY DEF RxInv, RxInOrder, Kept
    <3> QED
      BY <1>2, <3>2
  <2>5. /\ GoodStream(Stream, received + 1, g + 1)
        /\ received > 0 /\ received \notin Bytes(Stream) => GoodStream(Stream, received + 1, g)
        /\ received + 1 \notin Bytes(Stream)
    BY <1>2, <2>3, LoseNext
  <2>6. GoodStream(Stream', received', overrun' + hw_overrun' + (IF ore' THEN 1 ELSE 0))
    <3>1. CASE ore
      <4>1. GoodStream(Stream, received + 1, g)
        BY <1>2, <2>4, <2>5, <3>1 DEF RxInv
      <4>2. g = overrun' + hw_overrun' + (IF ore' THEN 1 ELSE 0)
        BY <1>1, <1>2, <2>1, <3>1 DEF g, HwOverruns
      <4> QED
        BY <1>1, <2>2, <4>1, <4>2
    <3>2. CASE ~ore
      <4>1. g + 1 = overrun' + hw_overrun' + (IF ore' THEN 1 ELSE 0)
        BY <1>1, <1>2, <2>1, <3>2 DEF g, HwOverruns
      <4> QED
        BY <1>1, <2>2, <2>5, <4>1
    <3> QED
      BY <3>1, <3>2
  <2>7. RxInOrder' /\ GapsCounted'
    BY <2>6, RxGoodEnd
  <2>8. received' \notin Kept'
    <3>1. Kept' = Kept
      BY <2>2 DEF Kept
    <3> QED
      BY <1>1, <1>2, <2>5, <3>1
  <2> QED
    BY <1>4, <1>5, <2>1, <2>7, <2>8 DEF RxInv
<1> QED
  BY <1>6, <1>7

LEMMA IdleRxStep == ASSUME IInv, RxInv, Idle PROVE RxInv'
<1>1. /\ UNCHANGED <<hw, ore, cb, overrun, hw_overrun, received, delivered>>
      /\ Prompt => ~RxPending
  BY DEF Idle
<1>2. Stream' = Stream /\ RXFT' = RXFT
  BY <1>1 DEF Stream, RXFT
<1>3. Kept' = Kept
  BY <1>2 DEF Kept
<1>4. Fifo /\ Prompt => ~RXFT
  BY <1>1 DEF RxPending
<1> QED
  BY <1>1, <1>2, <1>3, <1>4 DEF RxInv, RxInOrder, GapsCounted

(* Reception when no byte is read out of an empty receiver.                *)
LEMMA RxInvariant == ASSUME NoEmptyRead PROVE Spec => []RxInv
<1>1. Init => RxInv
  <2> SUFFICES ASSUME Init PROVE RxInv
    OBVIOUS
  <2>1. IInv
    BY InitInv
  <2>2. circ_buf_used(cb) = 0
    <3>1. cb.next_in = 0 /\ cb.next_out = 0 /\ cb \in CircBuf
      BY <2>1 DEF Init, IInv, TypeOK
    <3> QED
      BY <3>1, UsedIs
  <2>3. Content(cb) = <<>>
    <3>1. Content(cb) \in Seq(Byte) /\ Len(Content(cb)) = 0
      BY <2>1, <2>2, ContentIs DEF IInv, TypeOK
    <3> QED
      BY <3>1
  <2>4. Stream = <<>>
    BY <2>3 DEF Init, Stream
  <2>5. Kept = {}
    BY <2>4 DEF Kept
  <2>6. RxInOrder
    BY <2>4, <2>5 DEF RxInOrder
  <2>7. GapsCounted
    <3>1. {n \in (1..received) \ Kept : n = 1 \/ n - 1 \in Kept} = {}
      BY DEF Init
    <3>2. overrun + hw_overrun + (IF ore THEN 1 ELSE 0) = 0
      BY DEF Init
    <3> QED
      BY <3>1, <3>2, FS_EmptySet DEF GapsCounted
  <2> QED
    BY <2>3, <2>6, <2>7 DEF Init, RxInv
<1>2. IInv /\ RxInv /\ [Next]_vars => RxInv'
  <2> SUFFICES ASSUME IInv, RxInv, [Next]_vars PROVE RxInv'
    OBVIOUS
  <2>1. CASE usart_isr
    BY <2>1, IsrRxStep
  <2>2. CASE Sent
    BY <2>2, RxUntouched DEF Sent, rxVars
  <2>3. CASE Line
    BY <2>3, ArriveRxStep, IdleRxStep DEF Line
  <2>4. ASSUME NEW t \in Task, User(t) PROVE RxInv'
    <3>1. CASE Transmit(t) \/ _put(t)
      BY <3>1, RxUntouched DEF Transmit, _put, rxVars
    <3>2. CASE Receive(t) \/ Return(t)
      BY <3>2, RxUntouched DEF Receive, Return
    <3>3. CASE _put_pool(t)
      BY <3>3, PutPoolRxStep
    <3> QED
      BY <2>4, <3>1, <3>2, <3>3 DEF User
  <2>5. CASE UNCHANGED vars
    BY <2>5, RxUntouched DEF vars, rxVars
  <2> QED
    BY <2>1, <2>2, <2>3, <2>4, <2>5 DEF Next
<1> QED
  BY <1>1, <1>2, Invariant, PTL DEF Spec

-----------------------------------------------------------------------------
(* The line goes idle.                                                     *)

HeldInv ==
  /\ NothingHeldBack
  (* The handler that sees an idle line empties the receiver.              *)
  /\ ~busy /\ ~idle => hw = <<>>
  (* Without the FIFO it was empty when the line went idle.                *)
  /\ ~Fifo /\ ~busy => hw = <<>>

LEMMA IsrHeldStep == ASSUME IInv, RxInv, HeldInv, usart_isr PROVE HeldInv'
<1> DEFINE h  == Cardinality(At("hold"))
           r1 == IF ~idle THEN Rx
                 ELSE IF Fifo THEN rx_fifo(Rx, RXNE) ELSE sendcbIfUsed(Rx)
           r2 == IF RXFT THEN rx_fifo(r1, RXNE)
                 ELSE IF ~Fifo /\ RXNE THEN rx_byte(r1) ELSE r1
<1>1. /\ RxGood(Rx, h, received, HwOverruns) /\ h \in Nat /\ received \in Nat
      /\ HwOverruns \in Nat
      /\ RXNE \in BOOLEAN /\ Rx.hw = hw /\ Rx.pool = pool /\ Rx.cb = cb
      /\ RxOK(Rx, h)
  BY RxGoodStart, RxStart, AtFinite DEF RXNE, Rx
<1>2. /\ SetRx(r2) /\ idle' = FALSE /\ UNCHANGED <<busy, pc>>
  BY DEF usart_isr
<1>3. At("return")' = At("return")
  BY <1>2 DEF At
<1>4. SUFFICES ASSUME ~busy
               PROVE  /\ hw' = <<>>
                      /\ Content(cb') \o hw' # <<>> => pool' = 0 \/ At("return") # {}
  BY <1>2, <1>3 DEF HeldInv, NothingHeldBack
<1>5. RXFT => Fifo /\ RXNE
  BY UsartAssumption DEF RXFT, RXNE, IInv, TypeOK
<1>6. CASE Fifo
  <2>1. RxOK(r1, h) /\ r1.cb = cb /\ (RXFT \/ r1.hw = <<>>)
    <3>1. CASE ~idle
      BY <1>1, <1>4, <3>1 DEF HeldInv
    <3>2. CASE idle
      <4>1. r1 = rx_fifo(Rx, RXNE)
        BY <1>6, <3>2
      <4>2. RXNE \/ Rx.hw = <<>>
        BY <1>1 DEF RXNE
      <4> QED
        BY <1>1, <4>1, <4>2, RxFifoOK, RxFifoEmpties
    <3> QED
      BY <3>1, <3>2
  <2> HIDE DEF r1, h
  <2>2. r2.hw = <<>> /\ r2.cb = cb
    <3>1. CASE RXFT
      BY <1>1, <1>5, <2>1, <3>1, RxFifoEmpties
    <3>2. CASE ~RXFT
      BY <1>6, <2>1, <3>2
    <3> QED
      BY <3>1, <3>2
  <2> HIDE DEF r2
  <2>3. hw' = <<>> /\ cb' = cb
    BY <1>2, <2>2 DEF SetRx
  <2>4. Content(cb') \o hw' = <<>>
    BY <1>6, <2>3 DEF RxInv
  <2> QED
    BY <2>3, <2>4
<1>7. CASE ~Fifo
  <2>1. hw = <<>> /\ ~RXNE /\ ~RXFT
    BY <1>4, <1>5, <1>7 DEF HeldInv, RXNE
  <2>2. r2 = r1
    BY <1>7, <2>1
  <2>3. CASE ~idle
    <3>1. hw' = hw /\ cb' = cb /\ pool' = pool
      BY <1>1, <1>2, <2>2, <2>3 DEF SetRx
    <3> QED
      BY <1>4, <2>1, <2>3, <3>1 DEF HeldInv, NothingHeldBack
  <2>4. CASE idle
    <3>1. SetRx(sendcbIfUsed(Rx))
      BY <1>2, <1>7, <2>2, <2>4
    <3>2. /\ sendcbIfUsed(Rx).hw = Rx.hw
          /\ Rx.pool # 0 => Content(sendcbIfUsed(Rx).cb) = <<>>
          /\ Rx.pool = 0 => sendcbIfUsed(Rx).pool = 0
      BY <1>1, SendcbIfUsedGood
    <3>3. /\ hw' = <<>>
          /\ pool # 0 => Content(cb') = <<>>
          /\ pool = 0 => pool' = 0
      BY <1>1, <2>1, <3>1, <3>2 DEF SetRx
    <3>4. pool # 0 => Content(cb') \o hw' = <<>>
      BY <3>3
    <3> QED
      BY <3>3, <3>4
  <2> QED
    BY <2>3, <2>4
<1> QED
  BY <1>6, <1>7

LEMMA PutPoolHeldStep ==
  ASSUME IInv, RxInv, HeldInv, NEW t \in Task, _put_pool(t)
  PROVE  HeldInv'
<1> DEFINE h == Cardinality(At("hold"))
<1>1. SetRx(sendcbIfUsed(Rx)) /\ UNCHANGED <<idle, busy>>
  BY DEF _put_pool
<1>2. /\ RxGood(Rx, h, received, HwOverruns) /\ h \in Nat /\ received \in Nat
      /\ HwOverruns \in Nat
      /\ Rx.hw = hw /\ Rx.pool = pool
  BY RxGoodStart, AtFinite DEF Rx
<1>3. /\ sendcbIfUsed(Rx).hw = hw
      /\ pool # 0 => Content(sendcbIfUsed(Rx).cb) = <<>>
      /\ pool = 0 => sendcbIfUsed(Rx).pool = 0
  BY <1>2, SendcbIfUsedGood
<1>4. /\ hw' = hw
      /\ pool # 0 => Content(cb') = <<>>
      /\ pool = 0 => pool' = 0
  BY <1>1, <1>3 DEF SetRx
<1>5. ~busy' /\ ~idle' => hw' = <<>>
  BY <1>1, <1>4 DEF HeldInv
<1>6. ~busy' /\ ~idle' /\ pool # 0 => Content(cb') \o hw' = <<>>
  BY <1>4, <1>5
<1>7. NothingHeldBack'
  BY <1>4, <1>6 DEF NothingHeldBack
<1> QED
  BY <1>1, <1>4, <1>5, <1>7 DEF HeldInv

(* A task that returns a message is about to flush the ring.               *)
LEMMA ReturnHeldStep ==
  ASSUME IInv, HeldInv, NEW t \in Task, Return(t)
  PROVE  HeldInv'
<1>1. /\ pc' = [pc EXCEPT ![t] = "return"] /\ pc \in [Task -> Places]
      /\ UNCHANGED <<hw, idle, busy>>
  BY DEF Return, IInv, TypeOK
<1>2. t \in At("return")'
  BY <1>1 DEF At
<1> QED
  BY <1>1, <1>2 DEF HeldInv, NothingHeldBack

(* No other step of a task ends a "return" or fills the pool.              *)
LEMMA HeldUntouched ==
  ASSUME HeldInv, UNCHANGED <<hw, cb, idle, busy, pool>>, At("return") \subseteq At("return")'
  PROVE  HeldInv'
<1>1. hw' = hw /\ cb' = cb /\ idle' = idle /\ busy' = busy /\ pool' = pool
  OBVIOUS
<1>2. Content(cb') \o hw' = Content(cb) \o hw
  BY <1>1
<1> QED
  BY <1>1, <1>2 DEF HeldInv, NothingHeldBack

LEMMA HeldInvariant == ASSUME Prompt PROVE Spec => []HeldInv
<1>1. Init => HeldInv
  <2> SUFFICES ASSUME Init PROVE HeldInv
    OBVIOUS
  <2>1. hw = <<>> /\ pool = MsgCnt /\ cb.next_in = 0 /\ cb.next_out = 0 /\ cb \in CircBuf
    BY InitInv DEF Init, IInv, TypeOK
  <2>2. circ_buf_used(cb) = 0
    BY <2>1, UsedIs
  <2>3. Content(cb) \in Seq(Byte) /\ Len(Content(cb)) = 0
    BY <2>1, <2>2, ContentIs
  <2>4. Content(cb) \o hw = <<>>
    BY <2>1, <2>3
  <2> QED
    BY <2>1, <2>4 DEF HeldInv, NothingHeldBack
<1>2. IInv /\ RxInv /\ HeldInv /\ [Next]_vars => HeldInv'
  <2> SUFFICES ASSUME IInv, RxInv, HeldInv, [Next]_vars PROVE HeldInv'
    OBVIOUS
  <2>1. CASE usart_isr
    BY <2>1, IsrHeldStep
  <2>2. CASE Sent
    BY <2>2, HeldUntouched DEF Sent, rxVars, At
  <2>3. CASE Arrive
    BY <2>3 DEF Arrive, HeldInv, NothingHeldBack
  <2>4. CASE Idle
    <3>1. ~RxPending /\ idle' = TRUE /\ hw' = hw
      BY <2>4 DEF Idle
    <3>2. ~Fifo => hw = <<>>
      BY <3>1 DEF RxPending, RXNE
    <3> QED
      BY <3>1, <3>2 DEF HeldInv, NothingHeldBack
  <2>5. ASSUME NEW t \in Task, User(t) PROVE HeldInv'
    <3>1. pc \in [Task -> Places]
      BY DEF IInv, TypeOK
    <3>2. CASE Transmit(t)
      BY <3>1, <3>2, HeldUntouched DEF Transmit, rxVars, At
    <3>3. CASE _put(t)
      BY <3>1, <3>3, HeldUntouched DEF _put, rxVars, At
    <3>4. CASE Receive(t)
      BY <3>1, <3>4, HeldUntouched DEF Receive, At
    <3>5. CASE Return(t)
      BY <3>5, ReturnHeldStep
    <3>6. CASE _put_pool(t)
      BY <3>6, PutPoolHeldStep
    <3> QED
      BY <2>5, <3>2, <3>3, <3>4, <3>5, <3>6 DEF User
  <2>6. CASE UNCHANGED vars
    BY <2>6, HeldUntouched DEF vars, rxVars, At
  <2> QED
    BY <2>1, <2>2, <2>3, <2>4, <2>5, <2>6 DEF Next, Line
<1>3. NoEmptyRead
  BY DEF NoEmptyRead
<1>4. Spec => []RxInv
  BY <1>3, RxInvariant
<1> QED
  BY <1>1, <1>2, <1>4, Invariant, PTL DEF Spec

-----------------------------------------------------------------------------
(* Bytes reach the receive queue in the order of the line, at most once,   *)
(* and none that was not sent, for any sizes and any number of users.      *)
THEOREM ReceivesInOrder == ASSUME NoEmptyRead PROVE Spec => []RxInOrder
<1>1. RxInv => RxInOrder
  BY DEF RxInv
<1> QED
  BY <1>1, RxInvariant, PTL

(* However many bytes are lost, in the receiver or for want of messages,   *)
(* the statistics count at least one overrun for each gap.                 *)
THEOREM GapsAlwaysCounted == ASSUME NoEmptyRead PROVE Spec => []GapsCounted
<1>1. RxInv => GapsCounted
  BY DEF RxInv
<1> QED
  BY <1>1, RxInvariant, PTL

(* When the handler keeps up with the line, what came before the line went *)
(* idle waits in the driver only for a message of the pool.                *)
THEOREM FlushedWhenIdle == ASSUME Prompt PROVE Spec => []NothingHeldBack
<1>1. HeldInv => NothingHeldBack
  BY DEF HeldInv
<1> QED
  BY <1>1, HeldInvariant, PTL
=============================================================================
