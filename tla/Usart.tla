------------------------------- MODULE Usart -------------------------------
(***************************************************************************)
(* The UART driver hal/stm32/core/src/stm32_usart_b.c with the tasks that  *)
(* use it and the hardware it drives.                                      *)
(*                                                                         *)
(* The bytes of each direction are numbered in the order of the line.  A   *)
(* message to transmit is its first byte and its length; that messages     *)
(* keep their order on a queue, and their identity, is the business of     *)
(* BmosQueue, so the pool and the receive queue are counters here.  The    *)
(* handler is one step: no task and no other handler runs inside it, and   *)
(* the hardware changes that come meanwhile are as good as later ones.     *)
(***************************************************************************)
EXTENDS CircBuf, FiniteSets

CONSTANTS
  Task,       \* the users
  Fifo,       \* flags & STM32_UART_FIFO
  Depth,      \* bytes the receiver, and the transmitter, can hold
  Threshold,  \* bytes in the receiver from which RXFT is set
  MsgCnt,     \* messages of the pool
  TxLen,      \* lengths of transmitted messages
  Prompt,     \* the handler is done before the line can change again
  MaxRx,      \* bound: bytes received
  MaxTx,      \* bound: bytes given to the driver
  NULL

MsgLen == BufLen  \* msg_len, and the ring is as long (stm32_usart_b.c:390)

Message == [data : Nat, data_len : Nat]

(* uart_t.msg_len is an unsigned char, and not one because uart_open takes *)
(* a msg_pow2 of zero for none.  No user puts an empty message, and on all *)
(* boards a message is as long as the receive FIFO at least.               *)
ASSUME UsartAssumption ==
  /\ IsFiniteSet(Task)
  /\ Fifo \in BOOLEAN
  /\ Prompt \in BOOLEAN
  /\ Depth \in Nat \ {0}
  /\ Threshold \in 1..Depth
  /\ ~Fifo => Depth = 1
  /\ MsgLen \in Depth..255 /\ MsgLen > 1
  /\ MsgCnt \in Nat \ {0}
  /\ TxLen \subseteq Nat \ {0}
  /\ MaxRx \in Nat
  /\ MaxTx \in Nat
  /\ 0..MaxRx \subseteq Byte
  /\ NULL \notin Message

VARIABLES
  txq,         \* the transmit queue
  msg,         \* uart_t.msg, .data and .data_len
  txeie,       \* USART_CR1_TXEIE, or TXFEIE with the FIFO
  txe,         \* UART_ISR_TXE, or TXFE: the transmitter can take Depth bytes
  wire,        \* history: the bytes written to TDR
  put,         \* history: how many bytes were put on the transmit queue
  hw,          \* the bytes in RDR or the receive FIFO
  ore,         \* UART_ISR_ORE
  idle,        \* UART_ISR_IDLE
  busy,        \* bytes have come since the line was last found idle
  cb,          \* uart_t.cb
  pool,        \* how many messages are on uart_t.pool
  rxq,         \* how many are on uart_t.rxq
  overrun,     \* stats.overrun
  hw_overrun,  \* stats.hw_overrun
  received,    \* history: how many bytes came over the line
  delivered,   \* history: the bytes put on rxq
  pc           \* what a task is doing

txVars == <<txq, msg, txeie, txe, wire, put>>
rxVars == <<hw, ore, idle, busy, cb, pool, rxq, overrun, hw_overrun, received, delivered>>
vars == <<txVars, rxVars, pc>>

(* "put": before the callback _put; "hold": with a received message;       *)
(* "return": before the callback _put_pool.                                *)
Places == {"out", "put", "hold", "return"}

(* What RDR reads when it is empty: no byte of the line.                   *)
Junk == 0

Init ==  \* uart_open
  /\ txq = <<>> /\ msg = NULL /\ txeie = FALSE /\ txe = TRUE
  /\ wire = <<>> /\ put = 0
  /\ hw = <<>> /\ ore = FALSE /\ idle = FALSE /\ busy = FALSE
  /\ cb = [data |-> [i \in Index |-> Junk], next_in |-> 0, next_out |-> 0]
  /\ pool = MsgCnt /\ rxq = 0
  /\ overrun = 0 /\ hw_overrun = 0
  /\ received = 0 /\ delivered = <<>>
  /\ pc = [t \in Task |-> "out"]

-----------------------------------------------------------------------------
(* Transmission.                                                           *)

(* op_msg_put(txq): the message is on the queue, the callback is to come.  *)
Transmit(t) ==
  /\ pc[t] = "out"
  /\ \E len \in TxLen :
       /\ put + len <= MaxTx
       /\ txq' = Append(txq, [data |-> put + 1, data_len |-> len])
       /\ put' = put + len
  /\ pc' = [pc EXCEPT ![t] = "put"]
  /\ UNCHANGED <<msg, txeie, txe, wire, rxVars>>

(* Mistake: only the first message in the queue starts the transmitter.    *)
putFirstOnly(t) ==
  /\ pc[t] = "put"
  /\ txeie' = (txeie \/ Len(txq) = 1)
  /\ pc' = [pc EXCEPT ![t] = "out"]
  /\ UNCHANGED <<txq, msg, txe, wire, put, rxVars>>

(* The handler can clear TXEIE between the read and the write of CR1, and  *)
(* the write sets it; no other bit of CR1 ever changes.                    *)
_put(t) ==
  /\ pc[t] = "put"
  /\ txeie' = TRUE
  /\ pc' = [pc EXCEPT ![t] = "out"]
  /\ UNCHANGED <<txq, msg, txe, wire, put, rxVars>>

(* Mistake: data is not saved for the next interrupt.                      *)
txKeepsData(m, n) ==
  IF n = m.data_len THEN NULL ELSE [m EXCEPT !.data_len = @ - n]

(* What is left of a message after n bytes, NULL when it is returned.      *)
txRest(m, n) ==
  IF n = m.data_len THEN NULL
  ELSE [data |-> m.data + n, data_len |-> m.data_len - n]

(* The handler's part for the transmitter.  With the FIFO, bytes can leave *)
(* it while it is filled, so more than Depth can go into it.               *)
usart_tx ==
  LET m == IF msg # NULL THEN msg ELSE Head(txq)
  IN  IF msg = NULL /\ txq = <<>>
        THEN txeie' = FALSE /\ UNCHANGED <<txq, msg, txe, wire>>
        ELSE /\ txq' = IF msg # NULL THEN txq ELSE Tail(txq)
             /\ \E n \in 1..m.data_len :
                  /\ IF Fifo THEN n >= Least(Depth, m.data_len) ELSE n = 1
                  /\ wire' = wire \o [i \in 1..n |-> m.data + i - 1]
                  /\ msg' = txRest(m, n)
             /\ txe' = FALSE
             /\ UNCHANGED txeie

(* Hardware: what was written to TDR has been sent.                        *)
Sent ==
  /\ ~txe
  /\ txe' = TRUE
  /\ UNCHANGED <<txq, msg, txeie, wire, put, rxVars, pc>>

-----------------------------------------------------------------------------
(* Reception.  The operators map the part of the state that the handler's  *)
(* calls change: r.hw, r.cb, r.pool, r.rxq, r.overrun, r.delivered.        *)

Rx == [hw |-> hw, cb |-> cb, pool |-> pool, rxq |-> rxq,
       overrun |-> overrun, delivered |-> delivered]

SetRx(r) ==
  /\ hw' = r.hw /\ cb' = r.cb /\ pool' = r.pool /\ rxq' = r.rxq
  /\ overrun' = r.overrun /\ delivered' = r.delivered

(* op_msg_get(pool) and op_msg_put(rxq).                                   *)
Deliver(r, s) ==
  [r EXCEPT !.pool = @ - 1, !.rxq = @ + 1, !.delivered = @ \o s]

(* Mistakes: the pool is not asked; an overrun is not counted.             *)
sendcbUnchecked(r) ==
  LET r1 == circ_buf_read(r.cb, MsgLen)
      r2 == circ_buf_read(r1.cb, MsgLen)
  IN  [Deliver(r, r1.s \o r2.s) EXCEPT !.cb = r2.cb]

sendcbSilent(r) == IF r.pool = 0 THEN r ELSE sendcbUnchecked(r)

sendcb(r) ==
  IF r.pool = 0 THEN [r EXCEPT !.overrun = @ + 1]
  ELSE LET r1 == circ_buf_read(r.cb, MsgLen)
           r2 == circ_buf_read(r1.cb, MsgLen)
           s  == IF Len(r1.s) < MsgLen THEN r1.s \o r2.s ELSE r1.s
       IN  [Deliver(r, s) EXCEPT
              !.cb = IF Len(r1.s) < MsgLen THEN r2.cb ELSE r1.cb]

sendcbIfUsed(r) == IF circ_buf_used(r.cb) > 0 THEN sendcb(r) ELSE r

(* The loop of rx_fifo.                                                    *)
rxTake(r, n) ==
  [Deliver(r, SubSeq(r.hw, 1, n)) EXCEPT !.hw = SubSeq(@, n + 1, Len(@))]

(* Mistakes: a message got for nothing is not returned; discarded bytes    *)
(* are not counted; the loop is missing.                                   *)
rxFifoLeaks(r, rxne) ==
  IF r.pool = 0 THEN [r EXCEPT !.overrun = @ + 1, !.hw = <<>>]
  ELSE IF r.hw = <<>> THEN [r EXCEPT !.pool = @ - 1]
  ELSE rxTake(r, Least(Len(r.hw), MsgLen))

rxFifoSilent(r, rxne) ==
  IF r.pool = 0 THEN [r EXCEPT !.hw = <<>>]
  ELSE IF r.hw = <<>> THEN r
  ELSE rxTake(r, Least(Len(r.hw), MsgLen))

rxFifoOneByte(r, rxne) ==
  IF r.pool = 0 THEN [r EXCEPT !.overrun = @ + 1, !.hw = <<>>]
  ELSE IF r.hw = <<>> THEN r
  ELSE rxTake(r, 1)

(* The first byte is read because the handler's status word says so, the   *)
(* others because the hardware does.  A message got for nothing goes back  *)
(* to the pool; its callback finds the ring empty.                         *)
rx_fifo(r, rxne) ==
  IF ~rxne
    THEN IF r.pool = 0 THEN [r EXCEPT !.overrun = @ + 1] ELSE r
    ELSE IF r.pool = 0 THEN [r EXCEPT !.overrun = @ + 1, !.hw = <<>>]
         ELSE IF r.hw = <<>> THEN Deliver(r, <<Junk>>)
         ELSE rxTake(r, Least(Len(r.hw), MsgLen))

(* A byte without the FIFO.                                                *)
rx_byte(r) ==
  LET w  == circ_buf_write(r.cb, <<Head(r.hw)>>)
      r1 == [r EXCEPT !.hw = Tail(@)]
      r2 == sendcb(r1)
  IN  IF w.n = 0
        THEN [r2 EXCEPT !.cb = circ_buf_write(@, <<Head(r.hw)>>).cb]
        ELSE [r1 EXCEPT !.cb = w.cb]

RXFT == Fifo /\ Len(hw) >= Threshold
RXNE == hw # <<>>

(* What makes the handler run: IDLEIE, RXFTIE, RXNEIE (for ORE too), and   *)
(* TXEIE or TXFEIE.                                                        *)
RxPending == idle \/ RXFT \/ (~Fifo /\ (RXNE \/ ore))
TxPending == txeie /\ txe

(* The status word and CR1 are read once, before anything is done.         *)
usart_isr ==
  /\ RxPending \/ TxPending
  /\ ore' = FALSE
  /\ hw_overrun' = IF ore THEN hw_overrun + 1 ELSE hw_overrun
  /\ idle' = FALSE
  /\ LET r1 == IF ~idle THEN Rx
               ELSE IF Fifo THEN rx_fifo(Rx, RXNE) ELSE sendcbIfUsed(Rx)
         r2 == IF RXFT THEN rx_fifo(r1, RXNE)
               ELSE IF ~Fifo /\ RXNE THEN rx_byte(r1) ELSE r1
     IN  SetRx(r2)
  /\ IF TxPending THEN usart_tx ELSE UNCHANGED <<txq, msg, txeie, txe, wire>>
  /\ UNCHANGED <<busy, received, put, pc>>

(* Mistake: the driver's own message pool has no callback.                 *)
noPutPool(t) ==
  /\ pc[t] = "return"
  /\ pc' = [pc EXCEPT ![t] = "out"]
  /\ UNCHANGED <<txVars, rxVars>>

(* With interrupts disabled.                                               *)
_put_pool(t) ==
  /\ pc[t] = "return"
  /\ SetRx(sendcbIfUsed(Rx))
  /\ pc' = [pc EXCEPT ![t] = "out"]
  /\ UNCHANGED <<ore, idle, busy, hw_overrun, received, txVars>>

(* A user takes a message from rxq and returns it to its pool, where it is *)
(* before the callback is called.                                          *)
Receive(t) ==
  /\ pc[t] = "out"
  /\ rxq > 0
  /\ rxq' = rxq - 1
  /\ pc' = [pc EXCEPT ![t] = "hold"]
  /\ UNCHANGED <<hw, ore, idle, busy, cb, pool, overrun, hw_overrun, received, delivered, txVars>>

Return(t) ==
  /\ pc[t] = "hold"
  /\ pool' = pool + 1
  /\ pc' = [pc EXCEPT ![t] = "return"]
  /\ UNCHANGED <<hw, ore, idle, busy, cb, rxq, overrun, hw_overrun, received, delivered, txVars>>

(* Hardware: a byte comes in, or is lost because the receiver is full.     *)
Arrive ==
  /\ received < MaxRx
  /\ Prompt => ~RxPending
  /\ received' = received + 1
  /\ busy' = TRUE
  /\ IF Len(hw) < Depth
       THEN hw' = Append(hw, received + 1) /\ UNCHANGED ore
       ELSE ore' = TRUE /\ UNCHANGED hw
  /\ UNCHANGED <<idle, cb, pool, rxq, overrun, hw_overrun, delivered, txVars, pc>>

(* Hardware: no byte for the time of a frame.                              *)
Idle ==
  /\ busy
  /\ Prompt => ~RxPending
  /\ idle' = TRUE
  /\ busy' = FALSE
  /\ UNCHANGED <<hw, ore, cb, pool, rxq, overrun, hw_overrun, received, delivered, txVars, pc>>

-----------------------------------------------------------------------------
Line == Arrive \/ Idle
User(t) == Transmit(t) \/ _put(t) \/ Receive(t) \/ Return(t) \/ _put_pool(t)

Next == usart_isr \/ Sent \/ Line \/ \E t \in Task : User(t)

Spec == Init /\ [][Next]_vars

(* The interrupt is taken, the line goes idle, what is in the transmitter  *)
(* is sent, a user ends its call and returns what it took, and somebody    *)
(* serves the receive queue.                                               *)
Fairness ==
  /\ WF_vars(usart_isr) /\ WF_vars(Sent) /\ WF_vars(Idle)
  /\ \A t \in Task : WF_vars(_put(t)) /\ WF_vars(Return(t)) /\ WF_vars(_put_pool(t))
  /\ WF_vars(\E t \in Task : Receive(t))

FairSpec == Spec /\ Fairness

-----------------------------------------------------------------------------
(* Properties.                                                             *)

TypeOK ==
  /\ txq \in Seq(Message)
  /\ msg \in Message \cup {NULL}
  /\ txeie \in BOOLEAN /\ txe \in BOOLEAN
  /\ wire \in Seq(Nat) /\ put \in Nat
  /\ hw \in Seq(Byte) /\ Len(hw) <= Depth
  /\ ore \in BOOLEAN /\ idle \in BOOLEAN /\ busy \in BOOLEAN
  /\ cb \in CircBuf
  /\ pool \in 0..MsgCnt /\ rxq \in 0..MsgCnt
  /\ overrun \in Nat /\ hw_overrun \in Nat
  /\ received \in 0..MaxRx /\ delivered \in Seq(Byte)
  /\ pc \in [Task -> Places]

At(place) == {t \in Task : pc[t] = place}

(* The messages to be sent, the one in transmission first.                 *)
Outgoing == (IF msg = NULL THEN <<>> ELSE <<msg>>) \o txq

(* The bytes written to TDR and those still to be written are the bytes    *)
(* put on the queue, each once, in order, however puts and interrupts      *)
(* interleave (stm32_usart_b.c:181-231).                                   *)
TxInOrder ==
  /\ \A i \in 1..Len(wire) : wire[i] = i
  /\ \A i \in 1..Len(Outgoing) :
       /\ Outgoing[i].data = IF i = 1 THEN Len(wire) + 1
                             ELSE Outgoing[i-1].data + Outgoing[i-1].data_len
       /\ Outgoing[i].data_len > 0
  /\ put = IF Outgoing = <<>> THEN Len(wire)
           ELSE LET m == Outgoing[Len(Outgoing)] IN m.data + m.data_len - 1

(* While there is something to send the transmit interrupt is enabled, or  *)
(* a task is about to enable it, although the handler disables it without  *)
(* asking whether somebody is about to (stm32_usart_b.c:199, 335).         *)
TxHandshake == Outgoing # <<>> => txeie \/ At("put") # {}

(* Every message of the pool is on the pool, on the receive queue, or with *)
(* a task: the handler loses none on any of its ways out                   *)
(* (stm32_usart_b.c:233-289).                                              *)
PoolConserved == pool + rxq + Cardinality(At("hold")) = MsgCnt

(* The bytes received that are not lost, oldest first.                     *)
Stream == delivered \o Content(cb) \o hw
Kept == {Stream[i] : i \in 1..Len(Stream)}

(* Bytes are delivered in the order of the line and at most once, and      *)
(* nothing is that did not come over the line (stm32_usart_b.c:233-331).   *)
RxInOrder ==
  /\ \A i, j \in 1..Len(Stream) : i < j => Stream[i] < Stream[j]
  /\ Kept \subseteq 1..received

(* Nothing is lost silently: each gap in the stream is an overrun counted  *)
(* in stats, or about to be (hal_uart.h:45-48).                            *)
GapsCounted ==
  Cardinality({n \in (1..received) \ Kept : n = 1 \/ n - 1 \in Kept})
    <= overrun + hw_overrun + (IF ore THEN 1 ELSE 0)

(* When the line is idle, and the handler has seen it, the driver holds    *)
(* bytes back only for want of a message, and flushes them as soon as one  *)
(* comes back to the pool (stm32_usart_b.c:306-313, 346-357).              *)
NothingHeldBack ==
  ~busy /\ ~idle /\ Content(cb) \o hw # <<>> => pool = 0 \/ At("return") # {}

(* What is put on the transmit queue is sent.                              *)
EveryByteSent == \A n \in 1..MaxTx : put >= n ~> Len(wire) >= n

(* A byte that comes in is delivered, or lost in an overrun.               *)
EveryByteDelivered ==
  \A n \in 1..MaxRx :
    received >= n ~> n \notin Kept \/ \E i \in 1..Len(delivered) : delivered[i] = n
=============================================================================
