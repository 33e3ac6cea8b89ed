---------------------------- MODULE CircBufUser ----------------------------
(***************************************************************************)
(* A buffer, written and read in portions of every size.  The bytes that   *)
(* the last call was given and how many it took (its return value) are     *)
(* kept, so that what it stored can be held against them.                  *)
(***************************************************************************)
EXTENDS CircBuf

CONSTANT MaxPortion  \* bytes offered to a write or asked of a read

ASSUME PortionAssumption == MaxPortion \in Nat

VARIABLES
  ring,
  offered,  \* the bytes the last call was given, none if it was a read
  taken,    \* how many it said it wrote
  got       \* the bytes it returned, none if it was a write

ringVars == <<ring, offered, taken, got>>

RingInit ==
  /\ ring \in CircBuf /\ circ_buf_init(ring)
  /\ offered = <<>> /\ taken = 0 /\ got = <<>>

Write ==
  \E n \in 1..MaxPortion : \E s \in [1..n -> Byte] :
    LET w == circ_buf_write(ring, s)
    IN  ring' = w.cb /\ offered' = s /\ taken' = w.n /\ got' = <<>>

Read ==
  \E n \in 1..MaxPortion :
    LET r == circ_buf_read(ring, n)
    IN  ring' = r.cb /\ got' = r.s /\ offered' = <<>> /\ taken' = 0

RingNext == Write \/ Read

RingSpec == RingInit /\ [][RingNext]_ringVars

-----------------------------------------------------------------------------
Bounded == INSTANCE ByteFifo WITH content <- Content(ring), Capacity <- BufLen - 1

(* The buffer gives back what was written, in order: a write adds the      *)
(* first of the bytes it is given, as many as it says it wrote, and        *)
(* overwrites none that was not read, and a read returns the oldest ones,  *)
(* at every position of the indices (circ_buf.c:39-78).                    *)
BufferIsFifo == Bounded!Spec

(* Two reads empty the buffer however its content wraps around: sendcb     *)
(* relies on it (stm32_usart_b.c:245).                                     *)
TwoReadsDrain ==
  LET r1 == circ_buf_read(ring, BufLen)
      r2 == circ_buf_read(r1.cb, BufLen)
  IN  /\ r1.s \o r2.s = Content(ring)
      /\ circ_buf_used(r2.cb) = 0
=============================================================================
