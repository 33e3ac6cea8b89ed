------------------------------ MODULE CircBuf ------------------------------
(***************************************************************************)
(* The circular buffer of std/src/circ_buf.c and std/inc/circ_buf.h.  A    *)
(* buffer is the record of its array and its two indices.  len is a power  *)
(* of two, so "& mask" is "% BufLen", also where next_in - next_out is     *)
(* negative.                                                               *)
(***************************************************************************)
EXTENDS Integers, Sequences

CONSTANTS
  BufLen,  \* circ_buf_t.len
  Byte

(* circ_buf_t.len is an unsigned short.                                    *)
ASSUME CircBufAssumption ==
  /\ BufLen \in Nat \ {0}
  /\ \E pow2 \in 0..15 : BufLen = 2^pow2

Least(x, y) == IF x < y THEN x ELSE y

Index == 0..(BufLen - 1)
CircBuf == [data : [Index -> Byte], next_in : Index, next_out : Index]

(* malloc does not clear the array.                                        *)
circ_buf_init(cb) ==
  /\ cb.data \in [Index -> Byte]
  /\ cb.next_in = 0
  /\ cb.next_out = 0

circ_buf_used(cb) == (cb.next_in - cb.next_out) % BufLen

(* What can be written without wrapping around.                            *)
circ_buf_space(cb) ==
  Least(BufLen - 1 - circ_buf_used(cb), BufLen - cb.next_in)

(* Mistake: the bytes are copied to the start of the array.                *)
writeToStart(cb, s) ==
  LET len == Least(Len(s), circ_buf_space(cb))
  IN  [n  |-> len,
       cb |-> [cb EXCEPT
         !.data = [i \in Index |-> IF i < len THEN s[i + 1] ELSE @[i]],
         !.next_in = (@ + len) % BufLen]]

(* Writes the first bytes of s, as many as circ_buf_space allows, and      *)
(* returns how many (n).                                                   *)
circ_buf_write(cb, s) ==
  LET len == Least(Len(s), circ_buf_space(cb))
  IN  [n  |-> len,
       cb |-> [cb EXCEPT
         !.data = [i \in Index |->
           IF i \in cb.next_in..(cb.next_in + len - 1)
             THEN s[i - cb.next_in + 1] ELSE @[i]],
         !.next_in = (@ + len) % BufLen]]

(* Mistake: the end of the array does not stop a read.                     *)
readPastEnd(cb, max) ==
  LET len == Least(max, circ_buf_used(cb))
  IN  [s  |-> [i \in 1..len |-> cb.data[Least(cb.next_out + i - 1, BufLen - 1)]],
       cb |-> [cb EXCEPT !.next_out = (@ + len) % BufLen]]

(* Reads up to max bytes (s), not past the end of the array.               *)
circ_buf_read(cb, max) ==
  LET len == Least(Least(max, circ_buf_used(cb)), BufLen - cb.next_out)
  IN  [s  |-> [i \in 1..len |-> cb.data[cb.next_out + i - 1]],
       cb |-> [cb EXCEPT !.next_out = (@ + len) % BufLen]]

(* The bytes in the buffer, oldest first.                                  *)
Content(cb) ==
  [i \in 1..circ_buf_used(cb) |-> cb.data[(cb.next_out + i - 1) % BufLen]]
=============================================================================
