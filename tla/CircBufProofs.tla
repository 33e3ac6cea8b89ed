--------------------------- MODULE CircBufProofs ---------------------------
(***************************************************************************)
(* What the operations of the circular buffer do to its content, for every *)
(* length of the buffer, and that the buffer is a bounded FIFO of bytes.   *)
(* The proofs of the UART driver use the first part for the driver's ring. *)
(***************************************************************************)
EXTENDS CircBufUser, SequenceTheorems, TLAPS

(* The ring is not empty and its indices stay inside.                      *)
LEMMA BufLenPositive == BufLen \in Nat \ {0}
BY CircBufAssumption

LEMMA UsedType ==
  ASSUME NEW c \in CircBuf
  PROVE  circ_buf_used(c) \in 0..(BufLen - 1)
<1>1. c.next_in - c.next_out \in Int
  BY BufLenPositive DEF CircBuf, Index
<1> QED
  BY <1>1, BufLenPositive DEF circ_buf_used

LEMMA WriteType ==
  ASSUME NEW c \in CircBuf, NEW s \in Seq(Byte)
  PROVE  /\ circ_buf_write(c, s).n \in 0..Len(s)
         /\ circ_buf_write(c, s).cb \in CircBuf
<1> DEFINE len == Least(Len(s), circ_buf_space(c))
<1>1. circ_buf_space(c) \in Nat
  BY UsedType, BufLenPositive DEF circ_buf_space, Least, CircBuf, Index
<1>2. len \in 0..Len(s)
  BY <1>1 DEF Least
<1>3. (c.next_in + len) % BufLen \in Index
  BY <1>2, BufLenPositive DEF CircBuf, Index
<1>4. \A i \in c.next_in..(c.next_in + len - 1) : s[i - c.next_in + 1] \in Byte
  BY <1>2 DEF CircBuf, Index
<1>5. [i \in Index |-> IF i \in c.next_in..(c.next_in + len - 1)
                         THEN s[i - c.next_in + 1] ELSE c.data[i]] \in [Index -> Byte]
  BY <1>4 DEF CircBuf
<1> QED
  BY <1>2, <1>3, <1>5 DEF circ_buf_write, CircBuf

LEMMA ReadType ==
  ASSUME NEW c \in CircBuf, NEW max \in Nat
  PROVE  /\ circ_buf_read(c, max).s \in Seq(Byte)
         /\ circ_buf_read(c, max).cb \in CircBuf
<1> DEFINE len == Least(Least(max, circ_buf_used(c)), BufLen - c.next_out)
<1>1. len \in Nat /\ c.next_out + len <= BufLen
  BY UsedType, BufLenPositive DEF Least, CircBuf, Index
<1>2. (c.next_out + len) % BufLen \in Index
  BY <1>1, BufLenPositive DEF CircBuf, Index
<1>3. \A i \in 1..len : c.data[c.next_out + i - 1] \in Byte
  <2> HIDE DEF len
  <2>1. c.data \in [Index -> Byte] /\ c.next_out \in Nat
    BY BufLenPositive DEF CircBuf, Index
  <2>2. \A i \in 1..len : c.next_out + i - 1 \in Index
    BY <1>1, <2>1, BufLenPositive DEF Index
  <2> QED
    BY <2>1, <2>2
<1>4. [i \in 1..len |-> c.data[c.next_out + i - 1]] \in Seq(Byte)
  BY <1>1, <1>3
<1> QED
  BY <1>2, <1>4 DEF circ_buf_read, CircBuf

-----------------------------------------------------------------------------
(* Indices wrap around at most once.                                       *)
LEMMA Wrap ==
  ASSUME NEW x \in Nat, x < BufLen
  PROVE  /\ x % BufLen = x
         /\ (x + BufLen) % BufLen = x
         /\ (x - BufLen) % BufLen = x
<1>1. x \in 0..(BufLen - 1)
  BY BufLenPositive
<1>2. \A L \in Nat \ {0} : \A y \in 0..(L - 1) : y % L = y
  OBVIOUS
<1>3. \A L \in Nat \ {0} : \A y \in 0..(L - 1) : (y + L) % L = y
  OBVIOUS
<1>4. \A L \in Nat \ {0} : \A y \in 0..(L - 1) : (y - L) % L = y
  OBVIOUS
<1> QED
  BY <1>1, <1>2, <1>3, <1>4, BufLenPositive

LEMMA Indices ==
  ASSUME NEW c \in CircBuf
  PROVE  /\ c.next_in \in Nat /\ c.next_in < BufLen
         /\ c.next_out \in Nat /\ c.next_out < BufLen
         /\ c.data \in [Index -> Byte]
BY BufLenPositive DEF CircBuf, Index

LEMMA UsedIs ==
  ASSUME NEW c \in CircBuf
  PROVE  circ_buf_used(c) = IF c.next_in >= c.next_out THEN c.next_in - c.next_out
                            ELSE c.next_in - c.next_out + BufLen
<1>1. PICK in \in Nat, out \in Nat, L \in Nat \ {0} :
        in = c.next_in /\ out = c.next_out /\ L = BufLen /\ in < L /\ out < L
  BY Indices, BufLenPositive
<1>2. CASE in >= out
  <2>1. in - out \in Nat /\ in - out < L
    BY <1>1, <1>2
  <2> QED
    BY <1>1, <1>2, <2>1, Wrap DEF circ_buf_used
<1>3. CASE ~(in >= out)
  <2>1. PICK x \in Nat : x = in - out + L /\ x < L /\ x - L = in - out
    BY <1>1, <1>3
  <2>2. (x - L) % L = x
    BY <1>1, <2>1, Wrap
  <2> QED
    BY <1>1, <1>3, <2>1, <2>2 DEF circ_buf_used
<1> QED
  BY <1>2, <1>3

(* Where the k-th byte of the content is.                                  *)
Pos(c, k) == IF c.next_out + k - 1 < BufLen THEN c.next_out + k - 1
             ELSE c.next_out + k - 1 - BufLen

LEMMA ContentIs ==
  ASSUME NEW c \in CircBuf
  PROVE  /\ Content(c) \in Seq(Byte)
         /\ Len(Content(c)) = circ_buf_used(c)
         /\ \A k \in 1..circ_buf_used(c) :
              /\ Pos(c, k) \in Index
              /\ Content(c)[k] = c.data[Pos(c, k)]
<1>1. PICK out \in Nat, L \in Nat \ {0} : out = c.next_out /\ L = BufLen /\ out < L
  BY Indices, BufLenPositive
<1>2. PICK u \in Nat : u = circ_buf_used(c) /\ u < L
  BY <1>1, UsedType
<1>3. ASSUME NEW k \in 1..u
      PROVE  /\ Pos(c, k) \in Index
             /\ (c.next_out + k - 1) % BufLen = Pos(c, k)
  <2>1. CASE out + k - 1 < L
    <3>1. out + k - 1 \in Nat
      BY <1>1
    <3>2. Pos(c, k) = out + k - 1
      BY <1>1, <2>1 DEF Pos
    <3> QED
      BY <1>1, <2>1, <3>1, <3>2, Wrap DEF Index
  <2>2. CASE ~(out + k - 1 < L)
    <3>1. PICK x \in Nat : x = out + k - 1 - L /\ x < L /\ x + L = out + k - 1
      BY <1>1, <1>2, <2>2
    <3>2. Pos(c, k) = x
      BY <1>1, <2>2, <3>1 DEF Pos
    <3> QED
      BY <1>1, <3>1, <3>2, Wrap DEF Index
  <2> QED
    BY <2>1, <2>2
<1>4. \A k \in 1..u : c.data[(c.next_out + k - 1) % BufLen] \in Byte
  BY <1>3, Indices
<1> QED
  BY <1>2, <1>3, <1>4 DEF Content

-----------------------------------------------------------------------------
(* A read takes its bytes off the front of the content.                    *)
LEMMA ReadContent ==
  ASSUME NEW c \in CircBuf, NEW max \in Nat
  PROVE  LET r == circ_buf_read(c, max)
         IN  /\ Content(c) = r.s \o Content(r.cb)
             /\ Len(r.s) = Least(Least(max, circ_buf_used(c)), BufLen - c.next_out)
             /\ r.cb.next_out = IF c.next_out + Len(r.s) < BufLen
                                  THEN c.next_out + Len(r.s) ELSE 0
             /\ circ_buf_used(r.cb) = circ_buf_used(c) - Len(r.s)
<1> DEFINE r == circ_buf_read(c, max)
<1>1. PICK in \in Nat, out \in Nat, L \in Nat \ {0} :
        in = c.next_in /\ out = c.next_out /\ L = BufLen /\ in < L /\ out < L
  BY Indices, BufLenPositive
<1>2. PICK u \in Nat : /\ u = circ_buf_used(c) /\ u < L
                       /\ u = IF in >= out THEN in - out ELSE in - out + L
  BY <1>1, UsedType, UsedIs
<1>3. PICK n \in Nat : /\ n = Least(Least(max, circ_buf_used(c)), BufLen - c.next_out)
                       /\ n <= u /\ out + n <= L
  BY <1>1, <1>2 DEF Least
<1>4. /\ r.s = [k \in 1..n |-> c.data[out + k - 1]]
      /\ r.cb = [c EXCEPT !.next_out = (out + n) % L]
  BY <1>1, <1>3 DEF circ_buf_read
<1>5. r.s \in Seq(Byte) /\ r.cb \in CircBuf
  BY ReadType
<1>6. Len(r.s) = n /\ \A k \in 1..n : r.s[k] = c.data[out + k - 1]
  BY <1>4
<1>7. r.cb.data = c.data /\ r.cb.next_in = in /\ r.cb.next_out = (out + n) % L
  BY <1>1, <1>4 DEF CircBuf
<1> HIDE DEF r
<1>8. PICK o2 \in Nat : o2 = r.cb.next_out /\ o2 = IF out + n < L THEN out + n ELSE 0
  <2>1. CASE out + n < L
    BY <1>1, <1>7, <2>1, Wrap
  <2>2. CASE ~(out + n < L)
    <3>1. out + n = L /\ 0 + L = L
      BY <1>3, <2>2
    <3>2. (0 + L) % L = 0
      BY <1>1, Wrap
    <3> QED
      BY <1>7, <2>2, <3>1, <3>2
  <2> QED
    BY <2>1, <2>2
<1>9. circ_buf_used(r.cb) = u - n
  <2>1. circ_buf_used(r.cb) = IF in >= o2 THEN in - o2 ELSE in - o2 + L
    BY <1>1, <1>5, <1>7, <1>8, UsedIs
  <2>2. (IF in >= o2 THEN in - o2 ELSE in - o2 + L) = u - n
    BY <1>1, <1>2, <1>3, <1>8
  <2> QED
    BY <2>1, <2>2
<1>10. /\ Content(c) \in Seq(Byte) /\ Len(Content(c)) = u
       /\ \A k \in 1..u : Content(c)[k] = c.data[Pos(c, k)]
  BY <1>2, ContentIs
<1>11. /\ Content(r.cb) \in Seq(Byte) /\ Len(Content(r.cb)) = u - n
       /\ \A k \in 1..(u - n) : Content(r.cb)[k] = c.data[Pos(r.cb, k)]
  BY <1>5, <1>7, <1>9, ContentIs
<1> DEFINE cat == r.s \o Content(r.cb)
<1>12. /\ cat \in Seq(Byte)
       /\ Len(cat) = n + (u - n)
       /\ \A k \in 1..(n + (u - n)) :
            cat[k] = IF k <= n THEN r.s[k] ELSE Content(r.cb)[k - n]
  <2>1. /\ cat \in Seq(Byte)
        /\ Len(cat) = Len(r.s) + Len(Content(r.cb))
        /\ \A k \in 1..(Len(r.s) + Len(Content(r.cb))) :
             cat[k] = IF k <= Len(r.s) THEN r.s[k] ELSE Content(r.cb)[k - Len(r.s)]
    BY <1>5, <1>11, ConcatProperties
  <2> QED
    BY <1>6, <1>11, <2>1
<1>13. n + (u - n) = u
  OBVIOUS
<1> HIDE DEF cat
<1>14. ASSUME NEW k \in 1..u PROVE Content(c)[k] = cat[k]
  <2>1. CASE k <= n
    <3>1. k \in 1..n /\ out + k - 1 < L
      BY <1>3, <2>1
    <3>2. Pos(c, k) = out + k - 1
      BY <1>1, <3>1 DEF Pos
    <3>3. Content(c)[k] = c.data[out + k - 1]
      BY <1>10, <3>2
    <3>4. cat[k] = r.s[k]
      BY <1>12, <1>13, <2>1
    <3> QED
      BY <1>6, <3>1, <3>3, <3>4
  <2>2. CASE ~(k <= n)
    <3>1. k - n \in 1..(u - n)
      BY <1>3, <2>2
    <3>2. Pos(r.cb, k - n) = IF o2 + (k - n) - 1 < L THEN o2 + (k - n) - 1
                             ELSE o2 + (k - n) - 1 - L
      BY <1>1, <1>8 DEF Pos
    <3>3. Pos(c, k) = IF out + k - 1 < L THEN out + k - 1 ELSE out + k - 1 - L
      BY <1>1 DEF Pos
    <3>4. Pos(c, k) = Pos(r.cb, k - n)
      BY <1>1, <1>2, <1>3, <1>8, <2>2, <3>2, <3>3
    <3> QED
      BY <1>10, <1>11, <1>12, <1>13, <2>2, <3>1, <3>4
  <2> QED
    BY <2>1, <2>2
<1>15. Content(c) = cat
  BY <1>10, <1>12, <1>13, <1>14, SeqEqual
<1> QED
  BY <1>1, <1>2, <1>3, <1>6, <1>8, <1>9, <1>15 DEF cat, r

(* The arithmetic of a write: i and o are the indices, u what is used, n   *)
(* what is written.                                                        *)
LEMMA WriteFits ==
  ASSUME NEW L \in Nat, NEW i \in Nat, NEW u \in Nat, NEW sl \in Nat, i < L, u < L
  PROVE  LET sp == Least(L - 1 - u, L - i)
             n  == Least(sl, sp)
         IN  /\ n \in Nat /\ n <= sl /\ u + n < L /\ i + n <= L
             /\ n = 0 => sl = 0 \/ u = L - 1
BY DEF Least

LEMMA WriteUses ==
  ASSUME NEW L \in Nat, NEW i \in Nat, NEW o \in Nat, NEW u \in Nat, NEW n \in Nat,
         i < L, o < L, u = IF i >= o THEN i - o ELSE i - o + L,
         u + n < L, i + n <= L
  PROVE  LET i2 == IF i + n < L THEN i + n ELSE 0
         IN  (IF i2 >= o THEN i2 - o ELSE i2 - o + L) = u + n
OBVIOUS

LEMMA WritePlaces ==
  ASSUME NEW L \in Nat, NEW i \in Nat, NEW o \in Nat, NEW u \in Nat, NEW n \in Nat,
         i < L, o < L, u = IF i >= o THEN i - o ELSE i - o + L,
         u + n < L, i + n <= L, NEW k \in 1..(u + n)
  PROVE  LET pos == IF o + k - 1 < L THEN o + k - 1 ELSE o + k - 1 - L
         IN  IF k <= u THEN pos \notin i..(i + n - 1)
             ELSE /\ pos \in i..(i + n - 1)
                  /\ pos - i + 1 = k - u
                  /\ k - u \in 1..n
OBVIOUS

LEMMA NextIndex ==
  ASSUME NEW x \in Nat, x <= BufLen
  PROVE  x % BufLen = IF x < BufLen THEN x ELSE 0
<1>1. CASE x < BufLen
  BY <1>1, Wrap
<1>2. CASE ~(x < BufLen)
  <2>1. x = 0 + BufLen
    BY <1>2, BufLenPositive
  <2> QED
    BY <1>2, <2>1, Wrap, BufLenPositive
<1> QED
  BY <1>1, <1>2

(* A write adds the first bytes of what it was given at the end, and takes *)
(* none only if the buffer is full.                                        *)
LEMMA WriteContent ==
  ASSUME NEW c \in CircBuf, NEW s \in Seq(Byte)
  PROVE  LET w == circ_buf_write(c, s)
         IN  /\ Content(w.cb) = Content(c) \o SubSeq(s, 1, w.n)
             /\ w.n \in 0..Len(s)
             /\ circ_buf_used(w.cb) = circ_buf_used(c) + w.n
             /\ w.n = 0 => s = <<>> \/ circ_buf_used(c) = BufLen - 1
<1> DEFINE w == circ_buf_write(c, s)
<1>1. PICK in \in Nat, out \in Nat, L \in Nat \ {0} :
        in = c.next_in /\ out = c.next_out /\ L = BufLen /\ in < L /\ out < L
  BY Indices, BufLenPositive
<1>2. PICK u \in Nat : /\ u = circ_buf_used(c) /\ u < L
                       /\ u = IF in >= out THEN in - out ELSE in - out + L
  BY <1>1, UsedType, UsedIs
<1>3. /\ in < L /\ out < L /\ u < L
      /\ u = IF in >= out THEN in - out ELSE in - out + L
  BY <1>1, <1>2
<1>4. PICK sl \in Nat : sl = Len(s)
  OBVIOUS
<1>5. circ_buf_space(c) = Least(L - 1 - u, L - in)
  BY <1>1, <1>2 DEF circ_buf_space
<1>6. PICK n \in Nat : n = Least(sl, Least(L - 1 - u, L - in))
  BY <1>3, WriteFits
<1>7. /\ n <= sl /\ u + n < L /\ in + n <= L
      /\ n = 0 => sl = 0 \/ u = L - 1
  BY <1>3, <1>6, WriteFits
<1>8. /\ w.n = n
      /\ w.cb = [c EXCEPT
           !.data = [i \in Index |-> IF i \in in..(in + n - 1)
                                     THEN s[i - in + 1] ELSE c.data[i]],
           !.next_in = (in + n) % L]
  BY <1>1, <1>4, <1>5, <1>6 DEF circ_buf_write
<1>9. w.cb \in CircBuf
  BY WriteType
<1>10. /\ w.cb.next_out = out /\ w.cb.next_in = (in + n) % L
      /\ \A i \in Index : w.cb.data[i] = IF i \in in..(in + n - 1)
                                          THEN s[i - in + 1] ELSE c.data[i]
  BY <1>1, <1>8 DEF CircBuf
<1> HIDE DEF w
<1>11. PICK i2 \in Nat : i2 = w.cb.next_in /\ i2 = IF in + n < L THEN in + n ELSE 0
  <2>1. PICK x \in Nat : x = in + n /\ x <= L
    BY <1>7
  <2>2. L = BufLen
    BY <1>1
  <2>3. x % L = IF x < L THEN x ELSE 0
    BY <2>1, <2>2, NextIndex
  <2> QED
    BY <1>10, <2>1, <2>3
<1>12. circ_buf_used(w.cb) = u + n
  <2>1. circ_buf_used(w.cb) = IF i2 >= out THEN i2 - out ELSE i2 - out + L
    BY <1>1, <1>9, <1>10, <1>11, UsedIs
  <2>2. (IF i2 >= out THEN i2 - out ELSE i2 - out + L) = u + n
    BY <1>3, <1>7, <1>11, WriteUses
  <2> QED
    BY <2>1, <2>2
<1>13. /\ Content(c) \in Seq(Byte) /\ Len(Content(c)) = u
      /\ \A k \in 1..u : Pos(c, k) \in Index /\ Content(c)[k] = c.data[Pos(c, k)]
  BY <1>2, ContentIs
<1>14. /\ Content(w.cb) \in Seq(Byte) /\ Len(Content(w.cb)) = u + n
       /\ \A k \in 1..(u + n) :
            /\ Pos(w.cb, k) \in Index
            /\ Content(w.cb)[k] = w.cb.data[Pos(w.cb, k)]
  BY <1>9, <1>12, ContentIs
<1> DEFINE head == SubSeq(s, 1, n)
           cat  == Content(c) \o head
<1>15. head \in Seq(Byte) /\ Len(head) = n /\ \A k \in 1..n : head[k] = s[k]
  BY <1>4, <1>7
<1> HIDE DEF head
<1>16. /\ cat \in Seq(Byte)
       /\ Len(cat) = u + n
       /\ \A k \in 1..(u + n) : cat[k] = IF k <= u THEN Content(c)[k] ELSE head[k - u]
  <2>1. /\ cat \in Seq(Byte)
        /\ Len(cat) = Len(Content(c)) + Len(head)
        /\ \A k \in 1..(Len(Content(c)) + Len(head)) :
             cat[k] = IF k <= Len(Content(c)) THEN Content(c)[k] ELSE head[k - Len(Content(c))]
    BY <1>13, <1>15, ConcatProperties
  <2> QED
    BY <1>13, <1>15, <2>1
<1> HIDE DEF cat
<1>17. ASSUME NEW k \in 1..(u + n) PROVE Content(w.cb)[k] = cat[k]
  <2>1. /\ Pos(w.cb, k) = Pos(c, k)
        /\ Pos(c, k) = IF out + k - 1 < L THEN out + k - 1 ELSE out + k - 1 - L
    BY <1>1, <1>10 DEF Pos
  <2>2. CASE k <= u
    <3>1. k \in 1..u
      BY <2>2
    <3>2. Pos(c, k) \notin in..(in + n - 1)
      BY <1>3, <1>7, <2>1, <2>2, WritePlaces
    <3>3. w.cb.data[Pos(c, k)] = c.data[Pos(c, k)]
      BY <1>10, <1>14, <2>1, <3>2
    <3>4. Content(w.cb)[k] = c.data[Pos(c, k)]
      BY <1>14, <2>1, <3>3
    <3>5. Content(c)[k] = c.data[Pos(c, k)]
      BY <1>13, <3>1
    <3>6. cat[k] = Content(c)[k]
      BY <1>16, <2>2
    <3> QED
      BY <3>4, <3>5, <3>6
  <2>3. CASE ~(k <= u)
    <3>1. /\ Pos(c, k) \in in..(in + n - 1)
          /\ Pos(c, k) - in + 1 = k - u
          /\ k - u \in 1..n
      BY <1>3, <1>7, <2>1, <2>3, WritePlaces
    <3>2. k \in 1..(u + n) /\ Pos(c, k) \in Index
      BY <1>14, <2>1
    <3>3. w.cb.data[Pos(c, k)] = s[k - u]
      BY <1>10, <3>1, <3>2
    <3>4. Content(w.cb)[k] = s[k - u]
      BY <1>14, <2>1, <3>3
    <3>5. cat[k] = head[k - u]
      BY <1>16, <2>3
    <3> QED
      BY <1>15, <3>1, <3>4, <3>5
  <2> QED
    BY <2>2, <2>3
<1>18. Content(w.cb) = cat
  BY <1>14, <1>16, <1>17, SeqEqual
<1>19. Len(s) = 0 => s = <<>>
  OBVIOUS
<1>20. Content(w.cb) = Content(c) \o SubSeq(s, 1, w.n)
  BY <1>8, <1>18 DEF cat, head
<1>21. w.n \in 0..Len(s)
  <2>1. n \in 0..sl
    BY <1>7
  <2> QED
    BY <1>4, <1>8, <2>1
<1>22. w.n = 0 => s = <<>> \/ circ_buf_used(c) = BufLen - 1
  BY <1>1, <1>2, <1>4, <1>7, <1>8, <1>19
<1> QED
  BY <1>2, <1>8, <1>12, <1>20, <1>21, <1>22 DEF w

-----------------------------------------------------------------------------
(* The buffer of CircBufUser.                                              *)

(* A ring that was just created is empty.                                  *)
LEMMA InitEmpty == RingInit => Content(ring) = <<>>
<1> SUFFICES ASSUME RingInit PROVE Content(ring) = <<>>
  OBVIOUS
<1>1. ring \in CircBuf /\ ring.next_in = 0 /\ ring.next_out = 0
  BY DEF RingInit, circ_buf_init
<1>2. circ_buf_used(ring) = 0
  BY <1>1, UsedIs
<1>3. Content(ring) \in Seq(Byte) /\ Len(Content(ring)) = 0
  BY <1>1, <1>2, ContentIs
<1> QED
  BY <1>1, <1>3

(* A write is a write of the FIFO, or finds it full.                       *)
LEMMA WriteIsWrite ==
  ASSUME ring \in CircBuf, Write
  PROVE  ring' \in CircBuf /\ (Bounded!Write \/ Bounded!WriteNothing)
<1> DEFINE w(s) == circ_buf_write(ring, s)
<1>1. PICK n \in 1..MaxPortion : \E s \in [1..n -> Byte] :
        ring' = w(s).cb /\ offered' = s /\ taken' = w(s).n /\ got' = <<>>
  BY DEF Write
<1>2. PICK s \in [1..n -> Byte] :
        ring' = w(s).cb /\ offered' = s /\ taken' = w(s).n /\ got' = <<>>
  BY <1>1
<1>3. s \in Seq(Byte) /\ Len(s) = n /\ n > 0
  BY PortionAssumption
<1>4. PICK k \in Nat : k = taken' /\ k = w(s).n /\ k <= n
  BY <1>2, <1>3, WriteContent
<1>5. /\ Content(ring') = Content(ring) \o SubSeq(s, 1, k)
      /\ k = 0 => s = <<>> \/ circ_buf_used(ring) = BufLen - 1
      /\ circ_buf_used(ring') = circ_buf_used(ring) + k
      /\ ring' \in CircBuf
  BY <1>2, <1>3, <1>4, WriteContent, WriteType
<1> HIDE DEF w
<1>6. Len(Content(ring)) = circ_buf_used(ring)
  BY ContentIs
<1>7. CASE k = 0
  <2>1. circ_buf_used(ring) = BufLen - 1
    BY <1>3, <1>5, <1>7
  <2>2. SubSeq(s, 1, k) = <<>> /\ Content(ring) \in Seq(Byte)
    BY <1>3, <1>7, ContentIs
  <2>3. Content(ring') = Content(ring)
    BY <1>5, <2>2, ConcatEmptySeq
  <2> QED
    BY <1>2, <1>3, <1>4, <1>5, <1>6, <1>7, <2>1, <2>3 DEF Bounded!WriteNothing
<1>8. CASE k # 0
  <2>1. circ_buf_used(ring) + k <= BufLen - 1
    BY <1>5, UsedType, BufLenPositive
  <2>2. k \in 1..Len(s)
    BY <1>3, <1>4, <1>8
  <2> QED
    BY <1>2, <1>3, <1>4, <1>5, <1>6, <2>1, <2>2 DEF Bounded!Write
<1> QED
  BY <1>7, <1>8

(* A read is a read of the FIFO, or finds it empty.                        *)
LEMMA ReadIsRead ==
  ASSUME ring \in CircBuf, Read
  PROVE  ring' \in CircBuf /\ (Bounded!Read \/ Bounded!ReadNothing)
<1>1. PICK max \in 1..MaxPortion :
        /\ ring' = circ_buf_read(ring, max).cb /\ got' = circ_buf_read(ring, max).s
        /\ offered' = <<>> /\ taken' = 0
  BY DEF Read
<1>2. max \in Nat /\ max > 0
  BY PortionAssumption
<1>3. /\ got' \in Seq(Byte) /\ ring' \in CircBuf
      /\ Content(ring) = got' \o Content(ring')
      /\ Len(got') = Least(Least(max, circ_buf_used(ring)), BufLen - ring.next_out)
  BY <1>1, <1>2, ReadType, ReadContent
<1>4. /\ Content(ring') \in Seq(Byte) /\ Content(ring) \in Seq(Byte)
      /\ Len(Content(ring)) = circ_buf_used(ring)
  BY <1>3, ContentIs
<1>5. PICK u \in Nat, o \in Nat, L \in Nat :
        u = circ_buf_used(ring) /\ o = ring.next_out /\ L = BufLen /\ o < L
  BY UsedType, Indices, BufLenPositive
<1>6. PICK n \in Nat : n = Len(got') /\ n <= u /\ (n = 0 => u = 0)
  <2>1. PICK n \in Nat : n = Least(Least(max, u), L - o) /\ n <= u /\ (n = 0 => u = 0)
    BY <1>2, <1>5 DEF Least
  <2> QED
    BY <1>3, <1>5, <2>1
<1>7. CASE n = 0
  <2>1. got' = <<>> /\ Content(ring) = <<>>
    BY <1>3, <1>4, <1>5, <1>6, <1>7, EmptySeq
  <2>2. Content(ring') = Content(ring)
    BY <1>3, <1>4, <2>1, ConcatEmptySeq
  <2> QED
    BY <1>1, <1>3, <2>1, <2>2 DEF Bounded!ReadNothing
<1>8. CASE n # 0
  <2>1. n \in 1..Len(Content(ring))
    BY <1>4, <1>5, <1>6, <1>8
  <2>2. /\ got' = SubSeq(Content(ring), 1, n)
        /\ Content(ring') = SubSeq(Content(ring), n + 1, Len(Content(ring)))
    BY <1>3, <1>4, <1>6
  <2> QED
    BY <1>1, <1>3, <2>1, <2>2 DEF Bounded!Read
<1> QED
  BY <1>3, <1>7, <1>8

(* BufferIsFifo: whatever the length, a write adds to the content the      *)
(* first of the bytes it was given, as many as it says, and a read takes   *)
(* the oldest off: nothing is lost, changed, reordered or overwritten      *)
(* (circ_buf.c:39-78).                                                     *)
THEOREM RingIsFifo == RingSpec => BufferIsFifo
<1>1. RingInit => ring \in CircBuf /\ Bounded!Init
  BY InitEmpty DEF RingInit, Bounded!Init
<1>2. ring \in CircBuf /\ [RingNext]_ringVars => (ring \in CircBuf)' /\ [Bounded!Next]_(Bounded!vars)
  <2> SUFFICES ASSUME ring \in CircBuf, [RingNext]_ringVars
               PROVE  ring' \in CircBuf /\ [Bounded!Next]_(Bounded!vars)
    OBVIOUS
  <2>1. CASE Write
    BY <2>1, WriteIsWrite DEF Bounded!Next
  <2>2. CASE Read
    BY <2>2, ReadIsRead DEF Bounded!Next
  <2>3. CASE UNCHANGED ringVars
    BY <2>3 DEF ringVars, Bounded!vars
  <2> QED
    BY <2>1, <2>2, <2>3 DEF RingNext
<1> QED
  BY <1>1, <1>2, PTL DEF RingSpec, BufferIsFifo, Bounded!Spec

(* The arithmetic of two reads: o is next_out, u what is used.             *)
LEMMA TwoReadsTakeAll ==
  ASSUME NEW L \in Nat, NEW o \in Nat, NEW u \in Nat, o < L, u < L
  PROVE  LET n1 == Least(Least(L, u), L - o)
             o2 == IF o + n1 < L THEN o + n1 ELSE 0
             n2 == Least(Least(L, u - n1), L - o2)
         IN  n1 \in Nat /\ u - n1 \in Nat /\ u - n1 - n2 = 0
BY DEF Least

LEMMA RingTwoReads ==
  ASSUME ring \in CircBuf
  PROVE  TwoReadsDrain
<1> DEFINE r1 == circ_buf_read(ring, BufLen)
           r2 == circ_buf_read(r1.cb, BufLen)
<1>1. PICK L \in Nat, o \in Nat, u \in Nat :
        L = BufLen /\ o = ring.next_out /\ u = circ_buf_used(ring) /\ o < L /\ u < L
  BY UsedType, Indices, BufLenPositive
<1>2. L \in Nat /\ o < L /\ u < L
  BY <1>1
<1>3. PICK n1 \in Nat : n1 = Least(Least(L, u), L - o)
  BY <1>2, TwoReadsTakeAll
<1>4. PICK o2 : o2 = IF o + n1 < L THEN o + n1 ELSE 0
  OBVIOUS
<1>5. PICK n2 : n2 = Least(Least(L, u - n1), L - o2)
  OBVIOUS
<1>6. /\ r1.s \in Seq(Byte) /\ r1.cb \in CircBuf
      /\ Content(ring) = r1.s \o Content(r1.cb)
      /\ Len(r1.s) = n1 /\ r1.cb.next_out = o2 /\ circ_buf_used(r1.cb) = u - n1
  BY <1>1, <1>3, <1>4, ReadType, ReadContent
<1> HIDE DEF r1
<1>7. /\ r2.s \in Seq(Byte) /\ r2.cb \in CircBuf
      /\ Content(r1.cb) = r2.s \o Content(r2.cb)
      /\ Len(r2.s) = n2 /\ circ_buf_used(r2.cb) = u - n1 - n2
  <2>1. r1.cb \in CircBuf /\ BufLen \in Nat
    BY <1>6, BufLenPositive
  <2>2. r2.s \in Seq(Byte) /\ r2.cb \in CircBuf
    BY <2>1, ReadType
  <2>3. /\ Content(r1.cb) = r2.s \o Content(r2.cb)
        /\ Len(r2.s) = Least(Least(BufLen, circ_buf_used(r1.cb)), BufLen - r1.cb.next_out)
        /\ circ_buf_used(r2.cb) = circ_buf_used(r1.cb) - Len(r2.s)
    BY <2>1, ReadContent
  <2> HIDE DEF r2
  <2> QED
    BY <1>1, <1>5, <1>6, <2>2, <2>3
<1> HIDE DEF r2
<1>8. u - n1 - n2 = 0
  BY <1>2, <1>3, <1>4, <1>5, TwoReadsTakeAll
<1>9. Content(r2.cb) = <<>> /\ circ_buf_used(r2.cb) = 0
  BY <1>7, <1>8, ContentIs, EmptySeq
<1>10. Content(r1.cb) = r2.s
  BY <1>7, <1>9, ConcatEmptySeq
<1> QED
  BY <1>6, <1>9, <1>10 DEF TwoReadsDrain, r1, r2

(* TwoReadsDrain: sendcb empties the ring with its two reads, wherever the *)
(* content wraps around (stm32_usart_b.c:241-246).                         *)
THEOREM TwoReadsSuffice == RingSpec => []TwoReadsDrain
<1>1. RingInit => ring \in CircBuf
  BY DEF RingInit
<1>2. ring \in CircBuf /\ [RingNext]_ringVars => (ring \in CircBuf)'
  BY WriteIsWrite, ReadIsRead DEF RingNext, ringVars
<1>3. ring \in CircBuf => TwoReadsDrain
  BY RingTwoReads
<1> QED
  BY <1>1, <1>2, <1>3, PTL DEF RingSpec
=============================================================================
