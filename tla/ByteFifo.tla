------------------------------ MODULE ByteFifo ------------------------------
(***************************************************************************)
(* What a circular buffer promises: bytes come out in the order they went  *)
(* in.  A write takes the first of the bytes offered, says how many, and   *)
(* takes none only if there is no room; a read returns the oldest bytes,   *)
(* and none only if there are none (or none was asked for).                *)
(***************************************************************************)
EXTENDS Integers, Sequences

CONSTANTS Byte, Capacity

VARIABLES
  content,  \* the bytes written and not yet read
  offered,  \* what the last call was given to write, nothing if it read
  taken,    \* how many of them it said it took
  got       \* what the last call returned, nothing if it wrote

vars == <<content, offered, taken, got>>

Init == content = <<>> /\ offered = <<>> /\ taken = 0 /\ got = <<>>

Write ==
  /\ offered' \in Seq(Byte)
  /\ taken' \in 1..Len(offered')
  /\ Len(content) + taken' <= Capacity
  /\ content' = content \o SubSeq(offered', 1, taken')
  /\ got' = <<>>

WriteNothing ==
  /\ Len(content) = Capacity
  /\ offered' \in Seq(Byte)
  /\ taken' = 0
  /\ content' = content
  /\ got' = <<>>

Read ==
  \E n \in 1..Len(content) :
    /\ got' = SubSeq(content, 1, n)
    /\ content' = SubSeq(content, n + 1, Len(content))
    /\ offered' = <<>> /\ taken' = 0

ReadNothing ==
  /\ content = <<>>
  /\ got' = <<>>
  /\ content' = content
  /\ offered' = <<>> /\ taken' = 0

Next == Write \/ WriteNothing \/ Read \/ ReadNothing

Spec == Init /\ [][Next]_vars
=============================================================================
