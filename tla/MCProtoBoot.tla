---------------------------- MODULE MCProtoBoot ----------------------------
(***************************************************************************)
(* An image of ten blocks, more than there are packet numbers, and one of  *)
(* two, and three transfers over a line that fails twice.                  *)
(***************************************************************************)
EXTENDS ProtoBoot

CONSTANTS a, b

Images == << [i \in 1..10 |-> <<a, i>>], [i \in 1..2 |-> <<b, i>>] >>
=============================================================================
