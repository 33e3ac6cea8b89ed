------------------------------ MODULE MCUsart ------------------------------
(***************************************************************************)
(* A driver with two users.                                                *)
(***************************************************************************)
EXTENDS Usart, TLC

CONSTANTS a, b

Users == Permutations({a, b})

MCByte == 0..MaxRx
=============================================================================
