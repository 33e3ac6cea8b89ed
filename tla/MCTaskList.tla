----------------------------- MODULE MCTaskList -----------------------------
(***************************************************************************)
(* Up to four tasks of three priorities, the idle task's among them.       *)
(***************************************************************************)
EXTENDS BmosTaskList

MCPrios == 0..2
=============================================================================
