---------------------------- MODULE MCProcessTable ----------------------------
(***************************************************************************)
(* A small instance of ProcessTable for TLC.                              *)
(***************************************************************************)
EXTENDS ProcessTable
=============================================================================
