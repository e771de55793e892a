----------------------------- MODULE MCMultiplex -----------------------------
(***************************************************************************)
(* A small instance of Multiplex for TLC.                                 *)
(***************************************************************************)
EXTENDS Multiplex
=============================================================================
