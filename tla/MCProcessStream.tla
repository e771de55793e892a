--------------------------- MODULE MCProcessStream ---------------------------
(***************************************************************************)
(* A small instance of ProcessStream for TLC.                             *)
(***************************************************************************)
EXTENDS ProcessStream
=============================================================================
