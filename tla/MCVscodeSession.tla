--------------------------- MODULE MCVscodeSession ---------------------------
(* A small instance of VscodeSession for TLC. *)
EXTENDS VscodeSession, TLC
=============================================================================
