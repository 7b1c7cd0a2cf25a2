-------------------------- MODULE MCVscodeExtension --------------------------
(* A small instance of VscodeExtension for TLC. *)
EXTENDS VscodeExtension, TLC

Permutable == Permutations(Flows)
=============================================================================
