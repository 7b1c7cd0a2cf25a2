------------------------- MODULE MCRitualExecution -------------------------
(* Small instances of RitualExecution for TLC. *)
EXTENDS RitualExecution, TLC
=============================================================================
