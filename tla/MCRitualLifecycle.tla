------------------------- MODULE MCRitualLifecycle -------------------------
(* Small instances of RitualLifecycle for TLC. *)
EXTENDS RitualLifecycle, TLC

\* Two definitions an approval cannot tell apart by its fields, and a third
\* with one action more.
Notify(text) == [fields |-> "notification", text |-> text]
OpenPath     == [fields |-> "path", text |-> "none"]

TwoTexts    == {{Notify("a")}, {Notify("b"), OpenPath}}
SimilarDefs == {{Notify("a"), OpenPath}, {Notify("b"), OpenPath}}

Symmetry == Permutations(Clients)
=============================================================================
