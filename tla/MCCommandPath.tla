---- MODULE MCCommandPath ----
(* Instances of CommandPath for TLC. *)
EXTENDS CommandPath, TLC

\* No value is special: the safety run takes them up to renaming.
Symmetry == Permutations(Values)
====
