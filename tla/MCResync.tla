---- MODULE MCResync ----
(* Instances of Resync for TLC. *)
EXTENDS Resync, TLC

\* No raw value is special: the safety runs take them up to renaming.
Symmetry == Permutations(Values)
====
