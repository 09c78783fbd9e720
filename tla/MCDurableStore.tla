-------------------------- MODULE MCDurableStore --------------------------
(* Small instances of DurableStore. *)
EXTENDS DurableStore, TLC

Symmetry == Permutations(Attempts)
=============================================================================
