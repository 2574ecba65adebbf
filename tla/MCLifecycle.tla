---------------------------- MODULE MCLifecycle ----------------------------
(* Model checking of Lifecycle: the goroutines of one kind are interchangeable. *)
EXTENDS Lifecycle, TLC

Symmetry == Permutations(Users) \cup Permutations(Flushers)
=============================================================================
