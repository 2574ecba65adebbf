------------------------------ MODULE MCBoring ------------------------------
(* Boring for TLC: three goroutines, a request and a sub-span. *)
EXTENDS Boring, TLC

Symmetry == Permutations(Procs)
=============================================================================
