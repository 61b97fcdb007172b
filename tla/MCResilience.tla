----------------------------- MODULE MCResilience -----------------------------
(* Resilience with interchangeable calls. *)
EXTENDS Resilience, TLC

Symmetry == Permutations(Calls)
=============================================================================
