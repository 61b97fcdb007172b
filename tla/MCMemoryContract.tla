--------------------------- MODULE MCMemoryContract ---------------------------
(* MemoryIdempotency with one scope of three keys, of which the store      *)
(* holds two, and two fingerprints.                                        *)
EXTENDS MemoryIdempotency, TLC

CONSTANT scopeA

MCScopeOf == [k \in Keys |-> scopeA]
Symmetry == Permutations(Callers) \cup Permutations(Prints) \cup Permutations(Keys)
=============================================================================
