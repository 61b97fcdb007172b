--------------------------- MODULE MCMemoryCapacity ---------------------------
(* MemoryIdempotency with two scopes of two keys each, so that one key     *)
(* fills a scope and one scope's refusals can disturb the other's.         *)
EXTENDS MemoryIdempotency, TLC

CONSTANTS k1, k2, k3, k4, scopeA, scopeB

MCScopeOf == k1 :> scopeA @@ k2 :> scopeA @@ k3 :> scopeB @@ k4 :> scopeB

(* Only permutations that map MCScopeOf to itself. *)
SwapScopes == k1 :> k3 @@ k3 :> k1 @@ k2 :> k4 @@ k4 :> k2 @@ scopeA :> scopeB @@ scopeB :> scopeA
Symmetry == Permutations(Callers) \cup Permutations({k1, k2})
            \cup Permutations({k3, k4}) \cup {SwapScopes}
=============================================================================
