------------------------- MODULE MCRedisIdempotency -------------------------
(* RedisIdempotency with three interchangeable requests on one key.        *)
EXTENDS RedisIdempotency, TLC

Symmetry == Permutations(Callers) \cup Permutations(Prints)
=============================================================================
