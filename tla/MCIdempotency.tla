---------------------------- MODULE MCIdempotency ----------------------------
(* Idempotency for TLC: two duplicates of one request and a request of another
   key, whose results compete for the one place of the cache.                *)
EXTENDS Idempotency, TLC

CONSTANTS r1, r2, r3, k1, k2

MCKeyOf == (r1 :> k1) @@ (r2 :> k1) @@ (r3 :> k2)
=============================================================================
