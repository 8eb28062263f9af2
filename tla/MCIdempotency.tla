--------------------------- MODULE MCIdempotency ---------------------------
(* Idempotency for TLC: request slots are interchangeable. *)
EXTENDS Idempotency, TLC

Slots == Permutations(Requests)
=============================================================================
