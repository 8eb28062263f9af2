---------------------------- MODULE MCRateLimit ----------------------------
(* RateLimit for TLC: a default pool of two tokens that refills one token in    *)
(* two ticks, and a stricter auth pool of one token, one per three ticks.      *)
EXTENDS RateLimit, TLC

MCCapacity == [p \in Pools |-> IF p = "auth" THEN 1 ELSE 2]
MCRefillTokens == [p \in Pools |-> 1]
MCRefillPeriod == [p \in Pools |-> IF p = "auth" THEN 3 ELSE 2]

Slots == Permutations(Requests)
=============================================================================
