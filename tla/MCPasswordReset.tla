-------------------------- MODULE MCPasswordReset --------------------------
(* PasswordReset for TLC: request slots are interchangeable. *)
EXTENDS PasswordReset, TLC

Slots == Permutations(Requests)
=============================================================================
