----------------------------- MODULE MCBilling -----------------------------
(* Small instances of Billing for TLC.                                      *)
EXTENDS Billing, TLC

CONSTANTS alice, bob, x1, x2, h1, h2

Symmetric == Permutations(Handler) \cup Permutations(User) \cup Permutations(Sub)
=============================================================================
