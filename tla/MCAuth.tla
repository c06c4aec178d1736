------------------------------- MODULE MCAuth -------------------------------
(* Small instances of Auth.                                                *)
EXTENDS Auth, TLC

CONSTANTS a1, a2, g1, u1, u2, l1, l2, h1, h2

MCAddress == {a1, a2}
MCGoogle  == {g1}
MCUser    == {u1, u2}
MCLink    == {l1, l2}
MCHandler == {h1, h2}

\* Ids, tokens and requests are interchangeable, and all properties are of safety.
Interchangeable ==
  Permutations(MCUser) \cup Permutations(MCLink) \cup Permutations(MCHandler)
    \cup Permutations(MCAddress)

=============================================================================
