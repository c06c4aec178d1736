---------------------------- MODULE MCKevRescore ----------------------------
(* Small instances of KevRescore for TLC.                                   *)
EXTENDS KevRescore, TLC

CONSTANTS u1, u2, c1, c2, t1, t2

\* One article with a score of its source's, one that names two CVEs.
Names   == (u1 :> {c1}) @@ (u2 :> {c1, c2})
Words   == (u1 :> 10) @@ (u2 :> 0)
Source  == (u1 :> 50) @@ (u2 :> 30)
=============================================================================
