------------------------------ MODULE MCIngest ------------------------------
(* Small feeds for TLC.                                                     *)
EXTENDS IngestRefinement, TLC

CONSTANTS s1, s2, u1, u2, u3, u4, t1, t2, i1, i2, i3, i4, i5

\* Feeds that never list each other's URLs.
TwoFeeds  == (s1 :> {u1, u2}) @@ (s2 :> {u3, u4})
TinyFeeds == (s1 :> {u1, u4}) @@ (s2 :> {u2})

\* Two Mastodon instances that relay the same post u1.
SharedFeeds == (s1 :> {u1}) @@ (s2 :> {u1})

\* u1 and u3 normalise to the same URL, u2 has a title like those of u1, u3 and
\* u4, and is older than the others.
Norms  == [u \in Url |-> IF u = u3 THEN u1 ELSE u]
Alike(u, v) == u = v \/ (u2 \in {u, v} /\ {u, v} \subseteq {u1, u2, u3, u4})
Titles == {p \in Url \X Url : Alike(p[1], p[2])}
Scores == [u \in Url |-> CASE u = u1 -> 10 [] u = u2 -> 40 [] u = u3 -> 20 [] OTHER -> 5]
Neutral == [Scores EXCEPT ![u4] = 0]
Dates  == [u \in Url |-> IF u = u2 THEN 0 ELSE 1]
AllOld == [u \in Url |-> 0]

Symmetric == Permutations(Task) \cup Permutations(Id)
=============================================================================
