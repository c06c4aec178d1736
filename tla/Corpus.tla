------------------------------- MODULE Corpus -------------------------------
(***************************************************************************)
(* What the article store promises its readers, without goroutines, row    *)
(* ids or queries: a set of stored articles in which every article is      *)
(* covered by one that is shown, itself or another telling of the story.   *)
(***************************************************************************)
CONSTANT Url

VARIABLES
  stored,   \* the URLs in the store
  cover     \* for each, the shown article that stands for it

corpusVars == <<stored, cover>>

Shown == {u \in stored : cover[u] = u}

CorpusInit == stored = {} /\ cover = [u \in {} |-> u]

\* A new article is shown, or filed under one that is.
Add(u) ==
  /\ u \in Url \ stored
  /\ stored' = stored \cup {u}
  /\ \E v \in Shown \cup {u} :
       cover' = [w \in stored \cup {u} |-> IF w = u THEN v ELSE cover[w]]

\* Articles leave the store; what they covered is shown again.
Remove(gone) ==
  /\ gone \subseteq stored
  /\ stored' = stored \ gone
  /\ cover' = [w \in stored \ gone |-> IF cover[w] \in gone THEN w ELSE cover[w]]

CorpusNext ==
  \/ \E u \in Url : Add(u)
  \/ \E gone \in SUBSET stored : Remove(gone)

CorpusSpec == CorpusInit /\ [][CorpusNext]_corpusVars

\* The promise: whatever is stored is covered by something that is shown.
Covered == \A u \in stored : cover[u] \in Shown

=============================================================================
