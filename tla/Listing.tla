------------------------------- MODULE Listing ------------------------------
(***************************************************************************)
(* Lists in order and their totals.  ORDER BY and sort.Slice put the       *)
(* largest first, by one number and then by another; items that agree in   *)
(* both may come in any order.                                             *)
(***************************************************************************)
EXTENDS Integers, FiniteSets

\* The members of S, by falling key and then by falling tie.
SortBy(S, key, tie) ==
  CHOOSE s \in [1..Cardinality(S) -> S] :
    \A i, j \in 1..Cardinality(S) : i < j =>
      /\ s[i] # s[j]
      /\ \/ key[s[i]] > key[s[j]]
         \/ key[s[i]] = key[s[j]] /\ tie[s[i]] >= tie[s[j]]

\* What the counts of a table come to together: as many as there are pairs of a
\* line and one of those that it counts.
Total(count) == Cardinality(UNION {{i} \X (1..count[i]) : i \in DOMAIN count})

=============================================================================
