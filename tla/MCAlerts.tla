------------------------------ MODULE MCAlerts ------------------------------
(* Two articles that name one CVE, by a tag and in the title, and a rule for *)
(* it, for TLC.                                                              *)
EXTENDS Alerts

MCRule    == {"r1"}
MCArticle == {"a1", "a2"}
MCKind    == [r \in MCRule |-> "cve"]
MCPattern == [r \in MCRule |-> "cve-1"]
MCTags    == [a \in MCArticle |-> IF a = "a1" THEN {"cve-1", "kev:cve-1"} ELSE {}]
MCTitle   == [a \in MCArticle |-> IF a = "a1" THEN {} ELSE {"cve-1"}]
MCBody    == [a \in MCArticle |-> {}]
MCKevTags == {"kev:cve-1"}

=============================================================================
