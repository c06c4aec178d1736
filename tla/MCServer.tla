------------------------------ MODULE MCServer ------------------------------
(* Two accounts and two requests in flight, a cap of two handles of three; a  *)
(* clock of half days; one CVE and three requests about it; pages for a cache *)
(* of two and two visitors; two administrators; three articles and four       *)
(* readers, for TLC.                                                          *)
EXTENDS Server

CONSTANTS u1, u2, t1, k1, c1, x1, x2, x3, y1, y2, z1, z2, mi

MCUser    == {u1, u2}
MCArticle == {z1, z2}
MCHandle  == {x1, x2, x3}
MCToken   == {t1}
MCCall    == {y1, y2}

MCKey     == {k1}
MCCVE     == {c1}
MCRequest == {x1, x2, x3}
MCCvePage == {x1, x2, x3}
MCAnswer  == {mi}
MCUnswept == {mi}
MCForced  == {mi}
MCVisitor == {y1, y2}
MCTTL     == [p \in {x1, x2, x3, mi} |-> IF p \in MCCvePage THEN 2 ELSE 1]
MCHandles == {z1, z2}
MCAdmin   == {y1, y2}
MCArt     == {x1, x2, x3}

MCShape ==
  {[outlet |-> "Fortinet PSIRT", cves |-> {"c1", "c3"}, ttps |-> {"T1059"}, score |-> 40, poc |-> FALSE, lag |-> 0],
   [outlet |-> "Bluesky:@op", cves |-> {"c1", "c2"}, ttps |-> {"T1059.001"}, score |-> 70, poc |-> TRUE, lag |-> 0],
   [outlet |-> "Bluesky:@op", cves |-> {"c2"}, ttps |-> {"T1059"}, score |-> 70, poc |-> FALSE, lag |-> 0],
   [outlet |-> "Fortinet PSIRT", cves |-> {"c1"}, ttps |-> {"T1059"}, score |-> 40, poc |-> FALSE, lag |-> 500],
   [outlet |-> "Bluesky:@one", cves |-> {"c1", "c2", "c3"}, ttps |-> {"T1059", "T1059.001"}, score |-> 40, poc |-> TRUE, lag |-> 0]}
MCAges    == {23, 24, 167, 168, 800}
MCWindows == {24, 168, 720}
MCSubOf   == {<<"T1059.001", "T1059">>}
MCReader  == [pro : BOOLEAN, follows : {{}, {"Bluesky:@one"}}]
MCAuthor  == {"Bluesky:@op", "Bluesky:@one"}
MCPercentile == [c \in {"c1", "c2", "c3"} |-> IF c = "c2" THEN 90 ELSE 50]

\* Handles, requests, pages, articles; requests to an account, visitors,
\* administrators: those of one kind are told apart by nothing else.  A behaviour
\* has only one part's, so the kinds of different parts share their values and the
\* group stays small.
Alike == Permutations({x1, x2, x3}) \cup Permutations({y1, y2})

=============================================================================
