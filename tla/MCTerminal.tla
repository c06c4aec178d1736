----------------------------- MODULE MCTerminal -----------------------------
(* A small corpus for TLC: three articles, the third a duplicate.           *)
EXTENDS Terminal

MCArticle == 1..3
MCScore   == <<40, 20, 60>>
MCKindOf  == <<"rss", "reddit", "rss">>
MCSource  == <<1, 2, 1>>
MCDup     == {3}
MCWords   == <<{7}, {1566}, {}>>
MCTech    == <<{1190}, {1190, 1566}, {1566}>>
MCCve     == <<"c1", "c2", "c1">>
MCKinds   == <<None, "rss", "reddit">>
MCTerm    == {7}
MCIoc     == {"cve", "hash", "word"}
MCMatches == [i \in MCIoc |-> CASE i = "cve" -> {"CVE"}
                                [] i = "hash" -> {"SHA-256"}
                                [] OTHER -> {}]
MCPatterns == <<"CVE", "SHA-256">>
MCDigits  == {0, 3, 5}
MCTouched == {2}
MCWindow  == {"24h", "4h"}
MCRecent  == [w \in MCWindow |-> IF w = "24h" THEN {1, 2, 3} ELSE {1}]

MCHabits ==
  { {"score", "kind", "search"}, {"unread", "read", "menus"}, {"mark", "menus"},
    {"mark", "unread", "move"}, {"cve", "move", "dupes"}, {"brief", "ioc"},
    {"read", "overlays"} }

=============================================================================
