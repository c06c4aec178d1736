----------------------------- MODULE MCWorkers ------------------------------
(* A subscriber, two vendors through the first half of two months, three      *)
(* stories and four articles in batches, two feeds and two pages, and a       *)
(* Bluesky account, for TLC.                                                  *)
EXTENDS Workers

MCSubscriber == {"s1"}
MCCooldown   == [f \in {"daily", "weekly"} |-> IF f = "daily" THEN 1 ELSE 2]
MCSecond     == {"microsoft"}
MCQuarter    == {"oracle"}
MCMonths     == {1, 2}
MCDays       == 7..22
MCStory      == 1..3
MCStubborn   == {1}
MCItem       == 1..4

=============================================================================
