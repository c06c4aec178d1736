------------------------------- MODULE Workers ------------------------------
(***************************************************************************)
(* What main starts beside the alerts and the server: the periodic         *)
(* workers, the broadcasts of the polls, and the two Bluesky sources.      *)
(* None reads what another writes, so every behaviour follows one of them. *)
(***************************************************************************)
EXTENDS DigestMail, PatchBriefs, Triage, SemanticDedup, StreamHub, BlueskyPoll

VARIABLE running    \* the part this behaviour follows

vars == <<running, mailVars, patchVars, triageVars, dedupVars, streamVars, bskyVars>>

Init ==
  /\ running \in {"digestmail", "patchtuesday", "aitriage", "aidedup", "stream", "bluesky"}
  /\ MailInit /\ TriageInit /\ DedupInit /\ StreamInit
  /\ IF running = "patchtuesday" THEN PatchInit
     ELSE PatchInit /\ today = CHOOSE t \in Calendar : t.day - 1 \notin Days
  /\ IF running = "bluesky" THEN BlueskyInit ELSE BlueskyInit /\ renamed = {}

OfMail(A)    == running = "digestmail" /\ A
                /\ UNCHANGED <<running, patchVars, triageVars, dedupVars, streamVars, bskyVars>>
OfPatch(A)   == running = "patchtuesday" /\ A
                /\ UNCHANGED <<running, mailVars, triageVars, dedupVars, streamVars, bskyVars>>
OfTriage(A)  == running = "aitriage" /\ A
                /\ UNCHANGED <<running, mailVars, patchVars, dedupVars, streamVars, bskyVars>>
OfDedup(A)   == running = "aidedup" /\ A
                /\ UNCHANGED <<running, mailVars, patchVars, triageVars, streamVars, bskyVars>>
OfStream(A)  == running = "stream" /\ A
                /\ UNCHANGED <<running, mailVars, patchVars, triageVars, dedupVars, bskyVars>>
OfBluesky(A) == running = "bluesky" /\ A
                /\ UNCHANGED <<running, mailVars, patchVars, triageVars, dedupVars, streamVars>>

Next ==
  \/ OfMail(MailNext) \/ OfPatch(PatchNext) \/ OfTriage(TriageNext) \/ OfDedup(DedupNext)
  \/ OfStream(StreamNext) \/ OfBluesky(BlueskyNext)

\* The tickers and the poller go on, and a goroutine that holds the lock of the
\* hub runs.
Progress ==
  /\ WF_vars(OfMail(MailStart \/ MailTickEnds \/ MarkEmailDigestSent))
  /\ WF_vars(OfMail(MailTimePasses))
  /\ \A s \in Story : WF_vars(OfTriage(TriageRefused(s)))
  /\ WF_vars(OfStream(Announced \/ \E p \in Page : Deliver(p)))
  /\ WF_vars(OfBluesky(PollStarts)) /\ WF_vars(OfBluesky(SearchEnds \/ ReadToken))
  /\ WF_vars(OfBluesky(SearchStarts \/ AuthFails))
  /\ \A h \in Account : WF_vars(OfBluesky(Handled(h)))

\* What may fail works some time: the query of a tick and a session; the words of
\* a digest, of a story that can have a line, the posts of an account that exists;
\* a mail and the statement that stores a line.  Of the actions of a disjunction
\* one belongs to the part a behaviour follows, so that it says this of each.
Success ==
  /\ SF_vars(OfMail(MailTick) \/ OfTriage(TriageTick) \/ OfBluesky(AccountsStart))
  /\ \A s \in Story \ Stubborn, h \in Account :
       SF_vars(\/ OfMail(GenerateDigest /\ mailPc' = "sending")
               \/ OfTriage(TriageArticle(s)) \/ OfBluesky(FetchAccount(h)))
  /\ \A s \in Story \ Stubborn, u \in Subscriber :
       SF_vars(OfMail(SendMail(u)) \/ OfTriage(PutArticleTriage /\ s \in triage'))

Spec == Init /\ [][Next]_vars /\ Progress /\ Success

\* The type invariants of the parts.
TypeOK ==
  MailTypeOK /\ PatchTypeOK /\ TriageTypeOK /\ DedupTypeOK /\ StreamTypeOK /\ BlueskyTypeOK

\* Where Bluesky is polled, a handle that is somebody's again is polled again
\* and again: neither a day's skip nor a token that was refused, cleared too
\* early or blank lasts for ever.
WatchedIsPolled ==
  \A h \in Account : <>[](running = "bluesky" /\ h \notin renamed) => []<>(h \in posted)

\* What is sent, written or paid for is so once: a digest per cooldown, a brief per
\* vendor and patch day, a line per story.
OncePerPeriod == []BriefsOnPatchDays /\ []WrittenOnce /\ DigestsSpaced /\ PaidOnce

\* An open page is told of new articles, and no event is sent on a channel that is
\* closed: that would stop the process.
PagesAreTold == NoSendAfterClose /\ NothingUntold

\* Nobody waits for ever: a subscriber for a digest, a story for its line, a
\* goroutine of fetchGroup for the hub, a watched account for a poll.
NobodyIsForgotten ==
  SubscribedIsMailed /\ EveryStoryTriaged /\ PublisherGetsThrough /\ WatchedIsPolled

=============================================================================
