# A TLA+ model of omnomfeeds

omnomfeeds polls security feeds, scores what they list, files
duplicate tellings of one story under one article, and serves the result as a
web reader. One binary runs in two modes: self-hosted (a single user, no
accounts) and hosted (accounts, a Pro plan sold through Stripe, alerts, digests).

The modules here model what of it keeps state that several actors share: the fetch
goroutines and the article store, the daily re-scoring, the billing webhook, sign-ins,
the periodic workers, the event stream, the account API, the caches and limits of the
web server, the configuration file, and the terminal reader. TLC checks them on small
instances; TLAPS proves the safety properties of the passing runs for every instance.

## The system

| component | source | state | operations |
|---|---|---|---|
| article store | `internal/storage/storage.go` | `articles` table (SQLite, foreign keys on) | `Upsert`, `findDuplicate`, `Exists`, `MarkRead`, `MarkAllRead`, `Purge`, `SetTags`, CVE, MITRE and reader queries |
| fetch loop | `internal/server/server.go` (`fetchGroup` and around), `main.go` | `status` map, last fetch time | a fast and a slow poller, `POST /api/refresh`, one goroutine per source |
| article deduplication | `internal/dedup/dedup.go` | none | `NormalizeURL`, `TitleSimilarity` |
| scoring and KEV | `internal/scoring/scoring.go`, `RescoreRecentForKEV` | the CISA KEV map | `UpdateKEV`, `Score`, daily re-scoring |
| sources | `internal/sources/*` | rate-limit and host lists | `Fetch` of RSS, Reddit, Mastodon, Bluesky, GitHub, MalwareBazaar |
| billing webhook | `internal/billing/*` | none of its own | checkout, portal, four Stripe event types |
| users and sessions | `internal/auth/*`, `internal/storage/auth.go` | `users`, `user_sessions`, `magic_link_tokens`, API tokens | Google and e-mail sign-in, logout, session lookup, entitlement columns |
| alerts | `internal/alerts/alerts.go`, `internal/storage/alerts.go` | `alert_fires`, last tick | every minute: match rules, send, record |
| semantic dedup | `internal/aidedup/worker.go` | last tick | groups articles with a language model, `MarkDuplicate` |
| digest mail, patch briefs, triage | `internal/digestmail`, `internal/patchtuesday`, `internal/aitriage` | marks in the database | periodic workers |
| CVE enrichment | `internal/cve/*` | read-through caches in SQLite | NVD, EPSS, OTX |
| rate limiter, event stream, caches | `internal/server/ratelimit.go`, `sse.go`, `cache_sweeper.go`, `cve_page.go`, `public_*.go` | maps under mutexes | allow, register, broadcast, sweep |
| account API, settings | `internal/server/me.go`, `storage.go` | settings blob, per-user marks | read-modify-write handlers |
| configuration | `internal/config/config.go` | one shared struct | handlers change and save it |
| analytics and admin | `internal/analytics`, `internal/server/admin.go` | append-only events | dashboards |
| terminal reader | `internal/tui/*` | screen state | key handling over the same store |
| web pages, static data | `web/`, `internal/mitre`, `internal/actors`, `internal/curated` | none | |

How they interact: everything meets in SQLite. The pollers start goroutines that
write `articles`; the semantic dedup worker writes `duplicate_of` of the same
rows; the purge deletes rows; readers, feeds, alerts and digests show only rows
with `duplicate_of IS NULL`. The fetch loop tells browsers of new articles
through the event stream. Stripe and the browser call the billing handlers, which
write three columns of `users`; every Pro feature reads `pro_until`.

What is hard: no operation that takes several statements is in a transaction
(except `ConsumeMagicLink`), goroutines overlap (both pollers fetch the fast
sources, `/api/refresh` adds a third), Stripe repeats and reorders its events,
external calls fail between two writes, and the workers keep what they did last
in memory only. PROJECT.json lists each place under "hazards".

What makes the components correct:

- article store and fetch loop: a stored article is shown or filed under one that
  is; what is shown is not hidden later; what a feed lists gets stored in the end;
- billing: nobody has Pro beyond what a subscription of theirs covers; a paying
  user has it; a cancelled one has not; every event is acknowledged in the end;
- sign-in: a link is used once, one address is one account, a session ends with
  its logout, expiry or account;
- alerts: every match is tried, and sent once unless the process stops before it is recorded;
- mails, briefs, triage lines: one per cooldown, per vendor and day, per story, and
  nobody is left out for ever;
- semantic dedup: like the article store, and no chain or cycle of duplicates;
- KEV: an article whose CVE is listed ends up marked, whenever it was stored;
- account API: an account's rows go with it, stay within their caps and are changed by
  nobody else; the settings survive a dismissal; a summary is of its window;
- enrichment and limits: no more calls than the limit in a window, and what was learnt
  is not unlearnt by a failure;
- caches: bounded, not served past their age, the freshest kept; configuration: what was
  answered is saved; reports: they agree with each other;
- event stream: no send on a closed channel, and an open page hears of new articles;
- terminal: what is on screen is true, a key does what the screen says, nothing loads
  for ever.

## The modules

| module | what it is |
|---|---|
| `Ingest` | the article table, the goroutines of `fetchGroup`, the reader's marks and the purge |
| `Corpus` | what the table promises its readers: an abstract specification |
| `IngestRefinement` | the table read as a corpus, `ImplementsCorpus` |
| `MCIngest` | feeds, titles, scores and dates for TLC |
| `IngestProofs` | theorems about `Ingest` and the refinement |
| `Billing` | Stripe's subscriptions and events, the webhook requests, the entitlement columns |
| `MCBilling` | names and symmetry for TLC |
| `BillingProofs` | theorems about `Billing` |
| `KevRescore` | the KEV catalogue in memory, the goroutines that score, the daily re-scoring |
| `MCKevRescore` | articles, their words and the CVEs they name |
| `KevProofs` | theorems about `KevRescore` |
| `Auth` | sign-in by link and with Google, accounts, sessions, logout, cleanup, deletion |
| `MCAuth` | names and symmetry for TLC |
| `AuthProofs` | theorems about `Auth` |
| `Alerts`, `MCAlerts` | alert rules, the worker, its record of what it sent |
| `AlertsProofs` | theorems about `Alerts` |
| `DigestMail`, `PatchBriefs`, `Triage`, `SemanticDedup`, `StreamHub`, `BlueskyPoll` | one periodic worker or poller each |
| `Workers`, `MCWorkers` | these six as one system |
| `WorkersProofs` | theorems about the six and `Workers` |
| `UserRows`, `Settings` | the account API: rows per account, and the settings with the summary of what is new |
| `RateLimiter`, `Enrichment` | the buckets of a route; the CVE modal and the explainer over them |
| `PageCaches`, `ConfigStore`, `EpssScores`, `Reports` | cached pages and their sweeper; the shared configuration and its file; the EPSS table; the aggregates over articles |
| `Dashboard` | what the endpoints make of the aggregates: feed, pre-KEV list, movers, modals, layers |
| `Server`, `MCServer` | these nine as one system |
| `ServerProofs` | theorems about `Server` |
| `Terminal`, `MCTerminal` | the terminal reader over the same store |
| `TerminalProofs` | theorems about `Terminal` |
| `Listing` | lists by two keys, as ORDER BY and `sort.Slice` make them, and totals; for `Reports`, `Dashboard` and `Terminal` |

The parts of `Workers`, and those of `Server`, share no state, so a behaviour of the
composition follows one of them and leaves the others in their initial state: what
interleaves are the actors within a part. (`Enrichment` extends `RateLimiter`: the
explainer goes through the limiter.) A definition named "Variant" in a module is a
deliberately wrong reading of the one after it; no specification uses it. The definitions
under "What the theorems … rest on" at the end of a module make up its inductive invariant.

### Ingest

`row` is the `articles` table from live ids to the columns that decide visibility:
the URL, the source, `duplicate_of` and the read flag. `task` are the goroutines, each
at one of four places: between two items, before either query of `findDuplicate`, or
before the INSERT. `now` is the clock.

| action | code |
|---|---|
| `FetchReturns` | `fetchGroup` starts a goroutine and `src.Fetch` returns its window; all goroutines of a poll start at once, and a poll may begin while the last one runs (`Overlap`) |
| `Skip`, `Admit` | the loop head: `Exists`, `Score`, `isSafeArticleURL`; `Exists` answers false when its query fails |
| `MatchUrl` | the first query of `findDuplicate`: primaries of other sources by normalised URL, best score first |
| `MatchTitle` | the second: the latest 200 primaries of 72 hours, by title similarity, latest first |
| `Insert`, `Update` | the upsert: a new row, or ON CONFLICT on the URL, which overwrites `duplicate_of` |
| `StoreFails` | the upsert fails, because of the foreign key or for any other reason; the loop goes on |
| `Finish` | the goroutine ends |
| `MarkRead`, `MarkAllRead` | the reader's marks on the row (self-hosted mode; the hosted one keeps marks per user, so its purge deletes nothing) |
| `Purge` | the daily DELETE, with ON DELETE SET NULL |

Abstractions. A URL stands for the item behind it: its title, score and date are
constants, related by `NormOf`, `Similar`, `Score` and `Published`; the properties
depend on which are equal or alike and never on their text. Times are integers; the
code compares strings SQLite made, which agrees when the host runs in UTC. A poll
lists any of its feed's URLs, in any order: windows move, items come and go.
Whether a statement fails is a choice, allowed by `Faults`. Ids are drawn from a
small set: AUTOINCREMENT never reuses an id, which here means that an id is not handed
out while a row or a goroutine refers to it. In the code too, an id that nothing
mentions is as good as new.

### Corpus and the refinement

`Corpus` knows a set of stored URLs and, for each, the shown URL that covers it. It
can add an article, shown or covered by one that is, and remove articles, whose
followers are then shown again. `IngestRefinement` maps the table to it: an article
with NULL `duplicate_of` covers itself, another is covered by the URL its
`duplicate_of` names. Queries, skipped items, failures and marks are stutters.

### Billing

`account` are the three columns of `users` the handlers write (`stripe_customer_id`,
`stripe_subscription_id`, `pro_until`). `handler` are the webhook requests in progress,
`stripe` and `pending` are Stripe's side: its subscriptions, and the events it has no
200 for. Stripe is external and modelled from what the handlers read of it: paying
sends `invoice` and `checkout`, a renewal `updated` and `invoice`, a declined renewal
`updated`, a cancellation `deleted`, with or without an `updated` before it.

| action | code |
|---|---|
| `OpenCheckout` | `handleCheckout` reads the customer on file and opens a session |
| `Deliver` | Stripe posts an event it has no 200 for, perhaps again, perhaps while another is served (`InOrder`: the oldest one only, and one at a time) |
| `LookupUser` | `onCheckoutCompleted` finds the account named in the session, or answers 500 |
| `LookupCustomer` | the other handlers find the account by customer, or answer 200 |
| `SetStripeCustomer`, `GetSubscription`, `SetProUntil` | link, read from Stripe, write the period end and 48 hours |
| `ClearProAccess` | the subscription ended |
| `CallFails` | a statement or the call to Stripe fails: 500, and what was written stays |
| `DeleteUser` | the operator deletes the account, by hand, as `web/privacy.html` describes; `Store.DeleteUser` is the same statement and nothing calls it |

Periods are numbered and the 48 hours are `Grace`. A read of the subscription and the
write that follows are steps of their own: another request, or Stripe, may act in
between. A 200 may be lost (`MayFail`), so an event may be applied twice.

### KevRescore

`cisa` is the catalogue as published, `kevMap` the scorer's copy. `row` is the
`articles` table again, here with the score, the kev: tags, whether the article is
shown and whether it is of the last 30 days. `task` are goroutines of `fetchGroup`,
`daily` the loop that `main` starts.

| action | code |
|---|---|
| `Check`, `ScoreItem` | `Exists` answered false; `Score`, and the larger of that and the source's own score; nothing at 0 points is kept |
| `StoreItem`, `StoreFails` | the upsert, which overwrites score and tags |
| `UpdateKEV` | the download at the start and once a day: a failure keeps the map, JSON without a catalogue empties it (the status code is not looked at) |
| `Query`, `Rescore`, `Rest` | `RescoreRecentForKEV`: one query, then `Score` and `UpdateScoreTags` for each row it returned, then the ticker |
| `CisaLists`, `GrowOld`, `Reappear` | CISA adds a CVE; 30 days pass; the primary of a duplicate is purged, so `duplicate_of` is NULL again |
| `Restart` | the process stops and starts |

Abstractions. An article names a set of CVEs and earns its other points from constants;
tags other than kev: are left out. Deletion of articles is left out (only read ones of
90 days go, long out of the 30), and so is the other direction of `shown`, which no
working code takes. `UpdateScoreTags` writes the union of
the tags the query returned and the new ones; the query returns no article with a kev:
tag, so of these tags exactly the new ones are written.

### Auth

`user`, `link` and `session` are the tables `users`, `magic_link_tokens` and
`user_sessions`; `req` are requests in progress, each between two statements; `mail`
is the verified address Google reports for an account of its own. An account is an
identity (`id_provider`, `id_external`) and an address. A session is the account it
leads to and, in `by`, the identity that was proved to get it, which the code does not
store: `OwnAccount` compares the two.

| action | code |
|---|---|
| `Ask`, `RecentMagicLinksForEmail`, `RecentMagicLinksForIP`, `CreateMagicLink`, `Send` | `handleMagicRequest`; a count that fails reads as zero, a mail that fails is logged |
| `Click`, `ReadLink`, `MarkUsed`, `MarkRefused` | the POST of `handleMagicVerify` and the transaction of `ConsumeMagicLink` |
| `Callback` | `handleGoogleCallback` after its checks of state, token and verified address |
| `SelectUser`, `TouchUser`, `InsertUser` | the statements of `UpsertUser`; the UPDATE's error is ignored, the INSERT's is not |
| `CreateSession` | the INSERT, which the foreign key may refuse |
| `Fails` | any statement fails and the request answers an error |
| `EndSession`, `Cleanup`, `MinutePasses`, `Expire` | logout, the daily cleanup, the rate window and the 15 minutes |
| `DeleteUser`, `ChangeAddress` | an account is deleted (sessions cascade); a Google account gets another address |

The transaction is deferred: its SELECT opens a snapshot, its UPDATE needs the writer's
lock, and SQLite in WAL mode refuses the upgrade (`SQLITE_BUSY_SNAPSHOT`) if anyone has
committed since. The model keeps this as `fresh`, which every other write clears; nothing
else in the code makes a link single-use. All clients share one IP here, so the limit per
client counts all links. The limits do not bound the number of links: two requests may
both count before either inserts. Sessions that differ only in their token are one
element. The GET of the confirm page touches nothing.

### Alerts

`rule` are the rules, `fires` the rows of `alert_fires`, `age` how long ago each article
was fetched, `last` the worker's memory of its last tick. Times are ages in ticks; an age
past every bound it is compared with stops at `Old`.

| action | code |
|---|---|
| `Tick` | `ListEnabledAlertRules`, `ArticlesForAlerts` since the last tick less the overlap, and the pairs that match (`ArticleMatchesRule`); a failing query leaves `last` where it was |
| `Skip`, `Send`, `RecordFire`, `TickEnds` | for each pair: recorded already, or its webhook (which may arrive though its answer is lost), then the row |
| `Start`, `Stop` | the process, whose memory of the last tick is lost |
| `CreateAlertRule`, `UpdateAlertRule`, `DeleteAlertRule` | the handlers of the account API |
| `StoreArticle`, `MarkDuplicate`, `CleanupOldAlertFires` | the others who write these tables |

`Columns` is what the query selects: 10 in the code, where `scanArticles` scans 12.
With 10 no row gets through (`alerts_deployed`), and everything else about the worker
would hold because it does nothing, so `alerts` is checked with 12.

### The workers

| module | state | what is followed |
|---|---|---|
| `DigestMail` | frequency and last mail per subscriber, what each received | `ListEmailDigestDue`, one digest, then mail and mark for each; preferences change meanwhile; restarts |
| `PatchBriefs` | `patch_briefs`, today | both calendars (second Tuesdays; the third Tuesday of Oracle's quarters), `GetPatchBrief`, whose errors count as nothing, the brief and its row, an hour's tick, the day's end |
| `Triage` | lines stored, stories the model refuses | the best 25 without a line at each tick, refusals, failing statements, restarts |
| `SemanticDedup` | `duplicate_of` of the articles in reach | the batch, the answer of the model (`ParseClusterResponse`), one UPDATE after the other, with new articles and purges between |
| `StreamHub` | clients, their channels, who holds the lock; the page's bell | `fetchGroup`'s events, `Broadcast`, `register`, `unregister` in its three steps, the page that fetches the list |
| `BlueskyPoll` | the token, `badUntil` | both sources, the session they share, the accounts that answer 400, what the service refuses |

### The server

| module | state | what is followed |
|---|---|---|
| `UserRows` | bookmarks, reads, handles, channels, tokens | the middleware's resolution of the user, then each handler's statements, while the account or the article may go |
| `Settings` | the settings blob with the dismissal in it, the cache of summaries | PUT of the blob, `PutWhatsNewDismiss` as read and write, the summary that takes its time, the sweep |
| `RateLimiter` | the calls a key has in its bucket | `allow` and `sweep` |
| `Enrichment` | `cve_details`, `cve_otx`, explanations; the queue for NVD's ticker | `handleCVE` and `handleCVEExplain` from their cache reads to their writes, with calls that fail and deadlines that pass |
| `PageCaches` | a page's version and expiry | look up under the lock, compute without it, store under it; the brief of the day on demand; the sweep and the cap |
| `ConfigStore` | the list of watched accounts in memory, the file | check, change, marshal, truncate, write; restarts at any point; handlers overlap, because no lock is taken |
| `EpssScores` | the table, the download | line by line in one transaction, the whole file or the start of it |
| `Reports` | a corpus of articles | `HottestCVEs`, `CVEConsensus`, `CVETimeline`, `PreKEVCandidates`, `MitreRawCounts` and `ArticlesForTechnique` as operators over the same articles |
| `Dashboard` | the same | the filters `handleArticles` sets and its badges, `handlePreKEV`, `TagMomentum`, the sub-techniques of `handleMitreTechniqueArticles`, both layers for the navigator |

### Terminal

`present`, `read` and `marks` are the store; `list`, `sel` and `off` the rows on screen,
the selection and the scrolling; `mode` the modal that has the keys; `cve` and `brief` what
the popover and the brief show; `cveAsked` and `briefAsked` count the commands that have not answered. Every key of every
mode that changes state is an action (`NormalKeys`, `ModalKeys`); `AnswerCVE` and
`AnswerBrief` bring an answer at any time later; `DaemonStores`, `DaemonPurges`,
`DaemonReads` and `DaemonToggles` change the store meanwhile. `toggling` is the place
between the two statements of `ToggleBookmark`. A behaviour has the keys of one habit of
a reader (`Habits`), which keeps the keys that do not meet apart.

## The runs

| run | shows | instance |
|---|---|---|
| `ingest_disjoint` | duplicates point at shown, similar articles of another feed, shown articles stay shown, the table implements `Corpus` | 2 feeds with 2 URLs each, 2 goroutines, 5 ids, one clock tick |
| `ingest_faults` | no dangling `duplicate_of`; every worthy listed item is stored again and again | overlapping polls, failing statements and purges |
| `ingest_shared` | violation: an article hidden behind itself | two Mastodon feeds that relay one post |
| `billing_any_order` | nobody is Pro beyond a period of their own; a customer is one account's | 2 users, 2 subscriptions, 2 requests at a time, events in any order, repeated |
| `billing_in_order` | with events in order: who pays is Pro, who cancelled is not, a paid checkout is honoured | 1 user, 1 subscription, 3 periods, failures, lost answers, declined renewals, deleted account |
| `kev_rescore` | an article below 100 points that names a listed CVE is marked in the end; tags are true; nothing falls that one goroutine stored | 2 articles, one of them handled by both goroutines, 2 CVEs, failures, restarts |
| `auth_sign_in` | a link signs in once; one account for each identity and address; sessions lead to the account of the identity proved | 2 addresses, 1 Google account, 2 accounts, 2 links, 2 requests, failures, deletions, changes of address |
| `alerts` | no match is overlooked, none is sent twice once recorded, each is tried | 1 rule, 2 articles, 12 columns, LIMIT 2, an overlap of 2 ticks, failures, restarts |
| `alerts_deployed` | violation: no article reaches the rules | the same with 10 columns |
| `workers` | mails, briefs and lines once each; duplicates filed under something shown; pages told; nobody forgotten | 1 subscriber; 2 vendors from the 7th to the 22nd of two months; 3 stories, one refused, batches of 2; 4 articles; 2 feeds and 2 pages with buffers of 2; 1 watched account |
| `server` | accounts, settings, limits, enrichment, caches, configuration, scores and reports (see below) | 2 accounts and 2 requests; a clock of half days; 1 CVE and 3 requests; 3 pages in a cache of 2; 2 administrators; 3 articles of 4 shapes and 5 ages |
| `terminal` | what is on screen is true, keys do what it says, nothing loads for ever | 3 articles, 2 CVEs, 7 habits, screens of 5 and 6 lines |

A property that is a conjunction names its parts, each with a comment of its own where
it is defined:

- `ScreenIsTrue`: `IndexInRange`, `PopoverIsOfItsCVE`, `StatusBarIsTrue`;
  `KeysKeepTheirWord`: `StarAgrees`, `ModalsOnlyRead`, `MovedIsDrawn`;
- `OncePerPeriod`: `BriefsOnPatchDays`, `WrittenOnce`, `DigestsSpaced`, `PaidOnce`;
  `PagesAreTold`: `NoSendAfterClose`, `NothingUntold`; `NobodyIsForgotten`:
  `SubscribedIsMailed`, `EveryStoryTriaged`, `PublisherGetsThrough`, `WatchedIsPolled`;
- `AccountsSound`: `NothingLeftBehind`, `CapHolds`, `ChannelsInOrder`, `OwnRowsOnly`;
  `SettingsKept`: `SummaryOfItsWindow`, `DismissalKeepsSettings`, `QuietUnlessSaved`;
- `LimitsHold`: `WindowHolds`, `BandHolds`, `OnlyCrowdsStarve`; `LearntIsKept`:
  `DetailKept`, `PulsesKept`, `SettledIsFree`, `ScoresStay`;
- `PagesFresh`: `ServedFresh`, `SweepKeepsTheFreshest`; `WatchlistSaved`:
  `AnsweredIsWatched`, `AnsweredIsSaved`, `OnlyMeetingSavesSpoil`; `ReportsAgree`:
  `LeaderboardsAgree`, `TimelineAgrees`, `SparklineAgrees`, `PreviousIsWhole`,
  `SeverityFirst`, `FeedAgrees`, `PreKEVAgrees`, `MomentumCountsOnce`, `ModalsAgree`,
  `LayersAgree`.

Two parts of `ReportsAgree` have a premise. The baseline of the dashboard is 30 days for windows
up to a week, else twice the window in whole days, at most 180 days (server.go:1895-1900), so
`PreviousIsWhole` speaks of windows up to a week and of longer ones of whole days that the
endpoint takes (up to 2160 hours): for others the baseline ends within the previous window. In
`SparklineAgrees` a technique marked as fresh is found nowhere outside the sparkline if the baseline
covers 30 days. All windows the page offers (24, 72, 168, 720, 2160 hours) meet both.

Why the bounds are enough. Everything `Ingest` checks is about two rows, or a row and
the match a goroutine holds: two goroutines, and one more row for each to match, reach
every pair; five ids for four URLs leave one to be handed out again. In the instance
u1 and u3 share a normalised URL, u2 resembles the rest and is the oldest, so matches
by URL, by title and across a purge all occur. In `Billing` a wrong grant needs two
events of one account, or two accounts: two of each. One period is enough to tell
another's subscription from one's own; three, in the run that is about renewals, tell
late, repeated and declined ones apart.
In `KevRescore` an article and the loop, or an article and two goroutines, meet; the
second article names two CVEs, so one can be listed after the other was marked. In
`Auth` every property is about two rows, or a row and a request, and every race is one
of two requests, with a third party (cleanup, deletion) that is an action of its own; two
links let one be read while another is used.

In `Alerts` the unit is a pair of rule and article: a second article makes the sweep have
something left when it stops, and meets the LIMIT. The overlap of two ticks holds one tick
of gap and one of lag, with an age to spare on either side. In `workers` the rows of
subscribers, stories and watched accounts are independent but for the batch, so one
subscriber and one account do (two watched accounts pass as well), and three stories meet
a batch of two. The 7th and the 22nd are one day before and after the days the calendars can
choose. Two feeds and two pages are what it takes to have one announce while the other
leaves, and a buffer of two to overflow after a first event was heard. Four articles
allow two groups of a batch. In `server` races are of two requests, and of three
where a third would have to wait behind two (`Enrichment`) or where the cap must cut one of three
(`PageCaches`); the ages of `Reports` lie on both sides of each window's edge. Two outlets
in place of three are what the badges and two mentions what the movers of `Dashboard` take
here, so that three articles have some; a tag that falls by more than another rises would
take four.
In `terminal` a screen of five lines shows fewer rows than the list has, so it scrolls, and the
LIMIT of two rows cuts the list of three.

Deadlock is checked in `KevRescore`, `Auth`, `Alerts` and `Terminal`, and in the `Ingest` runs, where it says little, because the reader can
always mark; `ListedIsStored` is what shows that the goroutines get on. It is not checked
in `Billing`, where Stripe may have nothing left to report, nor in `Workers` and
`Server`, whose clocks and counters end at their bounds; `NobodyIsForgotten` shows that
the workers get on.

## Findings

The violation runs, each with the sentence of the repository it contradicts quoted in
PROJECT.json:

1. `ingest_shared`: `Exists` and `findDuplicate` run before the INSERT. If another feed
   inserts the same URL in between, the match is the row about to be overwritten, and
   ON CONFLICT makes it a duplicate of itself. No view shows it any more.
2. `alerts_deployed`: `ArticlesForAlerts` selects 10 columns and `scanArticles` scans 12
   and skips what it cannot scan, so no rule ever fires. `ArticlesForDedup` has the same
   query, so semantic deduplication does nothing either.

More behaviours are in the models, or were met while reading the code for them, and
have no run of their own.

Store and scoring. Two feeds of one poll both look before either has inserted, so
deduplication misses stories that break everywhere at once. An article that has 100
points from its words before its CVE is listed is not re-scored, so it gets no kev: tag; nor
is an article marked again that names a second CVE listed later.

Billing. An invoice of an unknown customer is answered 200 (billing.go:168) where the
comment says Stripe retries; the checkout event reads the subscription itself, so access is
delayed and not lost. The checkout of a deleted account is refused for ever
(billing.go:217). The deletion handler compares no subscription ids, so the end of an old
subscription ends a new one's access. An `updated` event of a declined renewal grants
the unpaid period, since Stripe moves the period end first (billing.go:327), and one
handled after the deletion gives access back until the period it carries ends, because the
handler uses its payload where the comment at billing.go:306 says the subscription is read
again.

Sign-in. The limit on links is checked before the INSERT (magic.go:52), so two requests
both pass. A link is used before the account and the session are made (magic.go:138): a failure
leaves a used link and no session. Whoever signed in with Google cannot sign in by a
link to the same address (magic.go:145): the identities differ, so `UpsertUser` inserts,
and UNIQUE (email) refuses it each time.

Alerts and workers. Rules are deduplicated each by itself, so one article reaches a
user once for each rule that matches, where the comment in storage.go near 309 says it
cannot. A sweep that takes longer than the overlap loses
articles (`MaxGap + MaxLag <= Overlap` is assumed); tags the daily re-scoring adds later
alert nobody; a failed send is tried again within the overlap only. `DeleteAlertRule`
leaves the rows of `alert_fires`, which have no foreign key, to the cleanup. Groups of one
answer of the model may overlap, and then a primary can become a duplicate; `EverythingFiled` assumes
that they do not (`Apart`). Who opts out while the digest is being written is still mailed.
If the model refuses a batch of stories, those behind wait (`Stubborn` is smaller than `Batch`).
A brief that is finished after midnight is filed under the day it was begun.

Account API. A PUT of the settings replaces the blob and the dismissal in it, so the summary that
index.html:4384 hides for 24 hours comes back (`QuietUnlessSaved` says: unless saved). For a
user who never dismissed, the key of the cache changes every second. The query `?id=-1` is
answered 400 and then handled on, because the error returned with it is nil (me.go:757). `Store.DeleteUser` has no caller in the repository.

Enrichment and limits. The ticker keeps one tick in its buffer, so a band of NVD's 30 s
may see one request more than the five of nvd.go:47 (`BandHolds` says so). A failing lookup that
overlaps a good one overwrites its row with an error (`DetailKept` excuses exactly that), where
nvd.go:2-3 promises that repeat lookups are free. Two callers who both find no explanation both
pay (server.go:2618 says only the first does); once it is there nobody does. Requests that
wait for the ticker do not look at their context, so a crowd's time runs out before its turn.

Caches, configuration, reports. The cap on CVE pages holds right after a sweep and not in between;
the two caches of the ATT&CK dashboard are not swept at all. A page of a lookup that was
cancelled is kept for 30 minutes like any other. A save truncates the
file before it writes, without a lock: two that meet, or a stop in between, leave a file that
does not parse. When a save fails the handle stays in memory, and the retry is answered
"already watched" without saving (server.go:1684). The baseline of the
ATT&CK dashboard is twice the window, where its comment (server.go near 1880) says three times, and for
windows of 169 to 359 hours it is shorter than the 30 days of a window of a week.

Terminal. "Mark all visible read" marks every article (storage.go:606). A brief that answers
late fills the modal of another window, since the answer names none, and the modal's title
always says 24 hours. The backspace of the IOC decoder does not detect again. The search behind
a technique looks in titles and summaries, not tags. The filter of the source
picker is lost with the next reload, although the status bar never named it. An error of a CVE lookup that came
first hides a detail that comes later.

## Liveness and fairness

`ListedIsStored` (`ingest_faults`) assumes that polls list every item infinitely often
(the tickers never stop, and the property is about items that stay listed; strong
fairness, because the model bounds the goroutines), that
a goroutine that can step is scheduled, and that an upsert tried again and again works
some time. It does not assume that queries succeed, that goroutines do not overlap or
that a purge stays away.

`CheckoutHonoured` (`billing_in_order`) assumes that Stripe sends what is not acknowledged again and
again (it does for three days, with growing pauses), that a request is served to its
end, and that no kind of call fails, and no answer gets lost, every time.

`ListedIsMarked` (`kev_rescore`) assumes that the ticker fires for ever, that
downloads return (`http.Get` has no timeout, so a server that never answers would stop the
loop; this is assumed, not given) and work again and again, that a query after a
successful download works again and again however often the process restarts, and that
the UPDATE of an article that is due does, too. It says "in reach": shown, recent and below
100 points, which is what the code's query and comparison can see.

`EveryMatchIsTried` (`alerts`) assumes that the ticker fires for ever, that a query works again
and again however often the process stops, and, for each pair, that stops do not always
come just before its turn (strong fairness of the pair). It does not assume that a webhook
is accepted.

`NobodyIsForgotten` (`workers`) assumes two things. `Progress`: tickers fire, time passes, a
goroutine that holds the hub's lock runs, a refused call returns (weak fairness). `Success`:
what can fail works some time if it is tried again and again: the query of a tick, a
session, a digest, a story's line, a mail, a statement (strong fairness). A behaviour follows one
part, so a disjunction over the parts says this of each. Not assumed: that the process
stays up, that a page reads its channel, that preferences stay, that a handle exists.
The last two are premises of the properties.

`LoadingEnds` (`terminal`) assumes that commands answer, because both carry a timeout, and
that a statement on the store ends, because SQLite's busy timeout ends it.

`Auth` and `Server` have no liveness property, so `Spec` there has no fairness.

## The proofs

The proof modules prove, for every set of feeds, URLs, goroutines, accounts, subscriptions,
articles, links, rules, pages, clients and requests, and every limit, window and bound:

| theorem | property | assumes |
|---|---|---|
| `IngestProofs!TypeCorrect` | `TypeOK` | |
| `IngestProofs!TableIntegrity` | `NoDanglingDuplicate`, one row per URL | |
| `IngestProofs!DuplicatesAreAlike` | `AlikeToPrimary` | |
| `IngestProofs!PrimaryAlwaysVisible` | `PrimaryIsVisible`, `CrossSource` | `OneHandlerPerUrl` |
| `IngestProofs!DuplicatesAreTrue` | `TrueDuplicate` | `OneHandlerPerUrl` |
| `IngestProofs!VisibilityIsStable` | `VisibilityStable` | `OneHandlerPerUrl` |
| `IngestProofs!TableImplementsCorpus` | `ImplementsCorpus` | `OneHandlerPerUrl` |
| `IngestProofs!EverythingCovered` | every article covered by a shown one | `OneHandlerPerUrl` |
| `BillingProofs!TypeCorrect` | `TypeOK` | |
| `BillingProofs!EntitlementIsBacked` | `NeverBeyondStripe` | |
| `BillingProofs!CustomerHasOneUser` | `OneUserPerCustomer` | |
| `BillingProofs!OrderedEventsAgree` | `AgreesWithStripe` | `InOrder`, always `OneSubEach` |
| `KevProofs!TypeCorrect` | `TypeOK` | |
| `KevProofs!TagsAreTrue` | `KevTagIsTrue` | |
| `KevProofs!MarksAreKept` | `OnlyRises` | |
| `AuthProofs!TypeCorrect` | `TypeOK`, every session has its account | |
| `AuthProofs!SessionsAreOwn` | `OwnAccount` | |
| `AuthProofs!AccountsAreOne` | `OneAccountEach` | |
| `AuthProofs!LinksAreUsedOnce` | `LinkUsedOnce` | |
| `AlertsProofs!TypeCorrect` | `TypeOK` | |
| `AlertsProofs!WebhooksAreNotRepeated` | `AtMostOnce` | |
| `AlertsProofs!NothingOverlooked` | `NoneMissed` | `Columns = 12`, always `WithinLimit` |
| `WorkersProofs!TypeCorrect` | `TypeOK` | |
| `WorkersProofs!OpenPagesAreTold` | `PagesAreTold` | |
| `WorkersProofs!HiddenIsFiled` | `EverythingFiled` | `Apart` |
| `WorkersProofs!WorkIsDoneOnce` | `OncePerPeriod` | |
| `ServerProofs!TypeCorrect` | `TypeOK` | |
| `ServerProofs!AccountsAreSound` | `AccountsSound` | |
| `ServerProofs!SettingsAreKept` | `SettingsKept` | |
| `ServerProofs!WatchlistIsSaved` | `WatchlistSaved` | |
| `ServerProofs!LimitsAreKept` | `LimitsHold` | |
| `ServerProofs!LearntStaysLearnt` | `LearntIsKept` | |
| `ServerProofs!PagesAreKeptFresh` | `PagesFresh` | |
| `ServerProofs!ReportsDoAgree` | `ReportsAgree` | |
| `TerminalProofs!TypeCorrect` | `TypeOK` | |
| `TerminalProofs!ScreenTellsTheTruth` | `ScreenIsTrue` | |
| `TerminalProofs!KeysDoAsTheySay` | `KeysKeepTheirWord` | |

Four hypotheses name what the deployed program does not guarantee.

- `OneHandlerPerUrl`: no URL is handled by two goroutines at a time (disjoint
  feeds, no overlapping polls of a source, `Exists` never fails). `ingest_shared` shows what
  happens without it. It is the exact line between the part of the store that is right under
  any interleaving (`TableIntegrity`, `DuplicatesAreAlike`) and the part that relies on polls
  being far apart.
- `InOrder` and `OneSubEach`: Stripe's events arrive in the order it sent them, and no
  customer has two subscriptions. The paragraph on billing under Findings says what happens without.
- `Columns = 12`: the alert query selects what `scanArticles` scans. It selects ten
  (`alerts_deployed`). `WithinLimit`: the query has no more rows than its LIMIT, without which
  the code drops the oldest.
- `Apart`: the groups in one answer of the language model do not overlap.

The assumptions on constants (`ASSUME` in the modules, evaluated by every run) say what the code
or its set-up fixes: sets that a value like `None` is not in; the calendars of the vendors
with one patch day and of those with four are different vendors (`PatchAssumption`); the list of
watched Bluesky accounts is not empty, as main.go:109 adds the curated ones at every poll
(`BlueskyAssumption`); rows of `alert_fires` are kept longer than an article can be found again
(`AlertsAssumption`, 14 days against hours); the watched accounts and the handles of an
account are finitely many; the deadline of a CVE's details is no longer than that of an explanation
(`Deadline <= Patience`, 15 s and 30 s); a report has some window, and the articles, CVEs, techniques
and ages it is about are finitely many (`ReportsAssumption`); the articles of the terminal are
finitely many, its sources are numbers in the order of their names, and the list of source types
starts with the one that means all (`TerminalAssumption`).

### The arguments

`Ingest`. `PrimaryIsVisible` is not inductive: an INSERT writes a match
found two steps earlier. `IInv` adds what holds of goroutines: one poll per source, a
goroutine only handles items of its own feed, what it is about to insert is not stored
(so ON CONFLICT never happens, `NoUpdate`), and the match it holds, if it still exists,
is shown and from another source (`MatchStillHolds`). The last survives the other
goroutines because they only add rows, and the purge because an id a goroutine holds is
not handed out again. `AlikeToPrimary` needs none of this: rows never change their URL, so it
is enough that a pending match is alike to its item (`MatchIsAlike`), ON CONFLICT included.

`Billing`. `NeverBeyondStripe` is not inductive either: a request
writes a period end it has read before. `BInv` adds that the sessions of a customer are
one user's (`OneOwner`), that an account is only linked to a customer of its own
(`LinkedToOwn`), and that events and requests know of no period their subscription has
not reached (`Reported`, `RequestsKnow`). Stripe's steps enter as one fact, `Progress`:
owner and customer stay, the period end never shrinks. For `AgreesWithStripe`, `OrderInv` says
that the last pending event of a subscription tells how the subscription is now
(`LastTellsHowItIs`), that an account is linked or its checkout event still pending
(`LinkedOrWaiting`), that a request writes what its event says (`RequestsFollow`), and so that
the account is right once nothing is pending (`RightOnceTold`). An event that is repeated
because its 200 was lost is the oldest one again, so nothing newer is overwritten.

`KevRescore`. What is written was computed earlier, so `KInv` says that
what is carried is true: the map is part of the catalogue (which only grows), and a scored
item's tags come with 100 points (`CarriedIsTrue`). For `OnlyRises` it adds that an
article outside `Shared` has one goroutine (`OneTaskEach`), which handles it only while
it is not stored (`HandledIsNew`), so nothing overwrites it, and that the loop knows its
present score (`KnownToLoop`).

`Auth`. `IInv` adds to the properties what a request carries (`Sound`):
the account it found or made has the identity that signs in, if it still exists, and the
link of a transaction whose snapshot is current is unused. The first survives other
requests because identities are never updated and ids never reused; the second because
every write makes the snapshots of the others stale.

`Alerts`. Both properties compare what was sent with ages. `EverySendAccounted` says of every
webhook that it is lost, being recorded or recorded, or that its article is too old for any
later query; `SweepInReach` bounds what a query in progress may hold. `DueInReach` says of a
pair that no tick has listed yet that the next query still reaches it, since the memory of the
last tick is written only when its queries have worked, and a restart looks back far enough.

Workers. `StreamInv`: clients come and go only while nobody holds the lock, so a channel that is
ranged over is open (`LockGuardsClients`), and a page that lacks an article has the event in
its channel, or its bell rung, or somebody still to announce it. `MailInv`: who is on the list of a tick was
due by every schedule since the last mail (`ListedIsDue`), because preferences change between
list and mail. `PatchInv`: the day under which a brief is stored is the day its tick began
(`DueWhenBegun`), and one more brief than there are is written only after a misreading
(`WritingIsNew`). `TriageInv`: what was paid for is stored or about to be. `DedupInv`: the
primary of a mark still to come is shown (`PrimariesAreShown`), which is where groups that
overlap break it.

Server. `ServerInv` is the conjunction of the parts' invariants; a step is a step of one part and
leaves the others alone (`StepsOfParts`). Of the parts:

- `RateLimiter`: a bucket is the end of the list of all grants, and what it has lost is expired
  (`BucketIsTheRest`), so that a count of the bucket is a count of the window. `Live` is the loop
  of `allow` (ratelimit.go), written as a recursive function over positions; what the proof needs
  of it is that it drops a prefix (`LiveIsARest`), by the least counterexample (`LeastOf`).
- `Enrichment`: from the n-th slot to the last there are as many ticks as slots (`SlotsAreApart`,
  one more when a tick is kept in the buffer), so within the time of n intervals at most n + 1 requests
  go out (`BandHolds`); a place in the queue is gained with every tick (`QueueMoves`),
  so who starves had a crowd before it (`OnlyCrowdsStarve`). `DetailIsKnown` and
  `SettledIsExplained` say what requests in flight may still write.
- `ConfigStore`: nine conjuncts, because handlers overlap: what is answered is in memory and in
  every list that a later write will use (`ListsAreCurrent`, `AloneIsDone`), unless saves met.
- `Reports`, `Dashboard`: the invariant only says that every stored article is well formed
  (`ReportsInv`); the rest is about the operators. A list in order is any that `SortBy` may choose.
  Every finite set has one: put each member at the number of those not after it, with ties
  numbered by some bijection (`OrderExists`). So the theorems hold in whatever order equal items
  come out. A row that LIMIT keeps is no worse than one it drops (`TopSorted`). `Total` is a
  cardinality, so the counts of parts come to the count of the whole by a bijection
  (`TotalOfParts`) and not by induction.
- `Settings`, `UserRows`, `PageCaches`, `EpssScores`: what was read before a write is current or
  was overtaken (`ReadIsStored`), ids come in order (`ChannelsAreNumbered`), an entry expires a
  computation and a time to live after it was read (`ExpiresInTime`), a refresh holds nothing
  older than the table (`RowsAreNewer`).

`Terminal`. `ScreenIsTrue` is not inductive: a modal that closes hands what it has collected over
to the list, and a popover that opens while the corpus cannot be read keeps the articles it has.
`TerminalInv` adds that the text, the sources and the techniques of an open modal are what
the filters may become (`ModalsHold`), and that a closed popover is empty (`ClosedIsEmpty`).
Rows come onto the list by a reload only, with the filters of that moment (`ShowFacts`,
`ReloadFacts`), and an answer is taken only for the CVE that is open (`StepPopover`).

Only model-checked: `ListedIsStored`, `CheckoutHonoured`, `ListedIsMarked`, `EveryMatchIsTried`,
`NobodyIsForgotten` and `LoadingEnds`, since the provers installed do neither
liveness nor ENABLED. `VisibilityStable`, `AlikeToPrimary` by itself and `EverythingCovered` are proved and in no run: the
refinement implies the first, `TrueDuplicate` contains the second.

## Plan

To model next: `NormalizeURL` and `TitleSimilarity` as operators over small words, against
their definition (a Jaccard index), which would justify what `Ingest` takes as constants; in
`Billing` a customer with two subscriptions, of which the older ends first.

## Not modelled

- Feed parsing, HTML and RSS rendering, prompts and HTTP clients of language models, the static
  tables, the web pages' markup and the deployment files: they hold no state two
  actors share, and their correctness is a matter of text.
- Analytics and the administrator's dashboards: events are appended and summed up, and no
  decision depends on them.
- Of the storage layer `TTPFrequencyForBookmarks`, `TopMentionedCVEs`, `RecentKEVMentionCount`,
  `Stats` and the severity columns of the ATT&CK dashboard; of the server the tags
  that `handleArticles` adds from the profile of one's stack, the names of actors and the
  triage, `handleMePersonalize`, trusted proxies and static files.
- In `Terminal` layout, colours and screens too small for their frame; in `Enrichment` errors when an explanation is
  read, which the code treats like a miss; in `BlueskyPoll` restarts and refreshes by
  hand that overlap a poll; in `PageCaches` the contents of a page beyond its version; the
  OAuth state cookie, the customer portal and the signature of webhooks.
