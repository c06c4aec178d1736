------------------------------ MODULE Settings ------------------------------
(***************************************************************************)
(* The settings blob of one account, the "while you were gone" summary     *)
(* whose dismissal is a key of that blob (internal/server/me.go,           *)
(* PutWhatsNewDismiss of internal/storage), and the browser, which pushes  *)
(* its settings (web/index.html).  Accounts share neither the row nor the  *)
(* keys of the cache.                                                      *)
(***************************************************************************)
EXTENDS Integers, FiniteSets, FiniteSetsExt

CONSTANTS
  Ask,             \* GET requests for the summary that may be in flight together
  Quiet,           \* whatsNewQuietWindow, 24 hours
  Lookback,        \* whatsNewMaxLookback, 14 days
  SummaryTTL,      \* whatsNewCacheTTL, 6 hours
  MaxSaves,        \* bound: settings saved in a browser
  LastClock        \* bound: the clock

ASSUME SettingsAssumption ==
  /\ Quiet \in Nat \ {0} /\ SummaryTTL \in Nat \ {0} /\ Lookback \in Nat
  /\ Quiet < Lookback /\ MaxSaves \in Nat /\ LastClock \in Nat

Undismissed == -100      \* the zero time

VARIABLES
  clock,
  blob,            \* the row of user_settings: what the user chose, and the dismissal
  pushes,          \* PUTs on their way
  saves,           \* bound: choices made so far, each a number of its own
  merging,         \* PutWhatsNewDismiss: the blob it has read, and its time
  asks,            \* what each GET has worked out so far
  whatsNewCache,   \* key to summary and expiry
  landed,          \* history: the choice in the last PUT to land
  overtaken,       \* history: a PUT landed inside a dismissal
  dismissal,       \* history: when the summary was last dismissed
  undone           \* history: a PUT landed after that

blobVars == <<blob, merging, landed, overtaken, dismissal, undone>>
pageVars == <<pushes, saves>>
askVars  == <<asks, whatsNewCache>>
setVars  == <<clock, blobVars, pageVars, askVars>>

AtRest == [pc |-> "idle"]

-----------------------------------------------------------------------------
\* pushMeSettings: the local write has succeeded, the PUT is sent and forgotten.
PushMeSettings ==
  /\ saves < MaxSaves /\ saves' = saves + 1
  /\ pushes' = pushes \cup {saves'}
  /\ UNCHANGED <<clock, blobVars, askVars>>

\* PUT /api/me/settings replaces the blob; the browser's has no dismissal in it.
PutSettings(c) ==
  /\ c \in pushes /\ pushes' = pushes \ {c}
  /\ blob' = [choice |-> c, dismissed |-> Undismissed]
  /\ landed' = c /\ overtaken' = (merging # AtRest) /\ undone' = TRUE
  /\ UNCHANGED <<clock, saves, merging, dismissal, askVars>>

PushLost(c) ==
  /\ c \in pushes /\ pushes' = pushes \ {c}
  /\ UNCHANGED <<clock, saves, blobVars, askVars>>

-----------------------------------------------------------------------------
\* POST /api/me/whats-new reads the blob ...
GetSettings ==
  /\ merging = AtRest
  /\ merging' = [pc |-> "read", blob |-> blob, at |-> clock]
  /\ UNCHANGED <<clock, blob, landed, overtaken, dismissal, undone, pageVars, askVars>>

\* Variant: the blob is made anew.
PutDismissalAlone ==
  /\ merging.pc = "read" /\ merging' = [pc |-> "stored"]
  /\ blob' = [choice |-> 0, dismissed |-> merging.at] /\ undone' = FALSE
  /\ dismissal' = merging.at
  /\ UNCHANGED <<clock, landed, overtaken, pageVars, askVars>>

\* Variant: what is stored is the end of the quiet window.
PutQuietUntil ==
  /\ merging.pc = "read" /\ merging' = [pc |-> "stored"]
  /\ blob' = [merging.blob EXCEPT !.dismissed = merging.at + Quiet] /\ undone' = FALSE
  /\ dismissal' = merging.at
  /\ UNCHANGED <<clock, landed, overtaken, pageVars, askVars>>

\* ... and writes it back with the time of the dismissal ...
PutWhatsNewDismiss ==
  /\ merging.pc = "read" /\ merging' = [pc |-> "stored"]
  /\ blob' = [merging.blob EXCEPT !.dismissed = merging.at] /\ undone' = FALSE
  /\ dismissal' = merging.at
  /\ UNCHANGED <<clock, landed, overtaken, pageVars, askVars>>

\* ... and then forgets the summaries of this user.
ForgetSummaries ==
  /\ merging.pc = "stored" /\ merging' = AtRest
  /\ whatsNewCache' = << >>
  /\ UNCHANGED <<clock, blob, landed, overtaken, dismissal, undone, pageVars, asks>>

DismissFails ==
  /\ merging.pc = "read" /\ merging' = AtRest
  /\ UNCHANGED <<clock, blob, landed, overtaken, dismissal, undone, pageVars, askVars>>

-----------------------------------------------------------------------------

InQuietWindow(dismissed) == clock - dismissed < Quiet

\* A GET reads the dismissal; an error there counts as never.  In the quiet
\* window there is no banner, unless it is forced.
GetWhatsNewDismiss(g) ==
  /\ asks[g] = AtRest
  /\ \E force, failed \in BOOLEAN :
       LET dismissed == IF failed THEN Undismissed ELSE blob.dismissed IN
       /\ force \/ ~ InQuietWindow(dismissed)
       /\ asks' = [asks EXCEPT ![g] =
            [pc |-> "asking", since |-> Max({dismissed, clock - Lookback}),
             early |-> CASE force \/ clock - dismissal >= Quiet -> "no"
                         [] failed -> "unread" [] undone -> "undone" [] OTHER -> "unasked"]]
  /\ UNCHANGED <<clock, blobVars, pageVars, whatsNewCache>>

CacheKey(since) == since

\* The summary is sent, and the page shows the banner.
Show(g) == asks' = [asks EXCEPT ![g] = AtRest]

FromCache(g) ==
  LET key == CacheKey(asks[g].since) IN
  /\ asks[g].pc = "asking"
  /\ key \in DOMAIN whatsNewCache /\ clock < whatsNewCache[key].expiry
  /\ Show(g)
  /\ UNCHANGED <<clock, blobVars, pageVars, whatsNewCache>>

MissSummary(g) ==
  LET key == CacheKey(asks[g].since) IN
  /\ asks[g].pc = "asking"
  /\ key \in DOMAIN whatsNewCache => clock >= whatsNewCache[key].expiry
  /\ asks' = [asks EXCEPT ![g].pc = "paying"]
  /\ UNCHANGED <<clock, blobVars, pageVars, whatsNewCache>>

\* The summarizer has answered; the summary is stored and sent.
Summarize(g) ==
  /\ asks[g].pc = "paying"
  /\ Show(g)
  /\ whatsNewCache' =
       [k \in DOMAIN whatsNewCache \cup {CacheKey(asks[g].since)} |->
          IF k = CacheKey(asks[g].since)
          THEN [since |-> asks[g].since, expiry |-> clock + SummaryTTL] ELSE whatsNewCache[k]]
  /\ UNCHANGED <<clock, blobVars, pageVars>>

\* Nothing happened since, or the list or the summarizer failed.
NoSummary(g) ==
  /\ asks[g].pc = "paying" /\ asks' = [asks EXCEPT ![g] = AtRest]
  /\ UNCHANGED <<clock, blobVars, pageVars, whatsNewCache>>

\* The hourly sweep of the caches.
SweepSummaries ==
  /\ \E k \in DOMAIN whatsNewCache : clock >= whatsNewCache[k].expiry
  /\ whatsNewCache' = [k \in {j \in DOMAIN whatsNewCache : clock < whatsNewCache[j].expiry} |->
                         whatsNewCache[k]]
  /\ UNCHANGED <<clock, blobVars, pageVars, asks>>

\* The caches and what is in flight are in memory.
ServerRestarts ==
  /\ merging # AtRest \/ whatsNewCache # << >>
  /\ merging' = AtRest /\ whatsNewCache' = << >> /\ asks' = [g \in Ask |-> AtRest]
  /\ UNCHANGED <<clock, blob, landed, overtaken, dismissal, undone, pageVars>>

ClockTurns ==
  /\ clock < LastClock /\ clock' = clock + 1
  /\ UNCHANGED <<blobVars, pageVars, askVars>>

SettingsInit ==
  /\ clock = 0 /\ blob = [choice |-> 0, dismissed |-> Undismissed]
  /\ pushes = {} /\ saves = 0
  /\ merging = AtRest /\ asks = [g \in Ask |-> AtRest] /\ whatsNewCache = << >>
  /\ landed = 0 /\ overtaken = FALSE /\ dismissal = Undismissed /\ undone = FALSE

SettingsNext ==
  \/ PushMeSettings
  \/ \E c \in 1 .. MaxSaves : PutSettings(c) \/ PushLost(c)
  \/ GetSettings \/ PutWhatsNewDismiss \/ ForgetSummaries \/ DismissFails
  \/ \E g \in Ask : GetWhatsNewDismiss(g) \/ FromCache(g) \/ MissSummary(g) \/ Summarize(g) \/ NoSummary(g)
  \/ SweepSummaries \/ ServerRestarts \/ ClockTurns

-----------------------------------------------------------------------------
\* The clock, the blob and the requests keep their types.
SettingsTypeOK ==
  /\ clock \in 0 .. LastClock
  /\ blob \in [choice : 0 .. MaxSaves, dismissed : {Undismissed} \cup 0 .. LastClock]
  /\ pushes \subseteq 1 .. MaxSaves
  /\ merging.pc \in {"idle", "read", "stored"}
  /\ \A g \in Ask : asks[g].pc \in {"idle", "asking", "paying"}

\* A summary covers the window it was asked for, also when a dismissal empties
\* the cache while another request waits for the summarizer and stores its
\* answer afterwards (the key of the cache holds the start of the window).
SummaryOfItsWindow ==
  \A g \in Ask : asks[g].pc # "idle" /\ CacheKey(asks[g].since) \in DOMAIN whatsNewCache =>
    whatsNewCache[CacheKey(asks[g].since)].since = asks[g].since

\* A dismissal takes nothing from the settings: what the last PUT stored stays,
\* unless that PUT landed between the dismissal's read and its write.
DismissalKeepsSettings == blob.choice = landed \/ overtaken

\* In the quiet window no request leads to a banner by itself, unless the
\* dismissal could not be read or the settings were saved since.
QuietUnlessSaved == \A g \in Ask : asks[g].pc # "idle" => asks[g].early # "unasked"

-----------------------------------------------------------------------------
(* What the theorems of ServerProofs rest on *)

Merge == [pc : {"idle", "stored"}]
         \cup [pc : {"read"}, blob : [choice : 0 .. MaxSaves,
                                      dismissed : {Undismissed} \cup 0 .. LastClock],
               at : 0 .. LastClock]

SettingsShape ==
  /\ SettingsTypeOK /\ saves \in 0 .. MaxSaves
  /\ merging \in Merge /\ DOMAIN asks = Ask
  /\ overtaken \in BOOLEAN /\ undone \in BOOLEAN

\* What a dismissal has read is what is stored, unless a PUT has overtaken it.
ReadIsStored == merging.pc = "read" => merging.blob.choice = landed \/ overtaken

\* The stored dismissal is the last one, unless a PUT has undone it.
DismissalIsStored == blob.dismissed = dismissal \/ undone

\* Every summary is stored under the start of its window.
FiledByWindow == \A k \in DOMAIN whatsNewCache : whatsNewCache[k].since = k

SettingsInv ==
  /\ SettingsShape /\ ReadIsStored /\ DismissalKeepsSettings /\ DismissalIsStored
  /\ FiledByWindow /\ QuietUnlessSaved

=============================================================================
