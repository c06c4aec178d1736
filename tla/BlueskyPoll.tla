----------------------------- MODULE BlueskyPoll ----------------------------
(***************************************************************************)
(* The two Bluesky sources (internal/sources/bluesky.go and                *)
(* bluesky_accounts.go).  fetchGroup runs both at every poll; they share a *)
(* session, and an account that answers 400 is left alone for a day.       *)
(***************************************************************************)
EXTENDS Integers, FiniteSets

CONSTANTS
  Account,         \* what handlesFn returns
  TokenLife,       \* 90 minutes, in polls
  BadSkip,         \* badHandleSkip, 24 hours, in polls
  MaxRefusals      \* bound: how often the service ends the sessions early

ASSUME BlueskyAssumption ==
  Account # {} /\ TokenLife \in Nat \ {0} /\ BadSkip \in Nat \ {0} /\ MaxRefusals \in Nat

VARIABLES
  token,           \* accessJwt: "none", "good" or "refused"
  lifetime,        \* polls until tokenExpiry
  search,          \* the search: "idle", "due", or the token it was given
  accounts,        \* the accounts: the same, or "reading" after authenticate
  ahead,           \* handles this poll has not come to
  badFor,          \* polls until badUntil of each handle that has one
  renamed,         \* handles nobody has at the moment
  refusals,        \* bound
  posted           \* history: handles whose posts this poll has fetched

sessionVars == <<token, lifetime>>
handleVars  == <<ahead, badFor, posted>>
bskyVars    == <<sessionVars, search, accounts, handleVars, renamed, refusals>>

Absent == -1
Less(n) == IF n > 0 THEN n - 1 ELSE n
Valid == token # "none" /\ lifetime > 0
authenticate == token' = "good" /\ lifetime' = TokenLife

\* The next poll, when the goroutines of the last have returned.
PollStarts ==
  /\ search = "idle" /\ accounts = "idle"
  /\ search' = "due" /\ accounts' = "due" /\ posted' = {}
  /\ lifetime' = Less(lifetime) /\ badFor' = [h \in Account |-> Less(badFor[h])]
  /\ UNCHANGED <<token, ahead, renamed, refusals>>

\* getToken of the search.
SearchStarts ==
  /\ search = "due"
  /\ \/ Valid /\ search' = token /\ UNCHANGED sessionVars
     \/ ~ Valid /\ authenticate /\ search' = "good"
  /\ UNCHANGED <<accounts, handleVars, renamed, refusals>>

\* 401 clears the token, also one that came after the token it was for.
SearchEnds ==
  /\ search \in {"good", "refused"} /\ search' = "idle"
  /\ token' = IF search = "refused" THEN "none" ELSE token
  /\ UNCHANGED <<lifetime, accounts, handleVars, renamed, refusals>>

\* getToken of the accounts reads the token again after authenticate ...
AccountsStart ==
  /\ accounts = "due"
  /\ \/ Valid /\ accounts' = token /\ ahead' = Account /\ UNCHANGED sessionVars
     \/ ~ Valid /\ authenticate /\ accounts' = "reading" /\ ahead' = ahead
  /\ UNCHANGED <<search, badFor, posted, renamed, refusals>>

\* ... and finds none if the search has cleared it in between.
ReadToken ==
  /\ accounts = "reading" /\ ahead' = Account
  /\ accounts' = IF token = "none" THEN "refused" ELSE token
  /\ UNCHANGED <<sessionVars, search, badFor, posted, renamed, refusals>>

AuthFails ==
  /\ ~ Valid
  /\ \/ search = "due" /\ search' = "idle" /\ accounts' = accounts
     \/ accounts = "due" /\ accounts' = "idle" /\ search' = search
  /\ UNCHANGED <<sessionVars, handleVars, renamed, refusals>>

-----------------------------------------------------------------------------

isBad(h) == badFor[h] > 0

\* The loop goes on with the next handle.
Passed(h) ==
  /\ h \in ahead /\ ahead' = ahead \ {h}
  /\ accounts' = IF ahead = {h} THEN "idle" ELSE accounts
  /\ UNCHANGED <<sessionVars, search, renamed, refusals>>

Skip(h) == isBad(h) /\ Passed(h) /\ UNCHANGED <<badFor, posted>>

FetchAccount(h) ==
  /\ ~ isBad(h) /\ accounts = "good" /\ h \notin renamed
  /\ Passed(h) /\ posted' = posted \cup {h} /\ badFor' = [badFor EXCEPT ![h] = Absent]

\* 400: nobody has the handle, or the token is not taken.
markBad(h) ==
  /\ ~ isBad(h) /\ (accounts = "refused" \/ h \in renamed)
  /\ Passed(h) /\ badFor' = [badFor EXCEPT ![h] = BadSkip] /\ posted' = posted

\* Another status, a timeout, no JSON: only logged.
FetchAccountFails(h) ==
  ~ isBad(h) /\ Passed(h) /\ badFor' = [badFor EXCEPT ![h] = Absent] /\ posted' = posted

-----------------------------------------------------------------------------
Rename(h) ==
  /\ renamed' = IF h \in renamed THEN renamed \ {h} ELSE renamed \cup {h}
  /\ UNCHANGED <<sessionVars, search, accounts, handleVars, refusals>>

Refuse ==
  LET ended(t) == IF t = "good" THEN "refused" ELSE t IN
  /\ refusals < MaxRefusals /\ refusals' = refusals + 1
  /\ token' = ended(token) /\ search' = ended(search) /\ accounts' = ended(accounts)
  /\ UNCHANGED <<lifetime, handleVars, renamed>>

BlueskyInit ==
  /\ token = "none" /\ lifetime = 0 /\ search = "idle" /\ accounts = "idle"
  /\ ahead = {} /\ badFor = [h \in Account |-> Absent] /\ posted = {}
  /\ renamed \in SUBSET Account /\ refusals = 0

Handled(h) == Skip(h) \/ FetchAccount(h) \/ markBad(h) \/ FetchAccountFails(h)

BlueskyNext ==
  \/ PollStarts \/ SearchStarts \/ SearchEnds \/ AccountsStart \/ ReadToken \/ AuthFails
  \/ \E h \in Account : Handled(h) \/ Rename(h)
  \/ Refuse

-----------------------------------------------------------------------------
\* A poll has handles before it only while the accounts are polled.
BlueskyTypeOK ==
  /\ token \in {"none", "good", "refused"} /\ lifetime \in 0 .. TokenLife
  /\ badFor \in [Account -> Absent .. BadSkip] /\ posted \subseteq Account
  /\ (ahead # {} <=> accounts \in {"good", "refused"})

=============================================================================
