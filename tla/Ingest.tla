------------------------------- MODULE Ingest -------------------------------
(***************************************************************************)
(* The article store and the goroutines that fill it.                      *)
(*                                                                         *)
(* Server.fetchGroup starts one goroutine per source and returns at once.  *)
(* A goroutine walks the items its feed lists; for each it asks the store  *)
(* whether the URL is known (Exists), looks for an article of another      *)
(* source that tells the same story (findDuplicate: two queries), and      *)
(* upserts the row.  Every one of these is its own SQLite statement, none  *)
(* is in a transaction, and the readers, the daily purge and the other     *)
(* goroutines run in between.                                              *)
(*                                                                         *)
(* Only rows with duplicate_of IS NULL are shown by the reader, the APIs,  *)
(* the alerts and the digests: what this module is about is that nothing   *)
(* the feeds list ever drops out of that view without a row that stands    *)
(* for it.                                                                 *)
(***************************************************************************)
EXTENDS Integers, FiniteSets

CONSTANTS
  Source,         \* feeds, by name
  Url,            \* article URLs
  Task,           \* goroutines of fetchGroup that may run at the same time
  Id,             \* row ids
  None,           \* SQL NULL
  ListedBy,       \* the URLs each feed may list
  NormOf,         \* dedup.NormalizeURL: a representative URL of the class
  Similar,        \* pairs of URLs whose titles have TitleSimilarity >= 0.55
  Score,          \* the score the scorer gives the item
  Safe,           \* URLs that pass isSafeArticleURL
  Published,      \* publication time
  DedupWindow,    \* 72 hours
  TitleLimit,     \* how many recent titles are compared (200)
  PurgeAge,       \* 90 days
  MaxTime,        \* bound on the clock
  Overlap,        \* may a source be polled again while its last poll runs?
  Faults          \* which statements may fail: "exists", "match", "store"

ASSUME IngestAssumption ==
  /\ None \notin Id \cup Url
  /\ ListedBy \in [Source -> SUBSET Url]
  /\ NormOf \in [Url -> Url]
  /\ Similar \subseteq Url \X Url
  /\ Score \in [Url -> 0..100]
  /\ Safe \subseteq Url
  /\ Published \in [Url -> Nat]
  /\ DedupWindow \in Nat /\ TitleLimit \in Nat /\ PurgeAge \in Nat
  /\ MaxTime \in Nat
  /\ Overlap \in BOOLEAN
  /\ Faults \subseteq {"exists", "match", "store"}

VARIABLES
  row,      \* the articles table: live id -> row
  task,     \* the goroutines
  now       \* the clock

vars == <<row, task, now>>

Row == [url : Url, source : Source, dup : Id \cup {None}, read : BOOLEAN]

\* Where a goroutine is: between two items, or before the first query of
\* findDuplicate ("url"), its second ("title"), or the INSERT ("store").
IdleTask == [pc |-> "idle"]
Between  == [pc : {"next"}, source : Source, todo : SUBSET Url,
             cur : {None}, dup : {None}]
Matching == [pc : {"url", "title"}, source : Source, todo : SUBSET Url,
             cur : Url, dup : {None}]
Storing  == [pc : {"store"}, source : Source, todo : SUBSET Url,
             cur : Url, dup : Id \cup {None}]

Active(t) == task[t].pc # "idle"

Live      == DOMAIN row
Stored(u) == \E i \in Live : row[i].url = u
Visible   == {i \in Live : row[i].dup = None}

\* Variant: plain rowids, which SQLite reuses.
FreshRowid(i) == i \notin Live

\* An id AUTOINCREMENT can hand out.  It never reuses one; ids nothing refers
\* to any more are indistinguishable from ids never used, so a finite Id will do.
Fresh(i) == /\ i \notin Live
            /\ \A t \in Task : Active(t) => task[t].dup # i

Init ==
  /\ row = [i \in {} |-> None]
  /\ task = [t \in Task |-> IdleTask]
  /\ now \in 0..MaxTime

-----------------------------------------------------------------------------
(* A goroutine of fetchGroup *)

\* src.Fetch returned the feed's window: some of its items, in an order the feed
\* chooses.  When it fails the goroutine only notes the error in Server.status,
\* which nothing reads but the status page.
FetchReturns(t, s, window) ==
  /\ ~Active(t)
  /\ Overlap \/ \A t2 \in Task : Active(t2) => task[t2].source # s
  /\ task' = [task EXCEPT ![t] = [pc |-> "next", source |-> s,
                 todo |-> window, cur |-> None, dup |-> None]]
  /\ UNCHANGED <<row, now>>

\* Items that the loop drops: already stored, scored 0, or unsafe for Upsert.
Skipped(u) == Stored(u) \/ Score[u] = 0 \/ u \notin Safe

Skip(t, u) ==
  /\ task[t].pc = "next" /\ u \in task[t].todo
  /\ Skipped(u)
  /\ task' = [task EXCEPT ![t].todo = @ \ {u}]
  /\ UNCHANGED <<row, now>>

\* Exists answered false, which it also does when its query fails.
Admit(t, u) ==
  /\ task[t].pc = "next" /\ u \in task[t].todo
  /\ Stored(u) => "exists" \in Faults
  /\ Score[u] # 0 /\ u \in Safe
  /\ task' = [task EXCEPT ![t].todo = @ \ {u}, ![t].cur = u, ![t].pc = "url"]
  /\ UNCHANGED <<row, now>>

\* Variants: without "duplicate_of IS NULL", and without "source != ?".
CandidateAnyRow(t)    == {i \in Live : row[i].source # task[t].source}
CandidateAnySource(t) == Visible

\* Both queries of findDuplicate only see primaries of other sources.
Candidate(t) == {i \in Visible : row[i].source # task[t].source}

SameUrl(t) == {i \in Candidate(t) : NormOf[row[i].url] = NormOf[task[t].cur]}

MatchUrl(t) ==
  /\ task[t].pc = "url"
  /\ \/ \E i \in SameUrl(t) :
          /\ \A j \in SameUrl(t) : Score[row[j].url] <= Score[row[i].url]
          /\ task' = [task EXCEPT ![t].pc = "store", ![t].dup = i]
     \/ /\ SameUrl(t) = {} \/ "match" \in Faults
        /\ task' = [task EXCEPT ![t].pc = "title"]
  /\ UNCHANGED <<row, now>>

Later(i, j) == Published[row[i].url] > Published[row[j].url]

Recent(t) ==
  LET within == {i \in Candidate(t) : Published[row[i].url] > now - DedupWindow}
  IN  {i \in within : Cardinality({j \in within : Later(j, i)}) < TitleLimit}

SameTitle(t) == {i \in Recent(t) : <<task[t].cur, row[i].url>> \in Similar}

MatchTitle(t) ==
  /\ task[t].pc = "title"
  /\ \/ \E i \in SameTitle(t) :
          /\ \A j \in SameTitle(t) : ~Later(j, i)
          /\ task' = [task EXCEPT ![t].pc = "store", ![t].dup = i]
     \/ /\ SameTitle(t) = {} \/ "match" \in Faults
        /\ task' = [task EXCEPT ![t].pc = "store"]
  /\ UNCHANGED <<row, now>>

\* Back to the loop head, the item done.
NextItem(t) ==
  task' = [task EXCEPT ![t].pc = "next", ![t].cur = None, ![t].dup = None]

\* Variant: without PRAGMA foreign_keys.
KeyUnchecked(t) == task[t].dup \in Id \cup {None}

\* The foreign key of duplicate_of accepts NULL and live ids only.
KeyHolds(t) == task[t].dup \in Live \cup {None}

Insert(t, i) ==
  /\ task[t].pc = "store" /\ KeyHolds(t)
  /\ ~Stored(task[t].cur) /\ Fresh(i)
  /\ row' = [j \in Live \cup {i} |->
               IF j = i THEN [url |-> task[t].cur, source |-> task[t].source,
                              dup |-> task[t].dup, read |-> FALSE]
                        ELSE row[j]]
  /\ NextItem(t)
  /\ UNCHANGED now

\* ON CONFLICT(url): the row keeps its source, its read mark and its date, and
\* takes the duplicate_of just computed.
Update(t, i) ==
  /\ task[t].pc = "store" /\ KeyHolds(t)
  /\ i \in Live /\ row[i].url = task[t].cur
  /\ row' = [row EXCEPT ![i].dup = task[t].dup]
  /\ NextItem(t)
  /\ UNCHANGED now

\* Variant: the goroutine tries the same statement again.
StoreAgain(t) ==
  /\ task[t].pc = "store"
  /\ ~KeyHolds(t) \/ "store" \in Faults
  /\ UNCHANGED vars

\* Upsert returned an error: the item waits for the next poll.
StoreFails(t) ==
  /\ task[t].pc = "store"
  /\ ~KeyHolds(t) \/ "store" \in Faults
  /\ NextItem(t)
  /\ UNCHANGED <<row, now>>

\* Variant: the goroutine ends with its variables left behind.
FinishDirty(t) ==
  /\ task[t].pc = "next" /\ task[t].todo = {}
  /\ task' = [task EXCEPT ![t].pc = "idle"]
  /\ UNCHANGED <<row, now>>

Finish(t) ==
  /\ task[t].pc = "next" /\ task[t].todo = {}
  /\ task' = [task EXCEPT ![t] = IdleTask]
  /\ UNCHANGED <<row, now>>

TaskStep(t) ==
  \/ \E u \in Url : Skip(t, u) \/ Admit(t, u)
  \/ MatchUrl(t) \/ MatchTitle(t)
  \/ \E i \in Id : Insert(t, i) \/ Update(t, i)
  \/ StoreFails(t) \/ Finish(t)

-----------------------------------------------------------------------------
(* The reader and the daily cleanup *)

MarkRead(i) ==
  /\ i \in Live
  /\ row' = [row EXCEPT ![i].read = TRUE]
  /\ UNCHANGED <<task, now>>

MarkAllRead ==
  /\ row' = [i \in Live |-> [row[i] EXCEPT !.read = TRUE]]
  /\ UNCHANGED <<task, now>>

Expired(i) == Published[row[i].url] < now - PurgeAge /\ row[i].read

\* DELETE, with ON DELETE SET NULL for the rows that pointed at a deleted one.
Purge ==
  /\ LET kept == {i \in Live : ~Expired(i)} IN
       row' = [i \in kept |->
                 IF row[i].dup \in kept THEN row[i]
                                        ELSE [row[i] EXCEPT !.dup = None]]
  /\ UNCHANGED <<task, now>>

Tick ==
  /\ now < MaxTime
  /\ now' = now + 1
  /\ UNCHANGED <<row, task>>

Next ==
  \/ \E t \in Task, s \in Source : \E window \in SUBSET ListedBy[s] :
       FetchReturns(t, s, window)
  \/ \E t \in Task : TaskStep(t)
  \/ \E i \in Id : MarkRead(i)
  \/ MarkAllRead \/ Purge \/ Tick

Spec == Init /\ [][Next]_vars

Store(t, u) ==
  /\ task[t].pc = "store" /\ task[t].cur = u
  /\ \E i \in Id : Insert(t, i) \/ Update(t, i)

\* The tickers fire for ever and every item is listed now and then (strong, because
\* only Task bounds the goroutines); a goroutine that can take a step is
\* scheduled; a statement that is tried again and again succeeds some time.
Fairness ==
  /\ \A s \in Source : \A u \in ListedBy[s] :
       SF_vars(\E t \in Task, window \in SUBSET ListedBy[s] :
                 u \in window /\ FetchReturns(t, s, window))
  /\ \A t \in Task : WF_vars(TaskStep(t))
  /\ \A u \in Url : SF_vars(\E t \in Task : Store(t, u))

FairSpec == Spec /\ Fairness

-----------------------------------------------------------------------------
(* Properties *)

TypeOK ==
  /\ Live \subseteq Id /\ row \in [Live -> Row]
  /\ task \in [Task -> {IdleTask} \cup Between \cup Matching \cup Storing]
  /\ now \in 0..MaxTime

\* duplicate_of always names a stored article, whatever goroutines and the
\* purge do in between: a match found before a purge must not be written
\* after it.
NoDanglingDuplicate == \A i \in Live : row[i].dup \in Live \cup {None}

\* The row a duplicate points at is shown: a story is at most one hop from the
\* article that stands for it, so the "also covered by" list of that article
\* (DuplicatesOf reads one hop) names every other telling.
PrimaryIsVisible == \A i \in Live : row[i].dup # None => row[i].dup \in Visible

SameTelling(u, v) == NormOf[u] = NormOf[v] \/ <<u, v>> \in Similar

\* A hidden article tells the story of the one that stands for it, although its
\* match may have been deleted, and new rows made, before it was stored.
AlikeToPrimary ==
  \A i \in Live : row[i].dup \in Live => SameTelling(row[i].url, row[row[i].dup].url)

\* Deduplication is across sources: a feed never hides its own article.
CrossSource ==
  \A i \in Live : row[i].dup \in Live => row[row[i].dup].source # row[i].source

\* What is filed under an article tells the same story from another feed.
TrueDuplicate == CrossSource /\ AlikeToPrimary

(* Why PrimaryIsVisible and CrossSource hold when no URL is handled by two   *)
(* goroutines at a time: what a goroutine is about to insert is not stored,  *)
(* so no row is ever overwritten and a match, if not purged, stays a match.  *)

\* No two feeds list one URL, a feed is polled by one goroutine at a time, and
\* Exists does not fail.
OneHandlerPerUrl ==
  /\ ~Overlap /\ "exists" \notin Faults
  /\ \A s, s2 \in Source : s # s2 => ListedBy[s] \cap ListedBy[s2] = {}

OneRowPerUrl == \A i, j \in Live : row[i].url = row[j].url => i = j

OnePollPerSource ==
  \A t, t2 \in Task :
    (Active(t) /\ Active(t2) /\ task[t].source = task[t2].source) => t = t2

OwnItems ==
  \A t \in Task : Active(t) =>
    /\ task[t].todo \subseteq ListedBy[task[t].source]
    /\ task[t].cur \in ListedBy[task[t].source] \cup {None}

PendingNotStored ==
  \A t \in Task : task[t].pc \in {"url", "title", "store"} =>
    ~Stored(task[t].cur)

MatchStillHolds ==
  \A t \in Task : (Active(t) /\ task[t].dup \in Live) =>
    task[t].dup \in Visible /\ row[task[t].dup].source # task[t].source

\* What keeps AlikeToPrimary, whoever else handles the URL: a match that a
\* goroutine holds, if not purged, is alike to what the goroutine is storing.
MatchIsAlike ==
  \A t \in Task : (Active(t) /\ task[t].dup \in Live) =>
    SameTelling(task[t].cur, row[task[t].dup].url)

IInv ==
  /\ TypeOK /\ OneRowPerUrl
  /\ OnePollPerSource /\ OwnItems /\ PendingNotStored /\ MatchStillHolds
  /\ NoDanglingDuplicate /\ PrimaryIsVisible /\ CrossSource

\* No set of articles hides one another: following duplicate_of from any row
\* ends at a row that is shown.
NothingHidden ==
  \A S \in SUBSET Live : S # {} => \E i \in S : row[i].dup \notin S

\* An article that is shown stays shown until it is deleted, and one that is
\* hidden comes back only when the article that stood for it is deleted.
VisibilityStable ==
  [][\A i \in Live \cap Live' :
       /\ row[i].dup = None => row'[i].dup = None
       /\ (row[i].dup # None /\ row'[i].dup = None) => row[i].dup \notin Live']_vars

\* A worthy item that a feed keeps listing is stored again and again: no
\* interleaving of polls, matches and purges loses it for good.
ListedIsStored ==
  \A u \in UNION {ListedBy[s] : s \in Source} :
    (Score[u] # 0 /\ u \in Safe) => []<>Stored(u)

=============================================================================
