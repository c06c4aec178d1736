----------------------------- MODULE StreamHub ------------------------------
(***************************************************************************)
(* Server-sent events (internal/server/sse.go): the goroutines of a poll   *)
(* announce what they do (fetchGroup), every open page has a buffered      *)
(* channel, and the page fetches the list when it is told of new articles  *)
(* (startSSE and autoRefresh of web/index.html).                           *)
(***************************************************************************)
EXTENDS Integers, Sequences, SequencesExt, FiniteSets

CONSTANTS
  Feed,            \* goroutines of fetchGroup
  Page,            \* open pages
  NoFeed,
  Buffer,          \* capacity of a channel, 4
  MaxPolls         \* bound: polls

ASSUME StreamAssumption == NoFeed \notin Feed /\ Buffer \in Nat \ {0} /\ MaxPolls \in Nat

VARIABLES
  poll,            \* what each goroutine is at, and what it is about to announce
  polls,           \* bound: polls so far
  holder,          \* who holds streamHub.mu for a broadcast
  todo,            \* the clients its range has not reached yet
  clients,         \* streamHub.clients
  channel,         \* the buffered events of each page's channel
  closed,          \* channels that are closed
  stored,          \* number of the last article stored
  seen,            \* the last article each page has fetched
  bell,            \* sseNewSinceLast > 0 in the page
  waking,          \* sseRefreshTimer is set
  missed           \* history: the page was not there, not listening or too slow

pollVars   == <<poll, polls, stored>>
hubVars    == <<holder, todo, clients, channel, closed>>
pageVars   == <<seen, bell, waking, missed>>
streamVars == <<pollVars, hubVars, pageVars>>

Resting == [pc |-> "resting"]
At(f, pc) == poll[f].pc = pc
Turn(f, pc, event) == poll' = [poll EXCEPT ![f] = [pc |-> pc, event |-> event]]

-----------------------------------------------------------------------------
\* fetchGroup: "feeding" before the fetch ...
StartPoll(f) ==
  /\ At(f, "resting") /\ polls < MaxPolls /\ polls' = polls + 1
  /\ Turn(f, "announcing", "feeding")
  /\ UNCHANGED <<stored, hubVars, pageVars>>

\* Broadcast locks the hub and ranges over the clients.
Broadcast(f) ==
  /\ At(f, "announcing") /\ holder = NoFeed
  /\ holder' = f /\ todo' = clients
  /\ UNCHANGED <<pollVars, clients, channel, closed, pageVars>>

\* A full channel drops the event.
Deliver(p) ==
  /\ p \in todo /\ todo' = todo \ {p}
  /\ IF Len(channel[p]) < Buffer
     THEN channel' = [channel EXCEPT ![p] = Append(@, poll[holder].event)] /\ missed' = missed
     ELSE channel' = channel /\ missed' = [missed EXCEPT ![p] = TRUE]
  /\ UNCHANGED <<pollVars, holder, clients, closed, seen, bell, waking>>

\* The deferred unlock; the goroutine goes on to fetch, or is done.
Announced ==
  /\ holder # NoFeed /\ todo = {} /\ holder' = NoFeed
  /\ poll' = [poll EXCEPT ![holder] =
                IF @.event = "feeding" THEN [pc |-> "fetching"] ELSE Resting]
  /\ UNCHANGED <<polls, stored, todo, clients, channel, closed, pageVars>>

\* ... and "refresh", with the number of new articles, after the last Upsert ...
Store(f) ==
  /\ At(f, "fetching") /\ stored' = stored + 1
  /\ Turn(f, "announcing", "new")
  /\ UNCHANGED <<polls, hubVars, pageVars>>

NothingNew(f) ==
  /\ At(f, "fetching")
  /\ Turn(f, "announcing", "none")
  /\ UNCHANGED <<polls, stored, hubVars, pageVars>>

\* ... but none when the source fails.
FetchFails(f) ==
  /\ At(f, "fetching") /\ poll' = [poll EXCEPT ![f] = Resting]
  /\ UNCHANGED <<polls, stored, hubVars, pageVars>>

-----------------------------------------------------------------------------
\* The page has loaded the list, now or before it lost its connection.
Register(p) ==
  /\ holder = NoFeed /\ p \notin clients /\ ~ closed[p] /\ clients' = clients \cup {p}
  /\ missed' = [missed EXCEPT ![p] = @ \/ seen[p] < stored]
  /\ UNCHANGED <<pollVars, holder, todo, channel, closed, seen, bell, waking>>

\* Variant: the hub is not locked.
LeaveUnlocked(p) ==
  /\ p \in clients /\ clients' = clients \ {p}
  /\ closed' = [closed EXCEPT ![p] = TRUE]
  /\ UNCHANGED <<pollVars, holder, todo, channel, pageVars>>

\* unregister takes the client out under the lock, and closes its channel later.
Leave(p) ==
  /\ holder = NoFeed /\ p \in clients /\ clients' = clients \ {p}
  /\ closed' = [closed EXCEPT ![p] = TRUE]
  /\ UNCHANGED <<pollVars, holder, todo, channel, pageVars>>

\* The rest is drained; another connection gets another channel.
Drained(p) ==
  /\ closed[p] /\ closed' = [closed EXCEPT ![p] = FALSE]
  /\ channel' = [channel EXCEPT ![p] = << >>]
  /\ UNCHANGED <<pollVars, holder, todo, clients, pageVars>>

\* handleStream writes the event, the page counts and sets its timer.
Hear(p) ==
  /\ p \in clients /\ channel[p] # << >>
  /\ channel' = [channel EXCEPT ![p] = Tail(@)]
  /\ IF Head(channel[p]) = "feeding" THEN UNCHANGED <<bell, waking>>
     ELSE /\ bell' = [bell EXCEPT ![p] = @ \/ Head(channel[p]) = "new"]
          /\ waking' = [waking EXCEPT ![p] = TRUE]
  /\ UNCHANGED <<pollVars, holder, todo, clients, closed, seen, missed>>

\* autoRefresh: by the timer of the events, or by that of the page itself.  While
\* the reader types it does nothing, and the events counted so far are forgotten.
AutoRefresh(p, typing) ==
  /\ waking' = [waking EXCEPT ![p] = FALSE] /\ bell' = [bell EXCEPT ![p] = FALSE]
  /\ IF typing THEN seen' = seen /\ missed' = [missed EXCEPT ![p] = TRUE]
     ELSE seen' = [seen EXCEPT ![p] = stored] /\ missed' = [missed EXCEPT ![p] = FALSE]
  /\ UNCHANGED <<pollVars, hubVars>>

Wake(p) ==
  /\ waking[p]
  /\ \/ bell[p] /\ \E typing \in BOOLEAN : AutoRefresh(p, typing)
     \/ /\ ~ bell[p] /\ waking' = [waking EXCEPT ![p] = FALSE]
        /\ UNCHANGED <<pollVars, hubVars, seen, bell, missed>>

StreamInit ==
  /\ poll = [f \in Feed |-> Resting] /\ polls = 0 /\ stored = 0
  /\ holder = NoFeed /\ todo = {} /\ clients = {}
  /\ channel = [p \in Page |-> << >>] /\ closed = [p \in Page |-> FALSE]
  /\ seen = [p \in Page |-> 0] /\ bell = [p \in Page |-> FALSE]
  /\ waking = [p \in Page |-> FALSE] /\ missed = [p \in Page |-> FALSE]

StreamNext ==
  \/ \E f \in Feed : StartPoll(f) \/ Broadcast(f) \/ Store(f) \/ NothingNew(f) \/ FetchFails(f)
  \/ Announced
  \/ \E p \in Page : Deliver(p) \/ Register(p) \/ Leave(p) \/ Drained(p) \/ Hear(p) \/ Wake(p)

-----------------------------------------------------------------------------
\* Channels hold at most Buffer events, and only the holder of the lock ranges.
StreamTypeOK ==
  /\ holder \in Feed \cup {NoFeed} /\ clients \subseteq Page /\ todo \subseteq Page
  /\ \A p \in Page : Len(channel[p]) <= Buffer
  /\ holder = NoFeed => todo = {}

\* No broadcast reaches a channel that is closed: it would stop the process.
\* unregister closes without the lock, after the delete under the lock.
NoSendAfterClose == \A p \in todo : ~ closed[p]

\* A connected page that lacks an article has been told of it or will be: the
\* event waits in its channel, in its counter or in a goroutine.  Otherwise its
\* channel was full, it was not connected, or its reader was typing.
NothingUntold ==
  \A p \in clients : seen[p] < stored =>
    \/ bell[p] \/ missed[p] \/ Contains(channel[p], "new")
    \/ \E f \in Feed : poll[f].pc = "announcing" /\ poll[f].event = "new"
                       /\ (holder = f => p \in todo)

\* A publisher gets through whatever the pages do, also those that never read.
PublisherGetsThrough == []<>(holder = NoFeed)

-----------------------------------------------------------------------------
(* What the theorems of WorkersProofs rest on *)

Event == {"feeding", "new", "none"}
Turns == [pc : {"resting", "fetching"}] \cup [pc : {"announcing"}, event : Event]

StreamShape ==
  /\ poll \in [Feed -> Turns] /\ polls \in Nat /\ stored \in Nat
  /\ channel \in [Page -> Seq(Event)] /\ closed \in [Page -> BOOLEAN]
  /\ seen \in [Page -> Nat] /\ bell \in [Page -> BOOLEAN]
  /\ waking \in [Page -> BOOLEAN] /\ missed \in [Page -> BOOLEAN]

\* Whoever holds the lock has something to announce, to clients only, and a
\* client's channel is open: clients come and go when nobody holds it.
LockGuardsClients ==
  /\ holder # NoFeed => At(holder, "announcing")
  /\ todo \subseteq clients
  /\ \A p \in clients : ~ closed[p]

StreamInv == StreamShape /\ StreamTypeOK /\ LockGuardsClients /\ NothingUntold

=============================================================================
