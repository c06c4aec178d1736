---------------------------- MODULE WorkersProofs ---------------------------
(***************************************************************************)
(* Theorems about the periodic workers and the event stream, for any       *)
(* number of subscribers, vendors, stories, pages and goroutines.  Each    *)
(* part has an inductive invariant of its own; Workers only changes the    *)
(* part that a behaviour follows.                                          *)
(***************************************************************************)
EXTENDS Workers, FiniteSetTheorems, SequenceTheorems, TLAPS

-----------------------------------------------------------------------------
(* The event stream *)

LEMMA AppendContains ==
  ASSUME NEW s \in Seq(Event), NEW e \in Event
  PROVE  /\ Append(s, e) \in Seq(Event) /\ Len(Append(s, e)) = Len(s) + 1
         /\ Contains(Append(s, e), e)
         /\ \A d : Contains(s, d) => Contains(Append(s, e), d)
  BY DEF Contains

LEMMA TailContains ==
  ASSUME NEW s \in Seq(Event), s # << >>
  PROVE  /\ Tail(s) \in Seq(Event) /\ Len(Tail(s)) = Len(s) - 1 /\ Head(s) \in Event
         /\ \A d : Contains(s, d) => Head(s) = d \/ Contains(Tail(s), d)
  <1>1. Tail(s) \in Seq(Event) /\ Len(Tail(s)) = Len(s) - 1 /\ Head(s) \in Event /\ Len(s) \in Nat
    OBVIOUS
  <1>2. ASSUME NEW d, NEW i \in 1..Len(s), s[i] = d, Head(s) # d
        PROVE  Contains(Tail(s), d)
    <2>1. i # 1
      BY <1>2
    <2>2. i - 1 \in 1..Len(Tail(s)) /\ Tail(s)[i - 1] = s[i]
      BY <1>1, <2>1
    <2>3. QED
      BY <1>2, <2>2 DEF Contains
  <1>3. QED
    BY <1>1, <1>2 DEF Contains

LEMMA TurnShape ==
  /\ Resting \in Turns /\ [pc |-> "fetching"] \in Turns
  /\ \A e \in Event : [pc |-> "announcing", event |-> e] \in Turns
  /\ \A t \in Turns : t.pc = "announcing" => t.event \in Event
  /\ \A t \in Turns : t.pc \in {"resting", "fetching", "announcing"}
  BY DEF Resting, Turns, Event

\* Who is about to announce new articles to a page.
Announces(f, p) ==
  /\ poll[f].pc = "announcing" /\ poll[f].event = "new"
  /\ holder = f => p \in todo

Told(p) ==
  seen[p] < stored =>
    bell[p] \/ missed[p] \/ Contains(channel[p], "new") \/ \E f \in Feed : Announces(f, p)

LEMMA NothingUntoldIsTold ==
  /\ NothingUntold <=> \A p \in clients : Told(p)
  /\ NothingUntold' <=> \A p \in clients' : Told(p)'
  BY DEF NothingUntold, Told, Announces

LEMMA InitStreamInv == StreamInit => StreamInv
  <1>1. SUFFICES ASSUME StreamInit PROVE StreamInv
    OBVIOUS
  <1>2. StreamShape
    BY <1>1, TurnShape DEF StreamInit, StreamShape
  <1>3. \A p \in Page : Len(channel[p]) <= Buffer
    BY <1>1, StreamAssumption DEF StreamInit
  <1>4. QED
    BY <1>1, <1>2, <1>3 DEF StreamInit, StreamInv, StreamTypeOK, LockGuardsClients, NothingUntold

\* A goroutine that does not hold the lock takes its next turn.
LEMMA TurnStreamInv ==
  ASSUME StreamInv, NEW f \in Feed,
         StartPoll(f) \/ Store(f) \/ NothingNew(f) \/ FetchFails(f)
  PROVE  StreamInv'
  <1>1. poll \in [Feed -> Turns] /\ stored \in Nat /\ polls \in Nat /\ clients \subseteq Page
    BY DEF StreamInv, StreamShape, StreamTypeOK
  <1>2. UNCHANGED <<holder, todo, clients, channel, closed, seen, bell, waking, missed>>
    BY DEF StartPoll, Store, NothingNew, FetchFails, hubVars, pageVars
  <1>3. PICK t \in Turns : poll' = [poll EXCEPT ![f] = t]
    BY TurnShape DEF StartPoll, Store, NothingNew, FetchFails, Turn, Event
  <1>4. poll'[f] = t /\ \A g \in Feed \ {f} : poll'[g] = poll[g]
    BY <1>1, <1>3
  <1>5. poll[f].pc # "announcing"
    BY DEF StartPoll, Store, NothingNew, FetchFails, At
  <1>6. holder # f
    BY <1>5, StreamAssumption DEF StreamInv, LockGuardsClients, At
  <1>7. stored' \in Nat /\ polls' \in Nat
    BY <1>1 DEF StartPoll, Store, NothingNew, FetchFails
  <1>8. StreamShape' /\ StreamTypeOK'
    BY <1>1, <1>2, <1>3, <1>7 DEF StreamInv, StreamShape, StreamTypeOK
  <1>9. LockGuardsClients'
    BY <1>1, <1>2, <1>4, <1>6 DEF StreamInv, LockGuardsClients, StreamTypeOK, At
  <1>10. ASSUME NEW p \in clients
         PROVE  Told(p)'
    <2>1. CASE Store(f)
      <3>1. poll'[f] = [pc |-> "announcing", event |-> "new"]
        BY <1>1, <2>1 DEF Store, Turn
      <3>2. Announces(f, p)'
        BY <1>2, <1>6, <3>1 DEF Announces
      <3>3. QED
        BY <3>2 DEF Told
    <2>2. CASE stored' = stored
      <3>1. \A g \in Feed : Announces(g, p) => Announces(g, p)'
        BY <1>2, <1>4, <1>5 DEF Announces
      <3>2. Told(p)
        BY <1>10, NothingUntoldIsTold DEF StreamInv
      <3>3. QED
        BY <1>2, <2>2, <3>1, <3>2 DEF Told
    <2>3. QED
      BY <2>1, <2>2 DEF StartPoll, NothingNew, FetchFails
  <1>11. NothingUntold'
    BY <1>2, <1>10, NothingUntoldIsTold
  <1>12. QED
    BY <1>8, <1>9, <1>11 DEF StreamInv

\* Broadcast takes the lock and looks at every client once; the events of the
\* others wait.
LEMMA LockStreamInv ==
  ASSUME StreamInv, Announced \/ \E f \in Feed : Broadcast(f)
  PROVE  StreamInv'
  <1>1. /\ poll \in [Feed -> Turns] /\ holder \in Feed \cup {NoFeed} /\ clients \subseteq Page
        /\ holder = NoFeed => todo = {}
    BY DEF StreamInv, StreamShape, StreamTypeOK
  <1>2. UNCHANGED <<polls, stored, clients, channel, closed, seen, bell, waking, missed>>
    BY DEF Announced, Broadcast, pollVars, pageVars
  <1>3. ASSUME NEW f \in Feed, Broadcast(f)
        PROVE  StreamInv'
    <2>1. poll' = poll /\ holder' = f /\ todo' = clients /\ At(f, "announcing")
      BY <1>3 DEF Broadcast, pollVars
    <2>2. StreamShape' /\ StreamTypeOK' /\ LockGuardsClients'
      BY <1>1, <1>2, <2>1, StreamAssumption
      DEF StreamInv, StreamShape, StreamTypeOK, LockGuardsClients, At
    <2>3. \A p \in clients, g \in Feed : Announces(g, p) => Announces(g, p)'
      BY <1>2, <2>1 DEF Announces
    <2>4. \A p \in clients : Told(p) => Told(p)'
      BY <1>2, <2>3 DEF Told
    <2>5. QED
      BY <1>2, <2>2, <2>4, NothingUntoldIsTold DEF StreamInv
  <1>4. CASE Announced
    <2>1. PICK t \in Turns : poll' = [poll EXCEPT ![holder] = t]
      BY <1>4, TurnShape DEF Announced
    <2>2. holder \in Feed /\ holder' = NoFeed /\ todo = {} /\ todo' = {}
      BY <1>1, <1>4 DEF Announced
    <2>3. \A g \in Feed \ {holder} : poll'[g] = poll[g]
      BY <1>1, <2>1
    <2>4. StreamShape' /\ StreamTypeOK' /\ LockGuardsClients'
      BY <1>1, <1>2, <2>1, <2>2 DEF StreamInv, StreamShape, StreamTypeOK, LockGuardsClients
    <2>5. \A p \in clients, g \in Feed : Announces(g, p) => Announces(g, p)'
      BY <2>2, <2>3, StreamAssumption DEF Announces
    <2>6. \A p \in clients : Told(p) => Told(p)'
      BY <1>2, <2>5 DEF Told
    <2>7. QED
      BY <1>2, <2>4, <2>6, NothingUntoldIsTold DEF StreamInv
  <1>5. QED
    BY <1>3, <1>4

\* The page got the event, or its channel was full.
LEMMA DeliverStreamInv ==
  ASSUME StreamInv, NEW p \in Page, Deliver(p)
  PROVE  StreamInv'
  <1>1. /\ poll \in [Feed -> Turns] /\ clients \subseteq Page /\ todo \subseteq clients
        /\ channel \in [Page -> Seq(Event)] /\ missed \in [Page -> BOOLEAN]
    BY DEF StreamInv, StreamShape, StreamTypeOK, LockGuardsClients
  <1>2. UNCHANGED <<poll, polls, stored, holder, clients, closed, seen, bell, waking>>
        /\ todo' = todo \ {p}
    BY DEF Deliver, pollVars
  <1>3. holder \in Feed /\ poll[holder].pc = "announcing" /\ poll[holder].event \in Event
    BY <1>1, TurnShape DEF Deliver, StreamInv, StreamTypeOK, LockGuardsClients, At
  <1>4. \/ /\ channel' = [channel EXCEPT ![p] = Append(@, poll[holder].event)] /\ missed' = missed
           /\ Len(channel[p]) < Buffer
        \/ channel' = channel /\ missed' = [missed EXCEPT ![p] = TRUE]
    BY DEF Deliver
  <1> DEFINE e == poll[holder].event
             longer == Append(channel[p], e)
  <1>5. /\ longer \in Seq(Event) /\ Len(longer) = Len(channel[p]) + 1
        /\ Contains(longer, e) /\ \A d : Contains(channel[p], d) => Contains(longer, d)
    BY <1>1, <1>3, AppendContains
  <1>6. \A q \in Page :
          \/ channel'[q] = channel[q] /\ (missed[q] => missed'[q])
          \/ q = p /\ channel'[q] = longer /\ Len(channel[q]) < Buffer /\ missed' = missed
    BY <1>1, <1>4
  <1>7. channel'[p] = longer \/ missed'[p]
    BY <1>1, <1>4
  <1> HIDE DEF longer
  <1>8. channel' \in [Page -> Seq(Event)] /\ missed' \in [Page -> BOOLEAN]
    BY <1>1, <1>4, <1>5 DEF longer
  <1>9. \A q \in Page : Len(channel'[q]) <= Buffer
    BY <1>1, <1>5, <1>6, StreamAssumption DEF StreamInv, StreamTypeOK
  <1>10. StreamShape' /\ StreamTypeOK' /\ LockGuardsClients'
    BY <1>1, <1>2, <1>8, <1>9 DEF StreamInv, StreamShape, StreamTypeOK, LockGuardsClients, At
  <1>11. ASSUME NEW q \in clients
        PROVE  Told(q)'
    <2>1. Told(q)
      BY <1>11, NothingUntoldIsTold DEF StreamInv
    <2>2. /\ Contains(channel[q], "new") => Contains(channel'[q], "new")
          /\ missed[q] => missed'[q]
      BY <1>1, <1>5, <1>6
    <2>3. CASE q = p /\ Announces(holder, q)
      <3>1. Contains(channel'[q], "new") \/ missed'[q]
        BY <1>5, <1>7, <2>3 DEF Announces
      <3>2. QED
        BY <3>1 DEF Told
    <2>4. CASE ~ (q = p /\ Announces(holder, q))
      <3>1. \A f \in Feed : Announces(f, q) => Announces(f, q)'
        BY <1>2, <2>4 DEF Announces
      <3>2. QED
        BY <1>2, <2>1, <2>2, <3>1 DEF Told
    <2>5. QED
      BY <2>3, <2>4
  <1>12. QED
    BY <1>2, <1>10, <1>11, NothingUntoldIsTold DEF StreamInv

\* Pages come, which may have missed something, and go, while nobody broadcasts.
LEMMA ComeAndGoStreamInv ==
  ASSUME StreamInv, NEW p \in Page, Register(p) \/ Leave(p) \/ Drained(p)
  PROVE  StreamInv'
  <1>1. /\ clients \subseteq Page /\ todo \subseteq clients /\ closed \in [Page -> BOOLEAN]
        /\ channel \in [Page -> Seq(Event)] /\ missed \in [Page -> BOOLEAN]
        /\ \A q \in clients : Told(q) /\ ~ closed[q]
        /\ holder = NoFeed => todo = {}
    BY NothingUntoldIsTold DEF StreamInv, StreamShape, StreamTypeOK, LockGuardsClients
  <1>2. UNCHANGED <<poll, polls, stored, holder, todo, seen, bell, waking>>
    BY DEF Register, Leave, Drained, pollVars, pageVars
  <1>3. CASE Register(p)
    <2>1. /\ UNCHANGED <<channel, closed>> /\ clients' = clients \cup {p} /\ ~ closed[p]
          /\ missed' = [missed EXCEPT ![p] = @ \/ seen[p] < stored]
      BY <1>3 DEF Register
    <2>2. missed' \in [Page -> BOOLEAN] /\ \A q \in Page : missed[q] => missed'[q]
      BY <1>1, <2>1
    <2>3. StreamShape' /\ StreamTypeOK' /\ LockGuardsClients'
      BY <1>1, <1>2, <2>1, <2>2 DEF StreamInv, StreamShape, StreamTypeOK, LockGuardsClients, At
    <2>4. \A q \in clients : Told(q)'
      BY <1>1, <1>2, <2>1, <2>2 DEF Told, Announces
    <2>5. Told(p)'
      BY <1>1, <1>2, <2>1 DEF Told
    <2>6. QED
      BY <2>1, <2>3, <2>4, <2>5, NothingUntoldIsTold DEF StreamInv
  <1>4. CASE Leave(p)
    <2>1. /\ UNCHANGED <<channel, missed>> /\ clients' = clients \ {p} /\ todo = {}
          /\ closed' = [closed EXCEPT ![p] = TRUE]
      BY <1>1, <1>4 DEF Leave, pageVars
    <2>2. StreamShape' /\ StreamTypeOK' /\ LockGuardsClients'
      BY <1>1, <1>2, <2>1 DEF StreamInv, StreamShape, StreamTypeOK, LockGuardsClients, At
    <2>3. \A q \in clients' : Told(q)'
      BY <1>1, <1>2, <2>1 DEF Told, Announces
    <2>4. QED
      BY <2>2, <2>3, NothingUntoldIsTold DEF StreamInv
  <1>5. CASE Drained(p)
    <2>1. /\ UNCHANGED <<clients, missed>> /\ p \notin clients
          /\ closed' = [closed EXCEPT ![p] = FALSE] /\ channel' = [channel EXCEPT ![p] = << >>]
      BY <1>1, <1>5 DEF Drained, pageVars
    <2>2. channel' \in [Page -> Seq(Event)] /\ \A q \in Page : Len(channel'[q]) <= Buffer
      BY <1>1, <2>1, StreamAssumption DEF StreamInv, StreamTypeOK
    <2>3. StreamShape' /\ StreamTypeOK' /\ LockGuardsClients'
      BY <1>1, <1>2, <2>1, <2>2 DEF StreamInv, StreamShape, StreamTypeOK, LockGuardsClients, At
    <2>4. \A q \in clients : channel'[q] = channel[q]
      BY <1>1, <2>1
    <2>5. \A q \in clients' : Told(q)'
      BY <1>1, <1>2, <2>1, <2>4 DEF Told, Announces
    <2>6. QED
      BY <2>3, <2>5, NothingUntoldIsTold DEF StreamInv
  <1>6. QED
    BY <1>3, <1>4, <1>5

\* The page counts the event it hears.
LEMMA HearStreamInv ==
  ASSUME StreamInv, NEW p \in Page, Hear(p)
  PROVE  StreamInv'
  <1>1. /\ clients \subseteq Page /\ channel \in [Page -> Seq(Event)]
        /\ bell \in [Page -> BOOLEAN] /\ waking \in [Page -> BOOLEAN]
        /\ \A q \in clients : Told(q)
    BY NothingUntoldIsTold DEF StreamInv, StreamShape, StreamTypeOK
  <1>2. UNCHANGED <<poll, polls, stored, holder, todo, clients, closed, seen, missed>>
    BY DEF Hear, pollVars
  <1>3. /\ channel[p] \in Seq(Event) /\ channel[p] # << >>
        /\ channel' = [channel EXCEPT ![p] = Tail(channel[p])]
    BY <1>1 DEF Hear
  <1>4. /\ Tail(channel[p]) \in Seq(Event) /\ Len(Tail(channel[p])) = Len(channel[p]) - 1
        /\ \A d : Contains(channel[p], d) => Head(channel[p]) = d \/ Contains(Tail(channel[p]), d)
    BY <1>3, TailContains
  <1>5. /\ bell' \in [Page -> BOOLEAN] /\ waking' \in [Page -> BOOLEAN]
        /\ \A q \in Page : bell[q] => bell'[q]
        /\ Head(channel[p]) = "new" => bell'[p]
    BY <1>1 DEF Hear
  <1>6. channel' \in [Page -> Seq(Event)] /\ \A q \in Page : Len(channel'[q]) <= Buffer
    <2>1. Len(channel[p]) \in Nat
      BY <1>3
    <2>2. QED
      BY <1>1, <1>3, <1>4, <2>1, StreamAssumption DEF StreamInv, StreamTypeOK
  <1>7. StreamShape' /\ StreamTypeOK' /\ LockGuardsClients'
    BY <1>1, <1>2, <1>5, <1>6 DEF StreamInv, StreamShape, StreamTypeOK, LockGuardsClients, At
  <1>8. ASSUME NEW q \in clients
        PROVE  Told(q)'
    <2>1. Contains(channel[q], "new") => Contains(channel'[q], "new") \/ bell'[q]
      BY <1>1, <1>3, <1>4, <1>5
    <2>2. QED
      BY <1>1, <1>2, <1>5, <2>1 DEF Told, Announces
  <1>9. QED
    BY <1>2, <1>7, <1>8, NothingUntoldIsTold DEF StreamInv

\* When it wakes it fetches the list, or has missed it.
LEMMA WakeStreamInv ==
  ASSUME StreamInv, NEW p \in Page, Wake(p)
  PROVE  StreamInv'
  <1>1. /\ clients \subseteq Page /\ stored \in Nat /\ seen \in [Page -> Nat]
        /\ bell \in [Page -> BOOLEAN] /\ waking \in [Page -> BOOLEAN]
        /\ missed \in [Page -> BOOLEAN] /\ \A q \in clients : Told(q)
    BY NothingUntoldIsTold DEF StreamInv, StreamShape, StreamTypeOK
  <1>2. UNCHANGED <<poll, polls, stored, hubVars>> /\ waking' \in [Page -> BOOLEAN]
    BY <1>1 DEF Wake, AutoRefresh, pollVars
  <1>3. /\ seen' \in [Page -> Nat] /\ missed' \in [Page -> BOOLEAN] /\ bell' \in [Page -> BOOLEAN]
        /\ \/ UNCHANGED <<seen, missed, bell>>
           \/ missed'[p] \/ ~ (seen'[p] < stored)
        /\ \A q \in Page \ {p} : seen'[q] = seen[q] /\ missed'[q] = missed[q] /\ bell'[q] = bell[q]
    <2>1. CASE UNCHANGED <<seen, bell, missed>>
      BY <1>1, <2>1
    <2>2. ASSUME NEW typing \in BOOLEAN, AutoRefresh(p, typing)
          PROVE  /\ seen' \in [Page -> Nat] /\ missed' \in [Page -> BOOLEAN] /\ bell' \in [Page -> BOOLEAN]
                 /\ missed'[p] \/ ~ (seen'[p] < stored)
                 /\ \A q \in Page \ {p} :
                      seen'[q] = seen[q] /\ missed'[q] = missed[q] /\ bell'[q] = bell[q]
      <3>1. /\ bell' = [bell EXCEPT ![p] = FALSE]
            /\ \/ seen' = seen /\ missed' = [missed EXCEPT ![p] = TRUE]
               \/ seen' = [seen EXCEPT ![p] = stored] /\ missed' = [missed EXCEPT ![p] = FALSE]
        BY <2>2 DEF AutoRefresh
      <3>2. CASE seen' = seen /\ missed' = [missed EXCEPT ![p] = TRUE]
        BY <1>1, <3>1, <3>2
      <3>3. CASE seen' = [seen EXCEPT ![p] = stored] /\ missed' = [missed EXCEPT ![p] = FALSE]
        BY <1>1, <3>1, <3>3
      <3>4. QED
        BY <3>1, <3>2, <3>3
    <2>3. QED
      BY <2>1, <2>2 DEF Wake
  <1>4. StreamShape' /\ StreamTypeOK' /\ LockGuardsClients'
    BY <1>1, <1>2, <1>3 DEF StreamInv, StreamShape, StreamTypeOK, LockGuardsClients, At, hubVars
  <1>5. ASSUME NEW q \in clients
        PROVE  Told(q)'
    <2>1. CASE q = p
      BY <1>1, <1>2, <1>3, <2>1 DEF Told, Announces, hubVars
    <2>2. CASE q # p
      BY <1>1, <1>2, <1>3, <2>2 DEF Told, Announces, hubVars
    <2>3. QED
      BY <2>1, <2>2
  <1>6. QED
    BY <1>2, <1>4, <1>5, NothingUntoldIsTold DEF StreamInv, hubVars

LEMMA StepStreamInv == StreamInv /\ [StreamNext]_streamVars => StreamInv'
  <1>1. CASE UNCHANGED streamVars
    BY <1>1
    DEF StreamInv, StreamShape, StreamTypeOK, LockGuardsClients, NothingUntold, At,
        streamVars, pollVars, hubVars, pageVars
  <1>2. QED
    BY <1>1, TurnStreamInv, LockStreamInv, DeliverStreamInv, ComeAndGoStreamInv, HearStreamInv,
       WakeStreamInv
    DEF StreamNext

-----------------------------------------------------------------------------
(* The digest *)

\* Ages grow together and stop at the longest cooldown.
LEMMA AgesFacts ==
  ASSUME NEW f \in [Subscriber -> MailAges]
  PROVE  /\ Ages(f) \in [Subscriber -> MailAges]
         /\ \A u \in Subscriber : f[u] <= Ages(f)[u] /\ (Ages(f)[u] = -1 <=> f[u] = -1)
         /\ \A g \in [Subscriber -> MailAges], u \in Subscriber :
              f[u] <= g[u] => Ages(f)[u] <= Ages(g)[u]
  <1>1. Cooldown["weekly"] \in Nat \ {0}
    BY DigestAssumption
  <1>2. QED
    BY <1>1 DEF Ages, MailAges, MaxAge

LEMMA CooldownFacts ==
  /\ Cooldown["daily"] \in Nat \ {0} /\ Cooldown["weekly"] \in Nat \ {0}
  /\ Cooldown["daily"] <= Cooldown["weekly"]
  /\ -1 \in MailAges /\ 0 \in MailAges /\ MailAges \subseteq Int
  /\ \A u \in Subscriber : u # Nobody
  <1>1. Cooldown["daily"] \in Nat \ {0} /\ Cooldown["weekly"] \in Nat \ {0}
        /\ Cooldown["daily"] <= Cooldown["weekly"]
    BY DigestAssumption
  <1>2. QED
    BY <1>1, DigestAssumption DEF MailAges, MaxAge

LEMMA InitMailInv == MailInit => MailInv
  BY CooldownFacts
  DEF MailInit, MailInv, MailTypeOK, Frequency, ShortestCounts, MarkedIsNoYounger, ListedIsDue

LEMMA StepMailTypeOK == MailTypeOK /\ [MailNext]_mailVars => MailTypeOK'
  <1> SUFFICES ASSUME MailTypeOK, [MailNext]_mailVars PROVE MailTypeOK'
    OBVIOUS
  <1> USE CooldownFacts DEF MailTypeOK, Frequency
  <1>1. CASE MailStart \/ MailStop \/ MailTick \/ GenerateDigest \/ MailTickEnds
    BY <1>1
    DEF MailStart, MailStop, MailTick, GenerateDigest, MailTickEnds, ListEmailDigestDue, mailHistory
  <1>2. CASE MarkEmailDigestSent
    BY <1>2 DEF MarkEmailDigestSent
  <1>3. CASE MailTimePasses
    BY <1>3, AgesFacts DEF MailTimePasses
  <1>4. ASSUME NEW u \in Subscriber, SendMail(u) \/ SendFails(u)
        PROVE  MailTypeOK'
    BY <1>4 DEF SendMail, SendFails, mailHistory
  <1>5. ASSUME NEW u \in Subscriber, NEW f \in Frequency, PutEmailDigestPref(u, f)
        PROVE  MailTypeOK'
    BY <1>5 DEF PutEmailDigestPref, Sooner
  <1>6. CASE UNCHANGED mailVars
    BY <1>6 DEF mailVars
  <1>7. QED
    BY <1>1, <1>2, <1>3, <1>4, <1>5, <1>6 DEF MailNext

\* The steps that leave schedules and times alone.
LEMMA MailWorkerInv ==
  ASSUME MailInv, MailStart \/ MailStop \/ MailTick \/ GenerateDigest \/ MailTickEnds
  PROVE  ShortestCounts' /\ MarkedIsNoYounger' /\ ListedIsDue'
  <1>1. UNCHANGED <<freq, lastSent, received, shortest>>
    BY DEF MailStart, MailStop, MailTick, GenerateDigest, MailTickEnds, mailHistory
  <1>2. ShortestCounts'
    BY <1>1 DEF MailInv, ShortestCounts
  <1>3. CASE MailStop
    BY <1>1, <1>2, <1>3, CooldownFacts DEF MailStop, MailInv, MailTypeOK, MarkedIsNoYounger, ListedIsDue
  <1>4. CASE MailTick
    <2>1. addressee = Nobody /\ addressee' = Nobody /\ unmarked' = unmarked
      BY <1>4 DEF MailTick, mailHistory, MailInv, MailTypeOK
    <2>2. ASSUME NEW u \in ListEmailDigestDue
          PROVE  shortest[u] # "off" /\ (lastSent[u] = -1 \/ lastSent[u] >= Cooldown[shortest[u]])
      <3>1. /\ u \in Subscriber /\ freq[u] \in {"daily", "weekly"} /\ lastSent[u] \in Int
            /\ lastSent[u] = -1 \/ lastSent[u] >= Cooldown[freq[u]]
        BY <2>2, CooldownFacts DEF ListEmailDigestDue, MailInv, MailTypeOK, Frequency
      <3>2. shortest[u] \in {freq[u], "daily"}
        BY <3>1 DEF MailInv, ShortestCounts
      <3>3. QED
        BY <3>1, <3>2, CooldownFacts
    <2>3. recipients' = ListEmailDigestDue /\ Nobody \notin ListEmailDigestDue
      BY <1>4, CooldownFacts DEF MailTick, ListEmailDigestDue
    <2>4. QED
      BY <1>1, <1>2, <2>1, <2>2, <2>3 DEF MailInv, MarkedIsNoYounger, ListedIsDue
  <1>5. CASE MailStart \/ GenerateDigest \/ MailTickEnds
    <2>1. recipients' \subseteq recipients /\ addressee' = addressee /\ unmarked' = unmarked
      BY <1>5 DEF MailStart, GenerateDigest, MailTickEnds, mailHistory
    <2>2. QED
      BY <1>1, <1>2, <2>1 DEF MailInv, MarkedIsNoYounger, ListedIsDue
  <1>6. QED
    BY <1>3, <1>4, <1>5

\* A mail goes out, and its time is stored or not.
LEMMA MailSentInv ==
  ASSUME MailInv, MarkEmailDigestSent \/ \E u \in Subscriber : SendMail(u) \/ SendFails(u)
  PROVE  ShortestCounts' /\ MarkedIsNoYounger' /\ ListedIsDue'
  <1> USE CooldownFacts DEF MailInv, MailTypeOK
  <1>1. ASSUME NEW u \in Subscriber, SendMail(u)
        PROVE  ShortestCounts' /\ MarkedIsNoYounger' /\ ListedIsDue'
    <2>1. /\ UNCHANGED <<freq, lastSent>> /\ addressee = Nobody /\ addressee' = u /\ u # Nobody
          /\ recipients' = recipients \ {u} /\ unmarked' = unmarked \ {u}
      BY <1>1 DEF SendMail
    <2>2. /\ received'[u] = 0 /\ shortest'[u] = freq[u]
          /\ \A v \in Subscriber \ {u} : received'[v] = received[v] /\ shortest'[v] = shortest[v]
      BY <1>1 DEF SendMail
    <2>3. ShortestCounts'
      BY <2>1, <2>2 DEF ShortestCounts
    <2>4. MarkedIsNoYounger'
      BY <2>1, <2>2 DEF MarkedIsNoYounger
    <2>5. ListedIsDue'
      BY <2>1, <2>2 DEF ListedIsDue
    <2>6. QED
      BY <2>3, <2>4, <2>5
  <1>2. ASSUME NEW u \in Subscriber, SendFails(u)
        PROVE  ShortestCounts' /\ MarkedIsNoYounger' /\ ListedIsDue'
    BY <1>2 DEF SendFails, mailHistory, ShortestCounts, MarkedIsNoYounger, ListedIsDue
  <1>3. CASE MarkEmailDigestSent
    <2>1. /\ UNCHANGED <<freq, recipients, received, shortest>> /\ addressee' = Nobody
          /\ addressee \in Subscriber /\ addressee \notin recipients
      BY <1>3 DEF MarkEmailDigestSent, ListedIsDue
    <2>2. \/ lastSent' = [lastSent EXCEPT ![addressee] = 0] /\ unmarked' = unmarked
          \/ lastSent' = lastSent /\ unmarked' = unmarked \cup {addressee}
      BY <1>3 DEF MarkEmailDigestSent
    <2>3. ShortestCounts'
      BY <2>1 DEF ShortestCounts
    <2>4. ListedIsDue'
      BY <2>1, <2>2 DEF ListedIsDue
    <2>5. MarkedIsNoYounger'
      <3>1. SUFFICES ASSUME NEW v \in Subscriber, v \notin unmarked', received[v] # -1
                     PROVE  lastSent'[v] # -1 /\ lastSent'[v] <= received[v]
        BY <2>1 DEF MarkedIsNoYounger
      <3>2. CASE v = addressee
        <4>1. lastSent'[v] = 0 /\ received[v] \in MailAges
          BY <2>1, <2>2, <3>1, <3>2
        <4>2. QED
          BY <3>1, <4>1 DEF MailAges
      <3>3. CASE v # addressee
        BY <2>1, <2>2, <3>1, <3>3 DEF MarkedIsNoYounger
      <3>4. QED
        BY <3>2, <3>3
    <2>6. QED
      BY <2>3, <2>4, <2>5
  <1>4. QED
    BY <1>1, <1>2, <1>3

LEMMA MailOthersInv ==
  ASSUME MailInv,
         MailTimePasses \/ \E u \in Subscriber, f \in Frequency : PutEmailDigestPref(u, f)
  PROVE  ShortestCounts' /\ MarkedIsNoYounger' /\ ListedIsDue'
  <1> USE CooldownFacts DEF MailInv, MailTypeOK
  <1>1. CASE MailTimePasses
    <2>1. UNCHANGED <<freq, recipients, addressee, unmarked, shortest>>
          /\ lastSent' = Ages(lastSent) /\ received' = Ages(received)
      BY <1>1 DEF MailTimePasses
    <2>2. \A u \in Subscriber :
            /\ lastSent[u] \in Int /\ lastSent'[u] \in Int
            /\ lastSent[u] <= lastSent'[u] /\ (lastSent'[u] = -1 <=> lastSent[u] = -1)
            /\ (received'[u] = -1 <=> received[u] = -1)
            /\ lastSent[u] <= received[u] => lastSent'[u] <= received'[u]
      BY <2>1, AgesFacts
    <2>3. MarkedIsNoYounger'
      BY <2>1, <2>2 DEF MarkedIsNoYounger
    <2>4. \A u \in recipients : Cooldown[shortest[u]] \in Int
      <3>1. TAKE u \in recipients
      <3>2. shortest[u] = "daily" \/ shortest[u] = "weekly"
        BY DEF ListedIsDue, Frequency
      <3>3. QED
        BY <3>2
    <2>5. ListedIsDue'
      BY <2>1, <2>2, <2>4 DEF ListedIsDue
    <2>6. QED
      BY <2>1, <2>3, <2>5 DEF ShortestCounts
  <1>2. ASSUME NEW u \in Subscriber, NEW f \in Frequency, PutEmailDigestPref(u, f)
        PROVE  ShortestCounts' /\ MarkedIsNoYounger' /\ ListedIsDue'
    <2>1. /\ UNCHANGED <<lastSent, recipients, addressee, received, unmarked>>
          /\ freq' = [freq EXCEPT ![u] = f] /\ shortest' = [shortest EXCEPT ![u] = Sooner(shortest[u], f)]
      BY <1>2 DEF PutEmailDigestPref
    <2>2. /\ freq'[u] = f /\ shortest'[u] = Sooner(shortest[u], f)
          /\ \A v \in Subscriber \ {u} : freq'[v] = freq[v] /\ shortest'[v] = shortest[v]
      BY <2>1
    <2>3. ShortestCounts'
      BY <2>2 DEF ShortestCounts, Sooner, Frequency
    <2>4. ListedIsDue'
      <3>1. SUFFICES ASSUME NEW v \in recipients
                     PROVE  /\ shortest'[v] # "off"
                            /\ lastSent[v] = -1 \/ lastSent[v] >= Cooldown[shortest'[v]]
        BY <2>1 DEF ListedIsDue
      <3>2. shortest[v] \in {"daily", "weekly"} /\ lastSent[v] \in Int
            /\ (lastSent[v] = -1 \/ lastSent[v] >= Cooldown[shortest[v]])
        BY DEF ListedIsDue, Frequency
      <3>3. shortest'[v] = shortest[v] \/ shortest'[v] = "daily"
        BY <2>2, <3>2 DEF Sooner
      <3>4. QED
        BY <3>2, <3>3
    <2>5. QED
      BY <2>1, <2>3, <2>4 DEF MarkedIsNoYounger
  <1>3. QED
    BY <1>1, <1>2

LEMMA StepMailInv == MailInv /\ [MailNext]_mailVars => MailInv'
  <1>1. CASE UNCHANGED mailVars
    BY <1>1 DEF MailInv, MailTypeOK, ShortestCounts, MarkedIsNoYounger, ListedIsDue, mailVars
  <1>2. QED
    BY <1>1, StepMailTypeOK, MailWorkerInv, MailSentInv, MailOthersInv DEF MailNext, MailInv

\* Who gets a mail was on the list, so the last one is a cooldown old.
LEMMA MailStepSpaced ==
  ASSUME MailInv, [MailNext]_mailVars, NEW u \in Subscriber,
         addressee # u, addressee' = u, received[u] # -1, u \notin unmarked
  PROVE  received[u] >= Cooldown[shortest[u]]
  <1>1. SendMail(u)
    BY CooldownFacts
    DEF MailNext, mailVars, MailStart, MailStop, MailTick, GenerateDigest, MarkEmailDigestSent,
        MailTickEnds, MailTimePasses, SendMail, SendFails, PutEmailDigestPref
  <1>2. lastSent[u] >= Cooldown[shortest[u]] /\ lastSent[u] <= received[u]
    BY <1>1 DEF SendMail, MailInv, MarkedIsNoYounger, ListedIsDue
  <1>3. lastSent[u] \in Int /\ received[u] \in Int
    BY <1>1, CooldownFacts DEF SendMail, MailInv, MailTypeOK
  <1>4. shortest[u] = "daily" \/ shortest[u] = "weekly"
    BY <1>1 DEF SendMail, MailInv, MailTypeOK, ListedIsDue, Frequency
  <1>5. QED
    BY <1>2, <1>3, <1>4, CooldownFacts

-----------------------------------------------------------------------------
(* The patch day briefs *)

LEMMA CalendarShape ==
  ASSUME NEW t \in Calendar
  PROVE  /\ t = [first |-> t.first, month |-> t.month, day |-> t.day]
         /\ t.first \in 0..6 /\ t.month \in 1..12 /\ t.day \in 1..31
  <1>1. t.first \in 0..6 /\ t.month \in Months /\ t.day \in Days
    BY DEF Calendar
  <1>2. t = [first |-> t.first, month |-> t.month, day |-> t.day]
    BY DEF Calendar
  <1>3. Months \subseteq 1..12 /\ Days \subseteq 1..31
    BY PatchAssumption
  <1>4. QED
    BY <1>1, <1>2, <1>3

\* Two days of a month that are the second Tuesday are one day, and so are two
\* that are the third.
LEMMA PatchDayIsOne ==
  ASSUME NEW v, NEW s \in Calendar, NEW t \in Calendar, DueToday(v, s), DueToday(v, t),
         s.first = t.first, s.month = t.month
  PROVE  s = t
  <1>1. /\ s = [first |-> s.first, month |-> s.month, day |-> s.day]
        /\ t = [first |-> t.first, month |-> t.month, day |-> t.day]
        /\ s.first \in Int /\ s.day \in Int /\ t.day \in Int
    BY CalendarShape
  <1>2. /\ (s.first + s.day - 1) % 7 = 2 /\ (s.first + t.day - 1) % 7 = 2
        /\ \/ s.day \in 8..14 /\ t.day \in 8..14
           \/ s.day \in 15..21 /\ t.day \in 15..21
    BY <1>1 DEF DueToday, isSecondTuesday, isOracleCPUDay, Weekday
  <1>3. s.day = t.day
    BY <1>1, <1>2
  <1>4. QED
    BY <1>1, <1>3

LEMMA WholeWeeks ==
  ASSUME NEW a \in Nat, NEW b \in Nat, a % 7 = 2, b <= a, a < b + 21
  PROVE  b % 7 = 2 <=> b = a \/ b = a - 7 \/ b = a - 14
  OBVIOUS

LEMMA TwoAndThree ==
  ASSUME NEW n \in Int
  PROVE  Cardinality({n - 7, n}) = 2 /\ Cardinality({n - 14, n - 7, n}) = 3
  <1> DEFINE one == {n}
             two == one \cup {n - 7}
             three == two \cup {n - 14}
  <1>1. n - 7 \notin one /\ n - 14 \notin two
    OBVIOUS
  <1>2. two = {n - 7, n} /\ three = {n - 14, n - 7, n}
    OBVIOUS
  <1>3. IsFiniteSet(one) /\ Cardinality(one) = 1
    BY FS_Singleton
  <1> HIDE DEF one
  <1>4. IsFiniteSet(two) /\ Cardinality(two) = Cardinality(one) + 1
    BY <1>1, <1>3, FS_AddElement
  <1> HIDE DEF two
  <1>5. Cardinality(three) = Cardinality(two) + 1
    BY <1>1, <1>4, FS_AddElement
  <1>6. QED
    BY <1>2, <1>3, <1>4, <1>5

\* Of the days up to a Tuesday those are Tuesdays that come whole weeks before.
LEMMA TuesdaysCounted ==
  ASSUME NEW t \in Calendar, Weekday(t) = 2
  PROVE  /\ t.day \in 8..14 => Tuesdays(t) = 2
         /\ t.day \in 15..21 => Tuesdays(t) = 3
  <1> DEFINE T == {d \in 1..t.day : Weekday([t EXCEPT !.day = d]) = 2}
  <1>1. t.first \in 0..6 /\ t.day \in Int /\ (t.first + t.day - 1) % 7 = 2
    BY CalendarShape DEF Weekday
  <1>2. \A d \in 1..t.day : d \in T <=> (t.first + d - 1) % 7 = 2
    BY DEF Calendar, Weekday
  <1>3. ASSUME NEW d \in 1..t.day, t.day <= 21
        PROVE  (t.first + d - 1) % 7 = 2 <=> d = t.day - 14 \/ d = t.day - 7 \/ d = t.day
    <2>1. t.first + t.day - 1 \in Nat /\ t.first + d - 1 \in Nat
      BY <1>1
    <2>2. (t.first + d - 1) % 7 = 2 <=>
            \/ t.first + d - 1 = t.first + t.day - 1
            \/ t.first + d - 1 = (t.first + t.day - 1) - 7
            \/ t.first + d - 1 = (t.first + t.day - 1) - 14
      BY <1>1, <1>3, <2>1, WholeWeeks
    <2>3. QED
      BY <1>1, <2>2
  <1> HIDE DEF T
  <1>4. \A d \in T : d \in 1..t.day
    BY DEF T
  <1>5. ASSUME t.day \in 8..14
        PROVE  Cardinality(T) = 2
    <2>1. \A d : d \in T <=> d = t.day - 7 \/ d = t.day
      BY <1>1, <1>2, <1>3, <1>4, <1>5
    <2>2. T = {t.day - 7, t.day}
      BY <2>1
    <2>3. QED
      BY <1>1, <2>2, TwoAndThree
  <1>6. ASSUME t.day \in 15..21
        PROVE  Cardinality(T) = 3
    <2>1. \A d : d \in T <=> d = t.day - 14 \/ d = t.day - 7 \/ d = t.day
      BY <1>1, <1>2, <1>3, <1>4, <1>6
    <2>2. T = {t.day - 14, t.day - 7, t.day}
      BY <2>1
    <2>3. QED
      BY <1>1, <2>2, TwoAndThree
  <1>7. QED
    BY <1>5, <1>6 DEF Tuesdays, T

LEMMA InitPatchInv == PatchInit => PatchInv
  <1>1. SUFFICES ASSUME PatchInit PROVE PatchInv
    OBVIOUS
  <1>2. PatchTypeOK
    BY <1>1, PatchAssumption DEF PatchInit, PatchTypeOK
  <1>3. DueWhenBegun
    BY <1>1 DEF PatchInit, DueWhenBegun, SameMonth
  <1>4. \A v \in Vendors : MisreadOf(v) = {} /\ vendor # v /\ writes[v] = 0
    BY <1>1, PatchAssumption DEF PatchInit, MisreadOf
  <1>5. WritingIsNew
    BY <1>1, <1>4, FS_EmptySet DEF PatchInit, WritingIsNew
  <1>6. QED
    BY <1>2, <1>3, <1>5 DEF PatchInv

LEMMA StepPatchTypeOK == PatchTypeOK /\ [PatchNext]_patchVars => PatchTypeOK'
  <1> SUFFICES ASSUME PatchTypeOK, [PatchNext]_patchVars PROVE PatchTypeOK'
    OBVIOUS
  <1> USE PatchAssumption DEF PatchTypeOK
  <1>1. CASE PatchTick \/ BriefFails \/ PatchRestart
    BY <1>1 DEF PatchTick, BriefFails, PatchRestart
  <1>2. CASE PutPatchBrief
    <2>1. vendor \in Vendors
      BY <1>2 DEF PutPatchBrief
    <2>2. <<vendor, tickDay>> \in Vendors \X Calendar /\ writes[vendor] + 1 \in 0..MaxWrites
      BY <1>2, <2>1 DEF PutPatchBrief
    <2>3. QED
      BY <1>2, <2>1, <2>2 DEF PutPatchBrief
  <1>3. CASE Midnight
    BY <1>3 DEF Midnight, Calendar
  <1>4. ASSUME NEW v \in Vendors, GetPatchBrief(v)
        PROVE  PatchTypeOK'
    BY <1>4 DEF GetPatchBrief
  <1>5. CASE UNCHANGED patchVars
    BY <1>5 DEF patchVars
  <1>6. QED
    BY <1>1, <1>2, <1>3, <1>4, <1>5 DEF PatchNext

LEMMA StepDueWhenBegun == PatchInv /\ [PatchNext]_patchVars => DueWhenBegun'
  <1> SUFFICES ASSUME PatchInv, [PatchNext]_patchVars PROVE DueWhenBegun'
    OBVIOUS
  <1> USE PatchAssumption DEF PatchInv, PatchTypeOK, DueWhenBegun, SameMonth
  <1>1. CASE PatchTick
    BY <1>1 DEF PatchTick
  <1>2. CASE BriefFails \/ PatchRestart \/ PutPatchBrief
    BY <1>2 DEF BriefFails, PatchRestart, PutPatchBrief
  <1>3. CASE Midnight
    <2>1. today'.first = today.first /\ today'.month = today.month
      BY <1>3 DEF Midnight, Calendar
    <2>2. QED
      BY <1>3, <2>1 DEF Midnight
  <1>4. ASSUME NEW v \in Vendors, GetPatchBrief(v)
        PROVE  DueWhenBegun'
    BY <1>4 DEF GetPatchBrief
  <1>5. CASE UNCHANGED patchVars
    BY <1>5 DEF patchVars
  <1>6. QED
    BY <1>1, <1>2, <1>3, <1>4, <1>5 DEF PatchNext

\* A brief there is is the one of the day of this tick.
LEMMA BriefIsOfThisTick ==
  ASSUME PatchInv, NEW v \in Vendors, DueToday(v, tickDay), NEW b \in briefs, b[1] = v
  PROVE  b = <<v, tickDay>>
  <1>1. b[2] \in Calendar /\ tickDay \in Calendar /\ b = <<b[1], b[2]>>
    BY DEF PatchInv, PatchTypeOK
  <1>2. DueToday(v, b[2]) /\ b[2].first = tickDay.first /\ b[2].month = tickDay.month
    BY DEF PatchInv, DueWhenBegun, SameMonth
  <1>3. b[2] = tickDay
    BY <1>1, <1>2, PatchDayIsOne
  <1>4. QED
    BY <1>1, <1>3

LEMMA MisreadFinite ==
  ASSUME IsFiniteSet(misread), NEW v
  PROVE  IsFiniteSet(MisreadOf(v)) /\ Cardinality(MisreadOf(v)) \in Nat
  BY FS_Subset, FS_CardinalityType DEF MisreadOf

\* A row that is not found is not there, and then none was written, or is
\* misread, for the first time.
LEMMA GetBriefNew ==
  ASSUME PatchInv, NEW v \in Vendors, GetPatchBrief(v)
  PROVE  WritingIsNew'
  <1> DEFINE b == <<v, tickDay>>
  <1>1. /\ writes \in [Vendors -> 0..MaxWrites] /\ IsFiniteSet(misread) /\ vendor = Asleep
        /\ Asleep \notin Vendors /\ DueToday(v, tickDay) /\ UNCHANGED <<briefs, writes>>
        /\ \A w \in Vendors : /\ writes[w] > 0 => \E x \in briefs : x[1] = w
                              /\ writes[w] <= Cardinality(MisreadOf(w)) + 1
    BY PatchAssumption DEF GetPatchBrief, PatchInv, PatchTypeOK, DueWhenBegun, WritingIsNew
  <1>2. CASE UNCHANGED <<vendor, misread>>
    BY <1>1, <1>2 DEF PatchInv, WritingIsNew, MisreadOf
  <1>3. CASE b \notin briefs /\ vendor' = v /\ misread' = misread
    <2>1. writes[v] = 0
      BY <1>1, <1>3, BriefIsOfThisTick
    <2>2. \A w \in Vendors : MisreadOf(w)' = MisreadOf(w)
      BY <1>3 DEF MisreadOf
    <2>3. \A w \in Vendors : Cardinality(MisreadOf(w)) \in Nat
      BY <1>1, MisreadFinite
    <2>4. QED
      BY <1>1, <1>3, <2>1, <2>2, <2>3 DEF WritingIsNew
  <1>4. CASE b \notin misread /\ vendor' = v /\ misread' = misread \cup {b}
    <2>1. MisreadOf(v)' = MisreadOf(v) \cup {b} /\ b \notin MisreadOf(v)
      BY <1>4 DEF MisreadOf
    <2>2. \A w \in Vendors \ {v} : MisreadOf(w)' = MisreadOf(w)
      BY <1>4 DEF MisreadOf
    <2>3. Cardinality(MisreadOf(v)') = Cardinality(MisreadOf(v)) + 1
      BY <1>1, <2>1, MisreadFinite, FS_AddElement
    <2>4. IsFiniteSet(misread')
      BY <1>1, <1>4, FS_AddElement
    <2>5. \A w \in Vendors : Cardinality(MisreadOf(w)) \in Nat
      BY <1>1, MisreadFinite
    <2>6. QED
      BY <1>1, <1>4, <2>2, <2>3, <2>4, <2>5 DEF WritingIsNew
  <1>5. QED
    BY <1>2, <1>3, <1>4 DEF GetPatchBrief

LEMMA StepWritingIsNew == PatchInv /\ [PatchNext]_patchVars => WritingIsNew'
  <1> SUFFICES ASSUME PatchInv, [PatchNext]_patchVars PROVE WritingIsNew'
    OBVIOUS
  <1>1. CASE \E v \in Vendors : GetPatchBrief(v)
    BY <1>1, GetBriefNew
  <1>2. /\ writes \in [Vendors -> 0..MaxWrites] /\ IsFiniteSet(misread) /\ Asleep \notin Vendors
        /\ vendor \in Vendors \cup {Asleep}
        /\ \A w \in Vendors : Cardinality(MisreadOf(w)) \in Nat
    BY MisreadFinite, PatchAssumption DEF PatchInv, PatchTypeOK, WritingIsNew
  <1>3. misread' = misread => \A w \in Vendors : MisreadOf(w)' = MisreadOf(w)
    BY DEF MisreadOf
  <1>4. CASE UNCHANGED <<vendor, briefs, writes, misread>>
    BY <1>2, <1>3, <1>4 DEF PatchInv, WritingIsNew
  <1>5. CASE BriefFails \/ PatchRestart
    BY <1>2, <1>3, <1>5 DEF BriefFails, PatchRestart, PatchInv, WritingIsNew
  <1>6. CASE PutPatchBrief
    <2>1. vendor \in Vendors /\ vendor' = Asleep /\ misread' = misread
      BY <1>2, <1>6 DEF PutPatchBrief
    <2>2. /\ writes'[vendor] = writes[vendor] + 1
          /\ \A w \in Vendors \ {vendor} : writes'[w] = writes[w]
      BY <1>2, <1>6, <2>1 DEF PutPatchBrief
    <2>3. briefs \subseteq briefs' /\ <<vendor, tickDay>> \in briefs' /\ <<vendor, tickDay>>[1] = vendor
      BY <1>6 DEF PutPatchBrief
    <2>4. QED
      BY <1>2, <1>3, <2>1, <2>2, <2>3 DEF PatchInv, WritingIsNew
  <1>7. QED
    BY <1>1, <1>4, <1>5, <1>6 DEF PatchNext, PatchTick, Midnight, patchVars

LEMMA StepPatchInv == PatchInv /\ [PatchNext]_patchVars => PatchInv'
  BY StepPatchTypeOK, StepDueWhenBegun, StepWritingIsNew DEF PatchInv

LEMMA BriefsAreRight == PatchInv => BriefsOnPatchDays /\ WrittenOnce
  <1> SUFFICES ASSUME PatchInv PROVE BriefsOnPatchDays /\ WrittenOnce
    OBVIOUS
  <1>1. ASSUME NEW b \in briefs
        PROVE  /\ Weekday(b[2]) = 2
               /\ Tuesdays(b[2]) = IF b[1] \in SecondTuesday THEN 2 ELSE 3
               /\ b[1] \in QuarterTuesday => b[2].month % 3 = 1
    <2>1. b[2] \in Calendar /\ DueToday(b[1], b[2])
      BY DEF PatchInv, PatchTypeOK, DueWhenBegun
    <2>2. b[2].day \in Int /\ b[2].month \in Int
      BY <2>1, CalendarShape
    <2>3. CASE b[1] \in SecondTuesday
      BY <2>1, <2>2, <2>3, TuesdaysCounted, PatchAssumption DEF DueToday, isSecondTuesday
    <2>4. CASE b[1] \notin SecondTuesday
      BY <2>1, <2>2, <2>4, TuesdaysCounted DEF DueToday, isOracleCPUDay
    <2>5. QED
      BY <2>3, <2>4
  <1>2. ASSUME NEW b \in briefs, NEW c \in briefs, b[1] = c[1]
        PROVE  b[2] = c[2]
    <2>1. /\ b[2] \in Calendar /\ DueToday(b[1], b[2]) /\ c[2] \in Calendar /\ DueToday(c[1], c[2])
          /\ b[2].first = c[2].first /\ b[2].month = c[2].month
      BY DEF PatchInv, PatchTypeOK, DueWhenBegun, SameMonth
    <2>2. QED
      BY <1>2, <2>1, PatchDayIsOne
  <1>3. WrittenOnce
    <2>1. SUFFICES ASSUME NEW v \in Vendors
                   PROVE  writes[v] <= 1 + Cardinality(MisreadOf(v))
      BY DEF WrittenOnce, MisreadOf
    <2>2. Cardinality(MisreadOf(v)) \in Nat /\ writes[v] \in Nat
      BY MisreadFinite DEF PatchInv, PatchTypeOK, WritingIsNew
    <2>3. QED
      BY <2>2 DEF PatchInv, WritingIsNew
  <1>4. QED
    BY <1>1, <1>2, <1>3 DEF BriefsOnPatchDays

-----------------------------------------------------------------------------
(* The triage *)

LEMMA InitTriageInv == TriageInit => TriageInv
  BY DEF TriageInit, TriageInv, TriageTypeOK, PaidIsKept

LEMMA StepTriageInv == TriageInv /\ [TriageNext]_triageVars => TriageInv'
  <1> SUFFICES ASSUME TriageInv, [TriageNext]_triageVars PROVE TriageInv'
    OBVIOUS
  <1>1. -1 \notin Story
    BY TriageAssumption
  <1> USE <1>1 DEF TriageInv, TriageTypeOK, PaidIsKept
  <1>2. CASE TriageTick
    <2>1. awaiting' \subseteq fresh \ triage /\ UNCHANGED <<fresh, triage, written, paid>>
      BY <1>2 DEF TriageTick, Candidates
    <2>2. written = -1 /\ paid \subseteq triage
      BY <1>2 DEF TriageTick
    <2>3. QED
      BY <2>1, <2>2
  <1>3. CASE PutArticleTriage
    BY <1>3 DEF PutArticleTriage
  <1>4. CASE TriageRestart
    BY <1>4 DEF TriageRestart
  <1>5. ASSUME NEW s \in Story, TriageArticle(s) \/ TriageRefused(s)
        PROVE  TriageInv'
    BY <1>5 DEF TriageArticle, TriageRefused
  <1>6. ASSUME NEW s \in Story, StoryArrives(s) \/ StoryLeaves(s)
        PROVE  TriageInv'
    BY <1>6 DEF StoryArrives, StoryLeaves
  <1>7. CASE UNCHANGED triageVars
    BY <1>7 DEF triageVars
  <1>8. QED
    BY <1>2, <1>3, <1>4, <1>5, <1>6, <1>7 DEF TriageNext

LEMMA TriageStepPaysOnce ==
  ASSUME TriageInv, [TriageNext]_triageVars, NEW s \in paid, written' = s
  PROVE  written = s
  BY TriageAssumption
  DEF TriageInv, TriageTypeOK, PaidIsKept, TriageNext, triageVars, TriageTick, PutArticleTriage,
      TriageRestart, TriageArticle, TriageRefused, StoryArrives, StoryLeaves

-----------------------------------------------------------------------------
(* The deduplication *)

LEMMA InitDedup == DedupInit => DedupInv
  <1> SUFFICES ASSUME DedupInit PROVE DedupInv
    OBVIOUS
  <1>1. DOMAIN dup = {} /\ batch = {} /\ groups = {} /\ dedupPc = "idle"
    BY DEF DedupInit
  <1>2. DedupTypeOK /\ MarksOfAnAnswer /\ AskedIsShown
    BY <1>1 DEF DedupTypeOK, Stored, MarksOfAnAnswer, AskedIsShown
  <1>3. PrimariesAreShown /\ EverythingFiled
    BY <1>1 DEF PrimariesAreShown, GroupsApart, EverythingFiled, Stored
  <1>4. QED
    BY <1>2, <1>3 DEF DedupInv

LEMMA StepDedupType == DedupInv /\ [DedupNext]_dedupVars => DedupTypeOK'
  <1> SUFFICES ASSUME DedupInv, [DedupNext]_dedupVars PROVE DedupTypeOK'
    OBVIOUS
  <1>0. DedupTypeOK /\ MarksOfAnAnswer
    BY DEF DedupInv
  <1> USE <1>0 DEF DedupTypeOK, Stored, MarksOfAnAnswer
  <1>1. CASE DedupTick
    BY <1>1 DEF DedupTick, ArticlesForDedup, Showing
  <1>2. CASE ClusterArticles
    BY <1>2 DEF ClusterArticles, Answers
  <1>3. CASE DedupEnds
    BY <1>3 DEF DedupEnds
  <1>4. ASSUME NEW p \in groups, MarkItem(p)
        PROVE  DedupTypeOK'
    <2>1. CASE dup' = dup
      BY <1>4, <2>1 DEF MarkItem
    <2>2. CASE {p[1], p[2]} \subseteq DOMAIN dup /\ dup' = [dup EXCEPT ![p[2]] = p[1]]
      <3>1. DOMAIN dup' = DOMAIN dup /\ \A i \in DOMAIN dup : dup'[i] \in {dup[i], p[1]}
        BY <2>2
      <3>2. QED
        BY <1>4, <2>2, <3>1 DEF MarkItem
    <2>3. QED
      BY <1>4, <2>1, <2>2 DEF MarkItem
  <1>5. ASSUME NEW i \in Item, StoreItem(i)
        PROVE  DedupTypeOK'
    BY <1>5 DEF StoreItem
  <1>6. ASSUME NEW i \in Item, PurgeItem(i)
        PROVE  DedupTypeOK'
    BY <1>6 DEF PurgeItem
  <1>7. CASE UNCHANGED dedupVars
    BY <1>7 DEF dedupVars
  <1>8. QED
    BY <1>1, <1>2, <1>3, <1>4, <1>5, <1>6, <1>7 DEF DedupNext

\* Nobody hides an article while the model is asked about it, and what is stored
\* meanwhile has an id of its own.
LEMMA StepAsked == DedupInv /\ [DedupNext]_dedupVars => MarksOfAnAnswer' /\ AskedIsShown'
  <1> SUFFICES ASSUME DedupInv, [DedupNext]_dedupVars PROVE MarksOfAnAnswer' /\ AskedIsShown'
    OBVIOUS
  <1>0. DedupTypeOK /\ MarksOfAnAnswer /\ AskedIsShown
    BY DEF DedupInv
  <1> USE <1>0 DEF DedupTypeOK, Stored, Showing, MarksOfAnAnswer, AskedIsShown
  <1>1. CASE DedupTick
    BY <1>1 DEF DedupTick, ArticlesForDedup
  <1>2. CASE ClusterArticles \/ DedupEnds \/ \E p \in groups : MarkItem(p)
    BY <1>2 DEF ClusterArticles, DedupEnds, MarkItem
  <1>3. ASSUME NEW i \in Item, StoreItem(i) \/ PurgeItem(i)
        PROVE  MarksOfAnAnswer' /\ AskedIsShown'
    BY <1>3 DEF StoreItem, PurgeItem
  <1>4. CASE UNCHANGED dedupVars
    BY <1>4 DEF dedupVars
  <1>5. QED
    BY <1>1, <1>2, <1>3, <1>4 DEF DedupNext

LEMMA StepPrimaries ==
  ASSUME DedupInv, [DedupNext]_dedupVars, Apart
  PROVE  PrimariesAreShown'
  <1>0. DedupTypeOK /\ MarksOfAnAnswer /\ AskedIsShown /\ PrimariesAreShown
    BY DEF DedupInv
  <1> USE <1>0 DEF DedupTypeOK, Stored, Showing, MarksOfAnAnswer, AskedIsShown,
                   PrimariesAreShown, GroupsApart
  <1>1. CASE DedupTick \/ DedupEnds
    BY <1>1 DEF DedupTick, DedupEnds
  <1>2. CASE ClusterArticles
    BY <1>2 DEF ClusterArticles, Answers
  <1>3. ASSUME NEW p \in groups, MarkItem(p)
        PROVE  PrimariesAreShown'
    <2>1. groups' \subseteq groups /\ DOMAIN dup' = DOMAIN dup
      BY <1>3 DEF MarkItem
    <2>2. ASSUME NEW q \in groups, q[1] \in DOMAIN dup
          PROVE  dup'[q[1]] = NULL
      BY <1>3, <2>2 DEF MarkItem
    <2>3. QED
      BY <2>1, <2>2
  <1>4. ASSUME NEW i \in Item, StoreItem(i) \/ PurgeItem(i)
        PROVE  PrimariesAreShown'
    <2>1. groups' = groups
      BY <1>4 DEF StoreItem, PurgeItem
    <2>2. ASSUME NEW q \in groups, q[1] \in DOMAIN dup'
          PROVE  dup'[q[1]] = NULL
      <3>1. q[1] \in batch
        OBVIOUS
      <3>2. QED
        BY <1>4, <2>2, <3>1 DEF StoreItem, PurgeItem
    <2>3. QED
      BY <2>1, <2>2
  <1>5. CASE UNCHANGED dedupVars
    BY <1>5 DEF dedupVars
  <1>6. QED
    BY <1>1, <1>2, <1>3, <1>4, <1>5 DEF DedupNext

\* A set of articles closed under duplicate_of after a step was closed before it.
LEMMA StepFiled ==
  ASSUME DedupInv, [DedupNext]_dedupVars, Apart
  PROVE  EverythingFiled'
  <1>0. DedupTypeOK /\ PrimariesAreShown /\ EverythingFiled /\ NULL \notin Item
    BY DedupAssumption DEF DedupInv
  <1> USE DEF Stored
  <1>1. SUFFICES ASSUME NEW S \in SUBSET DOMAIN dup', S # {}, \A i \in S : dup'[i] \in S
                 PROVE  FALSE
    BY DEF EverythingFiled
  <1>2. ASSUME NEW T \in SUBSET DOMAIN dup, T # {}
        PROVE  \E i \in T : dup[i] \notin T
    BY <1>0, <1>2 DEF EverythingFiled
  <1>3. CASE dup' = dup
    BY <1>1, <1>2, <1>3
  <1>4. ASSUME NEW p \in groups, MarkItem(p), dup' # dup
        PROVE  FALSE
    <2>1. /\ p[1] \in DOMAIN dup /\ p[2] \in DOMAIN dup
          /\ dup' = [dup EXCEPT ![p[2]] = p[1]]
      BY <1>4 DEF MarkItem
    <2>2. DOMAIN dup' = DOMAIN dup /\ dup'[p[2]] = p[1]
          /\ \A i \in DOMAIN dup : i # p[2] => dup'[i] = dup[i]
      BY <2>1
    <2>3. p[1] # p[2] /\ dup[p[1]] = NULL
      BY <1>0, <2>1 DEF PrimariesAreShown, Stored
    <2>4. CASE p[2] \in S
      <3>1. p[1] \in S /\ dup'[p[1]] = NULL
        BY <1>1, <2>1, <2>2, <2>3, <2>4
      <3>2. QED
        BY <1>0, <1>1, <2>2, <3>1 DEF DedupTypeOK
    <2>5. CASE p[2] \notin S
      BY <1>1, <1>2, <2>2, <2>5
    <2>6. QED
      BY <2>4, <2>5
  <1>5. ASSUME NEW i \in Item, StoreItem(i)
        PROVE  FALSE
    <2>1. PICK p \in DOMAIN dup \cup {NULL} :
             dup' = [j \in DOMAIN dup \cup {i} |-> IF j = i THEN p ELSE dup[j]]
      BY <1>5 DEF StoreItem
    <2>2. i \notin DOMAIN dup
      BY <1>5 DEF StoreItem
    <2>3. S \subseteq DOMAIN dup \cup {i} /\ NULL \notin S
      BY <1>0, <1>1, <2>1 DEF DedupTypeOK
    <2>4. \A j \in S \ {i} : dup[j] \in S \ {i}
      BY <1>0, <1>1, <2>1, <2>2, <2>3 DEF DedupTypeOK
    <2>5. S \ {i} # {}
      <3>1. i \in S => p \in S
        BY <1>1, <2>1
      <3>2. QED
        BY <1>1, <2>2, <2>3, <3>1
    <2>6. QED
      BY <1>2, <2>3, <2>4, <2>5
  <1>6. ASSUME NEW i \in Item, PurgeItem(i)
        PROVE  FALSE
    <2>1. dup' = [j \in DOMAIN dup \ {i} |-> IF dup[j] = i THEN NULL ELSE dup[j]]
      BY <1>6 DEF PurgeItem
    <2>2. S \subseteq DOMAIN dup /\ NULL \notin S
      BY <1>0, <1>1, <2>1 DEF DedupTypeOK
    <2>3. \A j \in S : dup[j] \in S
      BY <1>1, <2>1, <2>2
    <2>4. QED
      BY <1>1, <1>2, <2>2, <2>3
  <1>7. \/ dup' = dup
        \/ \E p \in groups : MarkItem(p)
        \/ \E i \in Item : StoreItem(i) \/ PurgeItem(i)
    BY DEF DedupNext, dedupVars, DedupTick, ClusterArticles, DedupEnds
  <1>8. QED
    BY <1>3, <1>4, <1>5, <1>6, <1>7

LEMMA StepDedup == DedupInv /\ [DedupNext]_dedupVars => DedupInv'
  BY StepDedupType, StepAsked, StepPrimaries, StepFiled DEF DedupInv

-----------------------------------------------------------------------------
(* Bluesky: types *)

LEMMA InitBlueskyType == BlueskyInit => BlueskyTypeOK
  BY BlueskyAssumption DEF BlueskyInit, BlueskyTypeOK, Absent

LEMMA StepBlueskyType == BlueskyTypeOK /\ [BlueskyNext]_bskyVars => BlueskyTypeOK'
  <1> SUFFICES ASSUME BlueskyTypeOK, [BlueskyNext]_bskyVars PROVE BlueskyTypeOK'
    OBVIOUS
  <1> USE BlueskyAssumption DEF BlueskyTypeOK, Absent, sessionVars, handleVars
  <1>1. CASE PollStarts
    BY <1>1 DEF PollStarts, Less
  <1>2. CASE SearchStarts \/ SearchEnds
    BY <1>2 DEF SearchStarts, SearchEnds, authenticate
  <1>3. CASE AccountsStart
    BY <1>3 DEF AccountsStart, authenticate, Valid
  <1>4. CASE ReadToken \/ AuthFails
    BY <1>4 DEF ReadToken, AuthFails
  <1>5. ASSUME NEW h \in Account, Handled(h)
        PROVE  BlueskyTypeOK'
    BY <1>5 DEF Handled, Skip, FetchAccount, markBad, FetchAccountFails, Passed
  <1>6. ASSUME NEW h \in Account, Rename(h)
        PROVE  BlueskyTypeOK'
    BY <1>6 DEF Rename
  <1>7. CASE Refuse
    BY <1>7 DEF Refuse
  <1>8. CASE UNCHANGED bskyVars
    BY <1>8 DEF bskyVars
  <1>9. QED
    BY <1>1, <1>2, <1>3, <1>4, <1>5, <1>6, <1>7, <1>8 DEF BlueskyNext

-----------------------------------------------------------------------------
(* All of them *)

WInv ==
  /\ StreamInv /\ MailInv /\ PatchInv /\ TriageInv
  /\ DedupInv /\ BlueskyTypeOK

\* A step of one part is a step of each.
LEMMA StepOfParts ==
  ASSUME [Next]_vars
  PROVE  /\ [StreamNext]_streamVars /\ [MailNext]_mailVars /\ [PatchNext]_patchVars
         /\ [TriageNext]_triageVars /\ [DedupNext]_dedupVars /\ [BlueskyNext]_bskyVars
  BY DEF Next, vars, OfMail, OfPatch, OfTriage, OfDedup, OfStream, OfBluesky

LEMMA AlwaysWInv == Spec => []WInv
  <1>1. Init => WInv
    BY InitStreamInv, InitMailInv, InitPatchInv, InitTriageInv, InitDedup, InitBlueskyType
    DEF Init, WInv
  <1>2. WInv /\ [Next]_vars => WInv'
    BY StepOfParts, StepStreamInv, StepMailInv, StepPatchInv, StepTriageInv, StepDedup,
       StepBlueskyType
    DEF WInv
  <1>3. QED
    BY <1>1, <1>2, PTL DEF Spec

\* Every variable of the workers keeps its type; the hub is ranged over only by
\* the holder of its lock and no channel holds more than it has room for.
THEOREM TypeCorrect == Spec => []TypeOK
  <1>1. WInv => TypeOK
    BY DEF WInv, StreamInv, MailInv, PatchInv, TriageInv, DedupInv, TypeOK
  <1>2. QED
    BY <1>1, AlwaysWInv, PTL

\* No broadcast sends on a channel that unregister has closed, and an open page
\* that lacks an article has been told of it or will be (Broadcast and
\* handleStream of internal/server/sse.go, startSSE of web/index.html).
THEOREM OpenPagesAreTold == Spec => []PagesAreTold
  <1>1. WInv => PagesAreTold
    BY DEF WInv, StreamInv, LockGuardsClients, NoSendAfterClose, PagesAreTold
  <1>2. QED
    BY <1>1, AlwaysWInv, PTL

\* As long as a model keeps its groups apart, every hidden article is filed under
\* a shown one, for any articles, answers, failing updates and purges between two
\* marks (internal/aidedup/worker.go and MarkDuplicate, Upsert and Purge of
\* internal/storage/storage.go).
THEOREM HiddenIsFiled ==
  ASSUME Apart
  PROVE  Spec => []EverythingFiled
  <1>1. WInv => EverythingFiled
    BY DEF WInv, DedupInv
  <1>2. QED
    BY <1>1, AlwaysWInv, PTL

\* Digests are a cooldown apart, a brief belongs to its vendor's patch day and is
\* written again only if it could not be read, and a triage line is paid for
\* once, for any schedules, vendors, stories, restarts and failures
\* (internal/digestmail, internal/patchtuesday and internal/aitriage).
THEOREM WorkIsDoneOnce == Spec => OncePerPeriod
  <1>1. WInv => BriefsOnPatchDays /\ WrittenOnce
    BY BriefsAreRight DEF WInv
  <1>2. WInv /\ [Next]_vars =>
          [\A u \in Subscriber :
             /\ addressee # u /\ addressee' = u /\ received[u] # -1 /\ u \notin unmarked
             => received[u] >= Cooldown[shortest[u]]]_mailVars
    BY StepOfParts, MailStepSpaced DEF WInv
  <1>3. WInv /\ [Next]_vars => [\A s \in paid : written' = s => written = s]_triageVars
    BY StepOfParts, TriageStepPaysOnce DEF WInv
  <1>4. QED
    BY <1>1, <1>2, <1>3, AlwaysWInv, PTL DEF Spec, OncePerPeriod, DigestsSpaced, PaidOnce

=============================================================================
