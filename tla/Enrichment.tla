----------------------------- MODULE Enrichment -----------------------------
(***************************************************************************)
(* Requests about a CVE: the modal (handleCVE) and the explainer           *)
(* (handleCVEExplain) of internal/server/server.go, over the caches of     *)
(* internal/cve.  NVD answers through a queue for a ticker, OTX and EPSS   *)
(* are overlays, and the explainer pays a summarizer.                      *)
(***************************************************************************)
EXTENDS RateLimiter, FiniteSets

CONSTANTS
  CVE, Request,
  Route,           \* the key under which a client asks for explanations
  Deadline,        \* of a modal, in ticks of the NVD ticker: 15 s and 6 s
  Patience,        \* of an explanation, 30 s
  PulseTTL,        \* otxCacheTTL, 6 hours
  MaxTime,         \* bound: the clock
  MaxStarts        \* bound: requests

ASSUME EnrichmentAssumption ==
  /\ Route \in Key /\ Deadline \in Nat \ {0} /\ Patience \in Nat \ {0}
  /\ Deadline <= Patience
  /\ PulseTTL \in Nat /\ MaxTime \in Nat /\ MaxStarts \in Nat

Never == -100

VARIABLES
  tick,            \* whether the buffer of rateLim.C holds a tick
  queue,           \* NVDClient.mu: who holds it and who waits for it
  reqs,            \* what each request has worked out so far
  starts,          \* bound: requests started
  details,         \* cve_details: "none", "error" or "detail"
  pulses,          \* cve_otx: when the row was fetched
  explained,       \* cve_ai_explanations
  took,            \* history: when slots of NVD's band were taken
  answered,        \* history: the last successful answer of OTX
  settled,         \* history: CVEs explained while nobody else was asking
  starved          \* history: the fewest waiting before one whose time ran out

tableVars == <<details, pulses, explained>>
nvdVars   == <<tick, queue, took, starved>>
enrVars   == <<now, limVars, nvdVars, tableVars, reqs, starts, answered, settled>>

Idle == [pc |-> "idle"]
Busy(r) == reqs[r].pc # "idle"
Asking(c) == {r \in Request : Busy(r) /\ reqs[r].cve = c}
At(r, pc) == reqs[r].pc = pc
Go(r, pc) == reqs' = [reqs EXCEPT ![r].pc = pc]
Done(r) == reqs' = [reqs EXCEPT ![r] = Idle]

\* The request's context is still good.
InTime(r) == now - reqs[r].began < (IF reqs[r].kind = "modal" THEN Deadline ELSE Patience)

-----------------------------------------------------------------------------
\* The explainer looks for a stored text first.
Begin(r, c, kind) ==
  /\ ~ Busy(r) /\ starts < MaxStarts /\ starts' = starts + 1
  /\ reqs' = [reqs EXCEPT ![r] = [pc |-> IF kind = "modal" THEN "lookup" ELSE "limit",
                                  cve |-> c, kind |-> kind, began |-> now, before |-> 0,
                                  excused |-> FALSE]]
  /\ UNCHANGED <<now, limVars, nvdVars, tableVars, answered, settled>>

AskModal(r, c) == Begin(r, c, "modal")

GetCVEExplanation(r, c) == ~ explained[c] /\ Begin(r, c, "explain")

\* A text served from the table changes nothing: no action.  A miss costs a
\* call of the client's allowance.
Admit(r) ==
  /\ At(r, "limit") /\ Allow(Route) /\ Go(r, "lookup")
  /\ UNCHANGED <<now, nvdVars, tableVars, starts, answered, settled>>

TooMany(r) ==
  /\ At(r, "limit") /\ Refuse(Route) /\ Done(r)
  /\ UNCHANGED <<now, nvdVars, tableVars, starts, answered, settled>>

-----------------------------------------------------------------------------
\* Variant: what is stored is never looked at.
MissAlways(c) == FALSE

\* NVDClient.readCache: an error row, and a query that fails, count as a miss.
ReadCache(c) == details[c] = "detail"

Found(r) == IF reqs[r].kind = "modal" THEN "pulses" ELSE "paying"

Hit(r) ==
  /\ At(r, "lookup") /\ ReadCache(reqs[r].cve)
  /\ Go(r, Found(r))
  /\ UNCHANGED <<now, limVars, nvdVars, tableVars, starts, answered, settled>>

\* n.mu.Lock(): a waiter takes its turn in the queue, after a miss or a failed query.
Queue(r, failed) ==
  /\ At(r, "lookup") /\ (failed <=> ReadCache(reqs[r].cve))
  /\ queue' = Append(queue, r)
  /\ reqs' = [reqs EXCEPT ![r].pc = "waiting", ![r].before = Len(queue), ![r].excused = failed]
  /\ UNCHANGED <<now, limVars, tick, took, starved, tableVars, starts, answered, settled>>

\* The holder of the lock and a tick: the lock is released before NVD is asked.
Turn(r) == At(r, "waiting") /\ r = Head(queue) /\ tick

\* <-n.rateLim.C, whether or not the request's time is up.
TakeTick(r) ==
  /\ Turn(r) /\ tick' = FALSE
  /\ queue' = Tail(queue) /\ took' = Append(took, now)
  /\ starved' = IF InTime(r) THEN starved ELSE starved \cup {reqs[r].before}
  /\ Go(r, "fetching")
  /\ UNCHANGED <<now, limVars, tableVars, starts, answered, settled>>

\* writeCache.  Whoever asks for the same CVE at this moment has missed it.
WriteCache(r) ==
  LET c == reqs[r].cve IN
  /\ At(r, "fetching") /\ InTime(r)
  /\ details' = [details EXCEPT ![c] = "detail"]
  /\ reqs' = [s \in Request |-> IF s = r THEN [reqs[r] EXCEPT !.pc = Found(r)]
                                ELSE IF s \in Asking(c) THEN [reqs[s] EXCEPT !.excused = TRUE]
                                ELSE reqs[s]]
  /\ UNCHANGED <<now, limVars, nvdVars, pulses, explained, starts, answered, settled>>

\* No record, a failure, or no time left: writeError replaces the row.
WriteError(r) ==
  /\ At(r, "fetching")
  /\ details' = [details EXCEPT ![reqs[r].cve] = "error"]
  /\ Done(r)
  /\ UNCHANGED <<now, limVars, nvdVars, pulses, explained, starts, answered, settled>>

-----------------------------------------------------------------------------
Fresh(c) == now - pulses[c] <= PulseTTL

\* OTXClient.Get: the row while it is fresh, or a call.
ReadPulses(r) ==
  /\ At(r, "pulses")
  /\ IF Fresh(reqs[r].cve) THEN Done(r) ELSE Go(r, "calling")
  /\ UNCHANGED <<now, limVars, nvdVars, tableVars, starts, answered, settled>>

\* 200, and 404 for a CVE nobody reported on.
WritePulses(r) ==
  LET c == reqs[r].cve IN
  /\ At(r, "calling") /\ Done(r)
  /\ pulses' = [pulses EXCEPT ![c] = now] /\ answered' = [answered EXCEPT ![c] = now]
  /\ UNCHANGED <<now, limVars, nvdVars, details, explained, starts, settled>>

\* Transient failures don't poison the cache; the modal is sent without pulses.
PulsesFail(r) ==
  /\ At(r, "calling") /\ Done(r)
  /\ UNCHANGED <<now, limVars, nvdVars, tableVars, starts, answered, settled>>

-----------------------------------------------------------------------------

\* The summarizer has answered.
PutCVEExplanation(r) ==
  LET c == reqs[r].cve IN
  /\ At(r, "paying") /\ reqs[r].kind = "explain" /\ InTime(r) /\ Done(r)
  /\ explained' = [explained EXCEPT ![c] = TRUE]
  /\ settled' = IF Asking(c) = {r} THEN settled \cup {c} ELSE settled
  /\ UNCHANGED <<now, limVars, nvdVars, details, pulses, starts, answered>>

\* 502, or a text that could not be stored.
ExplainFails(r) ==
  /\ At(r, "paying") /\ Done(r)
  /\ UNCHANGED <<now, limVars, nvdVars, tableVars, starts, answered, settled>>

-----------------------------------------------------------------------------
\* DailyCleanup: rows of both caches that are 90 days old.
CleanupCaches(c) ==
  /\ details[c] # "none" /\ ~ Fresh(c)
  /\ details' = [details EXCEPT ![c] = "none"] /\ pulses' = [pulses EXCEPT ![c] = Never]
  /\ UNCHANGED <<now, limVars, nvdVars, explained, reqs, starts, answered, settled>>

SweepBuckets == Sweep /\ UNCHANGED <<now, nvdVars, tableVars, reqs, starts, answered, settled>>

\* The tables stay; the queue, the buckets and the requests are in memory.
Restart ==
  /\ \E r \in Request : Busy(r)
  /\ queue' = << >> /\ tick' = FALSE /\ took' = << >>
  /\ buckets' = [k \in Key |-> << >>] /\ granted' = [k \in Key |-> << >>]
  /\ reqs' = [r \in Request |-> Idle]
  /\ UNCHANGED <<now, starved, tableVars, starts, answered, settled>>

\* The ticker fires, a full buffer keeps one tick.  Before the next one, whoever
\* waits for a tick that is there takes it, a context ends, and a query returns.
TimePasses ==
  /\ now < MaxTime /\ now' = now + 1 /\ tick' = TRUE
  /\ \A r \in Request : ~ At(r, "limit") /\ ~ At(r, "lookup") /\ ~ Turn(r)
  /\ \A r \in Request : At(r, "fetching") \/ At(r, "paying") => InTime(r)
  /\ UNCHANGED <<limVars, queue, took, starved, tableVars, reqs, starts, answered, settled>>

EnrichmentInit ==
  /\ LimiterInit
  /\ tick = FALSE /\ queue = << >> /\ took = << >> /\ starved = {}
  /\ reqs = [r \in Request |-> Idle] /\ starts = 0
  /\ details = [c \in CVE |-> "none"] /\ pulses = [c \in CVE |-> Never]
  /\ explained = [c \in CVE |-> FALSE]
  /\ answered = [c \in CVE |-> Never] /\ settled = {}

EnrichmentNext ==
  \/ \E r \in Request :
       \/ \E c \in CVE : AskModal(r, c) \/ GetCVEExplanation(r, c)
       \/ Admit(r) \/ TooMany(r)
       \/ Hit(r) \/ TakeTick(r) \/ \E failed \in BOOLEAN : Queue(r, failed)
       \/ WriteCache(r) \/ WriteError(r)
       \/ ReadPulses(r) \/ WritePulses(r) \/ PulsesFail(r)
       \/ PutCVEExplanation(r) \/ ExplainFails(r)
  \/ \E c \in CVE : CleanupCaches(c)
  \/ SweepBuckets \/ Restart \/ TimePasses

-----------------------------------------------------------------------------
\* The clock, the tables, the queue and the requests keep their types.
EnrichmentTypeOK ==
  /\ now \in 0 .. MaxTime /\ tick \in BOOLEAN
  /\ {queue[i] : i \in DOMAIN queue} = {r \in Request : At(r, "waiting")}
  /\ details \in [CVE -> {"none", "error", "detail"}]
  /\ pulses \in [CVE -> {Never} \cup 0 .. MaxTime]
  /\ explained \in [CVE -> BOOLEAN] /\ settled \subseteq CVE

\* "Rate-limited per NVD's documented bands": within n intervals of the ticker at
\* most n + 1 slots are taken, the one more being the buffered tick.
BandHolds ==
  \A i, j \in DOMAIN took : i <= j => j - i <= took[j] - took[i]

\* The ticker is waited for with the lock held and NVD is asked without it, so a
\* request's time runs out in the queue only behind as many others as it has ticks.
OnlyCrowdsStarve == \A n \in starved : n >= Deadline - 1

\* A detail, once stored, is not replaced by an error, unless by a request that
\* was under way when it was stored or that could not read it.
DetailKept ==
  [][\A c \in CVE : details[c] = "detail" /\ details'[c] = "error" =>
       \E r \in Asking(c) : reqs[r].excused]_enrVars

\* A failing call to OTX hides no answer that is still fresh, also when several
\* requests miss at a time and only some of their calls succeed.
PulsesKept == \A c \in CVE : now - answered[c] <= PulseTTL => pulses[c] = answered[c]

\* An explanation is paid for once, if nobody else asked for it meanwhile.
SettledIsFree == \A r \in Request : At(r, "paying") /\ reqs[r].kind = "explain" =>
                   reqs[r].cve \notin settled

-----------------------------------------------------------------------------
(* What the theorems of ServerProofs rest on *)

Requested ==
  [pc : {"limit", "lookup", "waiting", "fetching", "pulses", "calling", "paying"}, cve : CVE,
   kind : {"modal", "explain"}, began : 0 .. MaxTime, before : Nat, excused : BOOLEAN]

EnrichmentShape ==
  /\ EnrichmentTypeOK /\ reqs \in [Request -> {Idle} \cup Requested]
  /\ queue \in Seq(Request) /\ took \in Seq(0 .. MaxTime)
  /\ answered \in [CVE -> {Never} \cup 0 .. MaxTime] /\ starved \subseteq Nat
  /\ \A i, j \in DOMAIN queue : queue[i] = queue[j] => i = j
  /\ \A r \in Request : Busy(r) => reqs[r].began <= now

\* A stored detail is known to whoever may still replace it.
DetailIsKnown ==
  \A r \in Request : (At(r, "waiting") \/ At(r, "fetching")) /\ details[reqs[r].cve] = "detail"
                     => reqs[r].excused

\* What is settled is explained, and nobody is about to have it explained.
SettledIsExplained ==
  \A c \in settled : explained[c] /\ \A r \in Asking(c) : reqs[r].kind = "modal"

\* Of the slots taken, the last was taken as long ago as there are ticks since.
SlotsAreApart ==
  \A i \in DOMAIN took : Len(took) - i + (IF tick THEN 1 ELSE 0) <= now - took[i]

\* No time passes before a request stands in the queue, and there it moves up a
\* place with every tick but one.
QueueMoves ==
  /\ \A r \in Request : At(r, "limit") \/ At(r, "lookup") => reqs[r].began = now
  /\ \A i \in DOMAIN queue :
       now - reqs[queue[i]].began <= reqs[queue[i]].before + 1 - i + (IF tick THEN 1 ELSE 0)

EnrichmentInv ==
  /\ LimiterInv /\ EnrichmentShape /\ DetailIsKnown /\ SettledIsExplained /\ PulsesKept /\ SlotsAreApart
  /\ BandHolds /\ QueueMoves /\ OnlyCrowdsStarve

=============================================================================
