------------------------------- MODULE Triage -------------------------------
(***************************************************************************)
(* The triage worker (internal/aitriage): every five minutes it takes the  *)
(* best articles without a triage line, at most a batch of them, has a     *)
(* line written for each and stores it.                                    *)
(***************************************************************************)
EXTENDS Integers, FiniteSets

CONSTANTS
  Story,           \* numbers: the order by score, then date; the best first
  Batch,           \* 25
  Stubborn         \* stories the model always refuses

ASSUME TriageAssumption ==
  /\ Story \subseteq Nat /\ IsFiniteSet(Story) /\ Batch \in Nat \ {0}
  /\ Stubborn \subseteq Story /\ Cardinality(Stubborn) < Batch

VARIABLES
  fresh,       \* stories of 72 hours with 30 points or more, and shown
  triage,      \* article_ai_triage
  awaiting,    \* the rest of this tick's batch
  written,     \* the story whose line is being stored, or -1
  paid         \* history: stories with a line that did not get lost

triageVars == <<fresh, triage, awaiting, written, paid>>

\* Variant: the best of all, less those that have a line.
OpenOfTheBest == {s \in fresh \ triage : Cardinality({t \in fresh : t < s}) < Batch}

Candidates ==
  LET open == fresh \ triage
  IN  {s \in open : Cardinality({t \in open : t < s}) < Batch}

TriageTick ==
  /\ awaiting = {} /\ written = -1
  /\ Candidates # {} /\ awaiting' = Candidates
  /\ UNCHANGED <<fresh, triage, written, paid>>

TriageArticle(s) ==
  /\ s \in awaiting /\ written = -1 /\ s \notin Stubborn
  /\ awaiting' = awaiting \ {s} /\ written' = s
  /\ paid' = paid \cup {s}
  /\ UNCHANGED <<fresh, triage>>

TriageRefused(s) ==
  /\ s \in awaiting /\ written = -1 /\ awaiting' = awaiting \ {s}
  /\ UNCHANGED <<fresh, triage, written, paid>>

\* Stored, or not.
PutArticleTriage ==
  /\ written # -1 /\ written' = -1
  /\ \/ triage' = triage \cup {written} /\ paid' = paid
     \/ triage' = triage /\ paid' = paid \ {written}
  /\ UNCHANGED <<fresh, awaiting>>

TriageRestart ==
  /\ awaiting # {} \/ written # -1
  /\ awaiting' = {} /\ written' = -1
  /\ paid' = paid \ {written}
  /\ UNCHANGED <<fresh, triage>>

\* A story comes in, or grows old or is filed under another.
StoryArrives(s) == s \notin fresh /\ s \notin triage /\ fresh' = fresh \cup {s}
                   /\ UNCHANGED <<triage, awaiting, written, paid>>
StoryLeaves(s)  == s \in fresh /\ fresh' = fresh \ {s}
                   /\ UNCHANGED <<triage, awaiting, written, paid>>

TriageInit ==
  /\ fresh = {} /\ triage = {} /\ awaiting = {} /\ written = -1
  /\ paid = {}

TriageNext ==
  \/ TriageTick \/ PutArticleTriage \/ TriageRestart
  \/ \E s \in Story : \/ TriageArticle(s) \/ TriageRefused(s)
                      \/ StoryArrives(s) \/ StoryLeaves(s)

-----------------------------------------------------------------------------
\* Every variable of the triage keeps its type.
TriageTypeOK ==
  /\ fresh \subseteq Story /\ triage \subseteq Story /\ awaiting \subseteq Story
  /\ written \in Story \cup {-1}
  /\ paid \subseteq Story

\* A line is paid for once, and again only if it got lost before it was stored.
PaidOnce == [][\A s \in paid : written' = s => written = s]_triageVars

\* Worse stories are not starved by better ones the model refuses, as long as
\* these are fewer than a batch.
EveryStoryTriaged ==
  \A s \in Story \ Stubborn : []<>(s \in fresh => s \in triage)

-----------------------------------------------------------------------------
(* What the theorems of WorkersProofs rest on *)

\* A line that was paid for is stored or about to be, and nobody asks for it.
PaidIsKept == paid \subseteq triage \cup {written} /\ awaiting \cap paid = {}

TriageInv == TriageTypeOK /\ PaidIsKept

=============================================================================
