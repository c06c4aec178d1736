---------------------------- MODULE SemanticDedup ---------------------------
(***************************************************************************)
(* Semantic deduplication (internal/aidedup): every half hour the worker   *)
(* shows the recent primaries to a language model, which answers with      *)
(* groups of one primary and its duplicates, and marks the duplicates, one *)
(* UPDATE each, while the fetch loop stores articles and the purge deletes *)
(* some.                                                                   *)
(***************************************************************************)
EXTENDS Integers, FiniteSets

CONSTANTS
  Item,          \* article ids: the larger, the later stored
  NULL,
  BatchColumns,  \* how many columns ArticlesForDedup selects
  BatchSize,     \* 50
  MinBatch,      \* 4: smaller batches are not worth the call
  Apart,         \* does the model keep its groups apart?
  MaxMarks       \* bound: duplicates in one answer

ASSUME DedupAssumption ==
  /\ Item \subseteq Nat /\ IsFiniteSet(Item) /\ NULL \notin Item
  /\ Apart \in BOOLEAN /\ {BatchColumns, BatchSize, MinBatch, MaxMarks} \subseteq Nat

VARIABLES
  dup,           \* [ids -> NULL or an id]: the column duplicate_of
  batch,         \* the items sent to the model
  groups,        \* pairs <<primary, duplicate>> of its answer still to be marked
  dedupPc        \* "idle", "asked", "marking"

dedupVars == <<dup, batch, groups, dedupPc>>

Stored  == DOMAIN dup
Showing == {i \in Stored : dup[i] = NULL}

\* Variant: without AND duplicate_of IS NULL.
ArticlesOfAnyKind == {i \in Stored : Cardinality({j \in Stored : j > i}) < BatchSize}

ArticlesForDedup ==
  IF BatchColumns # 12 THEN {}         \* scanArticles drops the rows
  ELSE {i \in Showing : Cardinality({j \in Showing : j > i}) < BatchSize}

DedupTick ==
  /\ dedupPc = "idle" /\ Cardinality(ArticlesForDedup) >= MinBatch
  /\ batch' = ArticlesForDedup /\ dedupPc' = "asked"
  /\ UNCHANGED <<dup, groups>>

\* What the model may answer: ids of its own invention are skipped, and so is
\* a group's primary among its duplicates.  Groups it keeps apart share no id.
GroupsApart(g) == \A p, q \in g : p[1] # q[2] /\ (p[2] = q[2] => p[1] = q[1])
Answers == {g \in SUBSET (batch \X batch) :
              /\ g # {} /\ Cardinality(g) <= MaxMarks
              /\ \A p \in g : p[1] # p[2]
              /\ Apart => GroupsApart(g)}

ClusterArticles ==
  /\ dedupPc = "asked"
  /\ \E g \in Answers : groups' = g /\ dedupPc' = "marking"
  /\ UNCHANGED <<dup, batch>>

\* The UPDATE changes a row that is still a primary, if the foreign key
\* allows it; it may also fail.
MarkItem(p) ==
  /\ dedupPc = "marking" /\ p \in groups /\ groups' = groups \ {p}
  /\ \/ {p[1], p[2]} \subseteq Stored /\ dup[p[2]] = NULL
        /\ dup' = [dup EXCEPT ![p[2]] = p[1]]
     \/ dup' = dup
  /\ UNCHANGED <<batch, dedupPc>>

\* The answer is worked off, or was an error or empty, or the process stopped.
DedupEnds ==
  /\ dedupPc # "idle" /\ dedupPc' = "idle" /\ batch' = {} /\ groups' = {}
  /\ UNCHANGED dup

\* Upsert of a new article, a primary or filed under an article that was one
\* when findDuplicate looked and may have been marked since.
StoreItem(i) ==
  /\ i \notin Stored \cup batch /\ \A j \in Stored : j < i
  /\ \E p \in Stored \cup {NULL} : dup' = [j \in Stored \cup {i} |-> IF j = i THEN p ELSE dup[j]]
  /\ UNCHANGED <<batch, groups, dedupPc>>

\* Variant: the rows that named it keep its id.
PurgeAndDangle(i) ==
  /\ i \in Stored /\ dup' = [j \in Stored \ {i} |-> dup[j]]
  /\ UNCHANGED <<batch, groups, dedupPc>>

\* Purge, with ON DELETE SET NULL.
PurgeItem(i) ==
  /\ i \in Stored
  /\ dup' = [j \in Stored \ {i} |-> IF dup[j] = i THEN NULL ELSE dup[j]]
  /\ UNCHANGED <<batch, groups, dedupPc>>

DedupInit == dup = [i \in {} |-> NULL] /\ batch = {} /\ groups = {} /\ dedupPc = "idle"

DedupNext ==
  \/ DedupTick \/ ClusterArticles \/ DedupEnds
  \/ \E p \in groups : MarkItem(p)
  \/ \E i \in Item : StoreItem(i) \/ PurgeItem(i)

-----------------------------------------------------------------------------
\* Every variable of the deduplication keeps its type; no row names one that
\* is gone.
DedupTypeOK ==
  /\ Stored \subseteq Item /\ \A i \in Stored : dup[i] \in Stored \cup {NULL}
  /\ batch \subseteq Item /\ groups \subseteq batch \X batch
  /\ dedupPc \in {"idle", "asked", "marking"}

\* Whatever is hidden is filed, perhaps through others, under an article that
\* is shown: no set of articles is closed under duplicate_of.  Marks of two
\* ticks may make chains, never a circle.  It needs a model that keeps its
\* groups apart; nothing in the code sees to it.
EverythingFiled == \A hidden \in (SUBSET Stored) \ {{}} : \E i \in hidden : dup[i] \notin hidden

-----------------------------------------------------------------------------
(* What the theorems of WorkersProofs rest on *)

\* Marks are pending only while an answer is worked off.
MarksOfAnAnswer == dedupPc # "marking" => groups = {}

\* Until an answer is worked off, what was asked about is shown unless it is
\* gone: nobody else marks, and ids are not given twice.
AskedIsShown == dedupPc = "asked" => batch \cap Stored \subseteq Showing

\* The primary of a mark still to be made is itself shown: no mark of the same
\* answer has hidden it.
PrimariesAreShown ==
  /\ \A p \in groups : p[1] # p[2] /\ (p[1] \in Stored => dup[p[1]] = NULL)
  /\ GroupsApart(groups)

DedupInv == DedupTypeOK /\ MarksOfAnAnswer /\ AskedIsShown
            /\ (Apart => PrimariesAreShown /\ EverythingFiled)

=============================================================================
