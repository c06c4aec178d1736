---------------------------- MODULE IngestProofs ----------------------------
(***************************************************************************)
(* Theorems about the article store, for every set of feeds, URLs,         *)
(* goroutines and any clock.                                               *)
(***************************************************************************)
EXTENDS IngestRefinement, TLAPS

-----------------------------------------------------------------------------
(* Type correctness *)

LEMMA InitTypeOK == Init => TypeOK
  <1>1. SUFFICES ASSUME Init PROVE TypeOK
    OBVIOUS
  <1>2. Live = {} /\ row \in [Live -> Row]
    BY <1>1 DEF Init, Live
  <1>3. QED
    BY <1>1, <1>2 DEF Init, TypeOK

\* The program counter of a goroutine tells which of its variables are set.
LEMMA TaskShape ==
  ASSUME TypeOK, NEW t \in Task
  PROVE  /\ task[t].pc = "next" => task[t] \in Between
         /\ task[t].pc \in {"url", "title"} => task[t] \in Matching
         /\ task[t].pc = "store" => task[t] \in Storing
         /\ Active(t) => task[t] \in Between \cup Matching \cup Storing
  BY DEF TypeOK, IdleTask, Between, Matching, Storing, Active

\* The end of an item leaves every goroutine well formed.
LEMMA NextItemType ==
  ASSUME TypeOK, NEW t \in Task, task[t].pc = "store", NextItem(t)
  PROVE  task' \in [Task -> {IdleTask} \cup Between \cup Matching \cup Storing]
  <1>1. task[t] \in Storing
    BY TaskShape
  <1>2. [task[t] EXCEPT !.pc = "next", !.cur = None, !.dup = None] \in Between
    BY <1>1 DEF Storing, Between
  <1>3. QED
    BY <1>2 DEF NextItem, TypeOK

LEMMA FetchTypeOK ==
  ASSUME TypeOK, NEW t \in Task, NEW s \in Source,
         NEW window \in SUBSET ListedBy[s], FetchReturns(t, s, window)
  PROVE  TypeOK'
  <1>1. [pc |-> "next", source |-> s, todo |-> window, cur |-> None,
         dup |-> None] \in Between
    BY IngestAssumption DEF Between
  <1>2. QED
    BY <1>1 DEF FetchReturns, TypeOK, Live

\* A match is a row id.
LEMMA MatchIsId ==
  ASSUME TypeOK, NEW t \in Task
  PROVE  SameUrl(t) \subseteq Id /\ SameTitle(t) \subseteq Id
  BY DEF SameUrl, SameTitle, Recent, Candidate, Visible, TypeOK

LEMMA MatchTypeOK ==
  ASSUME TypeOK, NEW t \in Task, MatchUrl(t) \/ MatchTitle(t)
  PROVE  TypeOK'
  <1>1. task[t] \in Matching
    BY TaskShape DEF MatchUrl, MatchTitle
  <1>2. UNCHANGED <<row, now>>
    BY DEF MatchUrl, MatchTitle
  <1>3. CASE task' = [task EXCEPT ![t].pc = "title"]
    <2>1. [task[t] EXCEPT !.pc = "title"] \in Matching
      BY <1>1 DEF Matching
    <2>2. QED
      BY <1>2, <1>3, <2>1 DEF TypeOK, Live
  <1>4. CASE task' = [task EXCEPT ![t].pc = "store"]
    <2>1. [task[t] EXCEPT !.pc = "store"] \in Storing
      BY <1>1 DEF Matching, Storing
    <2>2. QED
      BY <1>2, <1>4, <2>1 DEF TypeOK, Live
  <1>5. ASSUME NEW i \in Id, task' = [task EXCEPT ![t].pc = "store", ![t].dup = i]
        PROVE  TypeOK'
    <2>1. [task[t] EXCEPT !.pc = "store", !.dup = i] \in Storing
      BY <1>1 DEF Matching, Storing
    <2>2. QED
      BY <1>2, <1>5, <2>1 DEF TypeOK, Live
  <1>6. QED
    BY <1>3, <1>4, <1>5, MatchIsId DEF MatchUrl, MatchTitle

LEMMA StoreTypeOK ==
  ASSUME TypeOK, NEW t \in Task,
         \/ \E i \in Id : Insert(t, i) \/ Update(t, i)
         \/ StoreFails(t)
  PROVE  TypeOK'
  <1>1. task[t] \in Storing
    BY TaskShape DEF Insert, Update, StoreFails
  <1>2. task' \in [Task -> {IdleTask} \cup Between \cup Matching \cup Storing]
    BY NextItemType DEF Insert, Update, StoreFails
  <1>3. ASSUME NEW i \in Id, Insert(t, i) PROVE TypeOK'
    <2>1. [url |-> task[t].cur, source |-> task[t].source, dup |-> task[t].dup,
           read |-> FALSE] \in Row
      BY <1>1 DEF Storing, Row
    <2>2. row' \in [Live' -> Row] /\ Live' \subseteq Id
      BY <1>3, <2>1 DEF Insert, TypeOK, Live
    <2>3. QED
      BY <1>2, <1>3, <2>2 DEF Insert, TypeOK
  <1>4. ASSUME NEW i \in Id, Update(t, i) PROVE TypeOK'
    <2>1. [row[i] EXCEPT !.dup = task[t].dup] \in Row
      BY <1>1, <1>4 DEF Storing, Row, Update, TypeOK, Live
    <2>2. row' \in [Live' -> Row] /\ Live' \subseteq Id
      BY <1>4, <2>1 DEF Update, TypeOK, Live
    <2>3. QED
      BY <1>2, <1>4, <2>2 DEF Update, TypeOK
  <1>5. ASSUME StoreFails(t) PROVE TypeOK'
    BY <1>2, <1>5 DEF StoreFails, TypeOK, Live
  <1>6. QED
    BY <1>3, <1>4, <1>5

LEMMA TaskTypeOK ==
  ASSUME TypeOK, NEW t \in Task, TaskStep(t)
  PROVE  TypeOK'
  <1>1. ASSUME NEW u \in Url, Skip(t, u) PROVE TypeOK'
    <2>1. [task[t] EXCEPT !.todo = @ \ {u}] \in Between
      BY <1>1, TaskShape DEF Skip, Between
    <2>2. QED
      BY <1>1, <2>1 DEF Skip, TypeOK, Live
  <1>2. ASSUME NEW u \in Url, Admit(t, u) PROVE TypeOK'
    <2>1. [task[t] EXCEPT !.todo = @ \ {u}, !.cur = u, !.pc = "url"] \in Matching
      BY <1>2, TaskShape DEF Admit, Between, Matching
    <2>2. QED
      BY <1>2, <2>1 DEF Admit, TypeOK, Live
  <1>3. ASSUME Finish(t) PROVE TypeOK'
    BY <1>3, TaskShape DEF Finish, TypeOK, Live, Between
  <1>4. QED
    BY <1>1, <1>2, <1>3, MatchTypeOK, StoreTypeOK DEF TaskStep

LEMMA PurgeTypeOK ==
  ASSUME TypeOK, Purge
  PROVE  TypeOK'
  <1> DEFINE kept == {i \in Live : ~Expired(i)}
  <1>1. \A i \in kept : [row[i] EXCEPT !.dup = None] \in Row /\ row[i] \in Row
    BY DEF TypeOK, Row
  <1>2. QED
    BY <1>1 DEF Purge, TypeOK, Live

LEMMA StepTypeOK == TypeOK /\ [Next]_vars => TypeOK'
  <1> SUFFICES ASSUME TypeOK, [Next]_vars PROVE TypeOK'
    OBVIOUS
  <1>1. ASSUME NEW i \in Id, MarkRead(i) PROVE TypeOK'
    <2>1. [row[i] EXCEPT !.read = TRUE] \in Row
      BY <1>1 DEF MarkRead, TypeOK, Row
    <2>2. QED
      BY <1>1, <2>1 DEF MarkRead, TypeOK, Live
  <1>2. ASSUME MarkAllRead PROVE TypeOK'
    <2>1. \A i \in Live : [row[i] EXCEPT !.read = TRUE] \in Row
      BY DEF TypeOK, Row
    <2>2. QED
      BY <1>2, <2>1 DEF MarkAllRead, TypeOK, Live
  <1>3. ASSUME Tick PROVE TypeOK'
    BY <1>3, IngestAssumption DEF Tick, TypeOK, Live
  <1>4. CASE UNCHANGED vars
    BY <1>4 DEF vars, TypeOK, Live
  <1>5. QED
    BY <1>1, <1>2, <1>3, <1>4, FetchTypeOK, TaskTypeOK, PurgeTypeOK DEF Next

\* Whatever the feeds list, however polls overlap and whichever statements
\* fail, the tables and the goroutines of fetchGroup stay well formed.
THEOREM TypeCorrect == Spec => []TypeOK
  BY InitTypeOK, StepTypeOK, PTL DEF Spec

-----------------------------------------------------------------------------
(* Integrity of the table, under any interleaving *)

Integrity == TypeOK /\ OneRowPerUrl /\ NoDanglingDuplicate

LEMMA InsertIntegrity ==
  ASSUME Integrity, NEW t \in Task, NEW i \in Id, Insert(t, i)
  PROVE  OneRowPerUrl' /\ NoDanglingDuplicate'
  <1>1. /\ Live' = Live \cup {i}
        /\ \A j \in Live : row'[j] = row[j]
        /\ row'[i].url = task[t].cur /\ row'[i].dup = task[t].dup
        /\ i \notin Live
    BY DEF Insert, Fresh, Live
  <1>2. task[t].dup \in Live \cup {None}
    BY DEF Insert, KeyHolds
  <1>3. \A j \in Live : row[j].url # task[t].cur
    BY DEF Insert, Stored
  <1>4. QED
    BY <1>1, <1>2, <1>3 DEF Integrity, OneRowPerUrl, NoDanglingDuplicate

LEMMA UpdateIntegrity ==
  ASSUME Integrity, NEW t \in Task, NEW i \in Id, Update(t, i)
  PROVE  OneRowPerUrl' /\ NoDanglingDuplicate'
  <1>1. /\ Live' = Live /\ i \in Live
        /\ \A j \in Live : row'[j].url = row[j].url
        /\ \A j \in Live \ {i} : row'[j].dup = row[j].dup
        /\ row'[i].dup = task[t].dup
    BY DEF Update, Integrity, TypeOK, Live, Row
  <1>2. QED
    BY <1>1 DEF Update, KeyHolds, Integrity, OneRowPerUrl, NoDanglingDuplicate

LEMMA ReadIntegrity ==
  ASSUME Integrity, (\E i \in Id : MarkRead(i)) \/ MarkAllRead
  PROVE  OneRowPerUrl' /\ NoDanglingDuplicate'
  <1>1. Live' = Live /\ \A j \in Live : /\ row'[j].url = row[j].url
                                        /\ row'[j].dup = row[j].dup
    BY DEF MarkRead, MarkAllRead, Integrity, TypeOK, Live, Row
  <1>2. QED
    BY <1>1 DEF Integrity, OneRowPerUrl, NoDanglingDuplicate

\* A purge deletes rows; the rows it keeps lose a duplicate_of that named a
\* deleted one and nothing else.
LEMMA PurgeEffect ==
  ASSUME TypeOK, Purge
  PROVE  /\ Live' \subseteq Live /\ UNCHANGED task
         /\ \A i \in Live' : /\ row'[i].url = row[i].url
                             /\ row'[i].source = row[i].source
                             /\ row'[i].dup = IF row[i].dup \in Live' THEN row[i].dup
                                                                      ELSE None
  <1> DEFINE kept == {i \in Live : ~Expired(i)}
  <1>1. Live' = kept
    BY DEF Purge, Live
  <1>2. \A i \in kept : row[i] \in Row
    BY DEF TypeOK
  <1>3. \A i \in kept : row'[i] = IF row[i].dup \in kept
                                    THEN row[i] ELSE [row[i] EXCEPT !.dup = None]
    BY DEF Purge
  <1>4. QED
    BY <1>1, <1>2, <1>3 DEF Purge, Row

LEMMA StepIntegrity == Integrity /\ [Next]_vars => Integrity'
  <1> SUFFICES ASSUME Integrity, [Next]_vars PROVE Integrity'
    OBVIOUS
  <1>1. TypeOK'
    BY StepTypeOK DEF Integrity
  <1>2. CASE UNCHANGED row
    BY <1>1, <1>2 DEF Integrity, OneRowPerUrl, NoDanglingDuplicate, Live
  <1>3. CASE Purge
    <2>1. /\ Live' \subseteq Live
          /\ \A i \in Live' : /\ row'[i].url = row[i].url
                              /\ row'[i].dup = IF row[i].dup \in Live' THEN row[i].dup
                                                                       ELSE None
      BY <1>3, PurgeEffect DEF Integrity
    <2>2. QED
      BY <1>1, <2>1 DEF Integrity, OneRowPerUrl, NoDanglingDuplicate
  <1>4. QED
    BY <1>1, <1>2, <1>3, InsertIntegrity, UpdateIntegrity, ReadIntegrity
    DEF Next, vars, TaskStep, FetchReturns, Skip, Admit, MatchUrl,
        MatchTitle, StoreFails, Finish, Tick, Integrity

\* However polls overlap, whichever statements fail and whatever the purge
\* deletes between a match and its INSERT, no row names a deleted article and no
\* URL has two rows.
THEOREM TableIntegrity == Spec => [](NoDanglingDuplicate /\ OneRowPerUrl)
  <1>1. Init => Integrity
    BY InitTypeOK DEF Init, Integrity, OneRowPerUrl, NoDanglingDuplicate, Live
  <1>2. Integrity => NoDanglingDuplicate /\ OneRowPerUrl
    BY DEF Integrity
  <1>3. QED
    BY <1>1, <1>2, StepIntegrity, PTL DEF Spec

-----------------------------------------------------------------------------
(* What is filed under an article tells its story, under any interleaving *)

SameStory == Integrity /\ AlikeToPrimary /\ MatchIsAlike

LEMMA MatchAlike ==
  ASSUME SameStory, NEW t \in Task, MatchUrl(t) \/ MatchTitle(t)
  PROVE  AlikeToPrimary' /\ MatchIsAlike'
  <1>1. /\ task[t] \in Matching /\ UNCHANGED row
        /\ \A t2 \in Task \ {t} : task'[t2] = task[t2]
    BY TaskShape DEF MatchUrl, MatchTitle, SameStory, Integrity, TypeOK
  <1>2. \A i \in SameUrl(t) \cup SameTitle(t) : SameTelling(task[t].cur, row[i].url)
    BY DEF SameUrl, SameTitle, SameTelling
  <1>3. /\ task'[t].cur = task[t].cur
        /\ task'[t].dup \in SameUrl(t) \cup SameTitle(t) \cup {None}
    BY <1>1 DEF MatchUrl, MatchTitle, SameStory, Integrity, TypeOK, Matching
  <1>4. None \notin Live
    BY IngestAssumption DEF SameStory, Integrity, TypeOK
  <1>5. MatchIsAlike'
    BY <1>1, <1>2, <1>3, <1>4 DEF SameStory, MatchIsAlike, Active, Live, SameTelling
  <1>6. QED
    BY <1>1, <1>5 DEF SameStory, AlikeToPrimary, SameTelling, Live

\* A goroutine that does not hold a new match, while the table stands still.
LEMMA TaskAlike ==
  ASSUME SameStory, UNCHANGED row,
         \A t \in Task : task'[t] = task[t] \/ task'[t].pc = "idle" \/ task'[t].dup = None
  PROVE  AlikeToPrimary' /\ MatchIsAlike'
  <1>1. None \notin Live
    BY IngestAssumption DEF SameStory, Integrity, TypeOK
  <1>2. QED
    BY <1>1 DEF SameStory, AlikeToPrimary, MatchIsAlike, Active, Live, SameTelling

LEMMA NextItemHolds ==
  ASSUME SameStory, NEW t \in Task, task[t].pc = "store", NextItem(t)
  PROVE  /\ task'[t].dup = None
         /\ \A t2 \in Task \ {t} : task'[t2] = task[t2]
  <1>1. task[t] \in Storing
    BY TaskShape DEF SameStory, Integrity
  <1>2. QED
    BY <1>1 DEF NextItem, Storing, SameStory, Integrity, TypeOK

LEMMA InsertAlike ==
  ASSUME SameStory, NEW t \in Task, NEW i \in Id, Insert(t, i)
  PROVE  AlikeToPrimary' /\ MatchIsAlike'
  <1>1. /\ i \notin Live /\ Live' = Live \cup {i}
        /\ \A j \in Live : row'[j] = row[j]
        /\ row'[i].url = task[t].cur /\ row'[i].dup = task[t].dup
    BY DEF Insert, Fresh, Live
  <1>2. task'[t].dup = None /\ \A t2 \in Task \ {t} : task'[t2] = task[t2]
    BY NextItemHolds DEF Insert
  <1>3. None \notin Live'
    BY <1>1, IngestAssumption DEF SameStory, Integrity, TypeOK
  <1>4. task[t].dup \in Live \cup {None} /\ Active(t)
    BY DEF Insert, KeyHolds, Active
  <1>5. task[t].dup \in Live => SameTelling(task[t].cur, row[task[t].dup].url)
    BY <1>4 DEF SameStory, MatchIsAlike
  <1>6. AlikeToPrimary'
    <2>1. ASSUME NEW j \in Live', row'[j].dup \in Live'
          PROVE  SameTelling(row'[j].url, row'[row'[j].dup].url)
      <3>1. CASE j = i
        BY <1>1, <1>3, <1>4, <1>5, <2>1, <3>1
      <3>2. CASE j \in Live
        <4>1. row[j].dup \in Live
          BY <1>1, <1>3, <2>1, <3>2 DEF SameStory, Integrity, NoDanglingDuplicate
        <4>2. QED
          BY <1>1, <3>2, <4>1 DEF SameStory, AlikeToPrimary
      <3>3. QED
        BY <1>1, <3>1, <3>2
    <2>2. QED
      BY <2>1 DEF AlikeToPrimary, SameTelling
  <1>7. MatchIsAlike'
    <2>1. ASSUME NEW t2 \in Task, Active(t2)', task'[t2].dup \in Live'
          PROVE  SameTelling(task'[t2].cur, row'[task'[t2].dup].url)
      <3>1. t2 # t /\ task'[t2] = task[t2] /\ Active(t2)
        BY <1>2, <1>3, <2>1 DEF Active
      <3>2. task[t2].dup \in Live
        BY <1>1, <2>1, <3>1 DEF Insert, Fresh
      <3>3. QED
        BY <1>1, <3>1, <3>2 DEF SameStory, MatchIsAlike
    <2>2. QED
      BY <2>1 DEF MatchIsAlike, SameTelling
  <1>8. QED
    BY <1>6, <1>7

\* ON CONFLICT leaves the URL as it is, so the match found for it is its match.
LEMMA UpdateAlike ==
  ASSUME SameStory, NEW t \in Task, NEW i \in Id, Update(t, i)
  PROVE  AlikeToPrimary' /\ MatchIsAlike'
  <1>1. /\ Live' = Live /\ i \in Live
        /\ \A j \in Live : row'[j].url = row[j].url
        /\ \A j \in Live \ {i} : row'[j].dup = row[j].dup
        /\ row'[i].dup = task[t].dup /\ row[i].url = task[t].cur
    BY DEF Update, SameStory, Integrity, TypeOK, Live, Row
  <1>2. task'[t].dup = None /\ \A t2 \in Task \ {t} : task'[t2] = task[t2]
    BY NextItemHolds DEF Update
  <1>3. Active(t) /\ None \notin Live
    BY IngestAssumption DEF Update, Active, SameStory, Integrity, TypeOK
  <1>4. AlikeToPrimary'
    BY <1>1, <1>3 DEF SameStory, AlikeToPrimary, MatchIsAlike, SameTelling
  <1>5. MatchIsAlike'
    BY <1>1, <1>2, <1>3 DEF SameStory, MatchIsAlike, SameTelling, Active
  <1>6. QED
    BY <1>4, <1>5

\* Marks and purges: no row gets another URL or another duplicate_of than NULL.
LEMMA ReaderAlike ==
  ASSUME SameStory, (\E i \in Id : MarkRead(i)) \/ MarkAllRead \/ Purge
  PROVE  AlikeToPrimary' /\ MatchIsAlike'
  <1>1. /\ Live' \subseteq Live /\ UNCHANGED task
        /\ \A i \in Live' : /\ row'[i].url = row[i].url
                            /\ row'[i].dup \in {row[i].dup, None}
    BY PurgeEffect DEF MarkRead, MarkAllRead, SameStory, Integrity, TypeOK, Live, Row
  <1>2. None \notin Live
    BY IngestAssumption DEF SameStory, Integrity, TypeOK
  <1>3. QED
    BY <1>1, <1>2 DEF SameStory, AlikeToPrimary, MatchIsAlike, SameTelling, Active

LEMMA StepSameStory == SameStory /\ [Next]_vars => SameStory'
  <1> SUFFICES ASSUME SameStory, [Next]_vars PROVE AlikeToPrimary' /\ MatchIsAlike'
    BY StepIntegrity DEF SameStory
  <1>1. ASSUME NEW t \in Task, StoreFails(t) \/ Finish(t)
        PROVE  AlikeToPrimary' /\ MatchIsAlike'
    <2>1. /\ UNCHANGED row /\ \A t2 \in Task \ {t} : task'[t2] = task[t2]
          /\ task'[t].pc = "idle" \/ task'[t].dup = None
      BY <1>1, NextItemHolds
      DEF StoreFails, Finish, IdleTask, SameStory, Integrity, TypeOK
    <2>2. QED
      BY <2>1, TaskAlike
  <1>2. ASSUME NEW t \in Task, NEW u \in Url, Skip(t, u) \/ Admit(t, u)
        PROVE  AlikeToPrimary' /\ MatchIsAlike'
    <2>1. task[t] \in Between
      BY <1>2, TaskShape DEF Skip, Admit, SameStory, Integrity
    <2>2. /\ UNCHANGED row /\ \A t2 \in Task \ {t} : task'[t2] = task[t2]
          /\ task'[t].dup = None
      BY <1>2, <2>1 DEF Skip, Admit, Between, SameStory, Integrity, TypeOK
    <2>3. QED
      BY <2>2, TaskAlike
  <1>3. ASSUME NEW t \in Task, NEW s \in Source, NEW window \in SUBSET ListedBy[s],
               FetchReturns(t, s, window)
        PROVE  AlikeToPrimary' /\ MatchIsAlike'
    <2>1. /\ UNCHANGED row /\ \A t2 \in Task \ {t} : task'[t2] = task[t2]
          /\ task'[t].dup = None
      BY <1>3 DEF FetchReturns, SameStory, Integrity, TypeOK
    <2>2. QED
      BY <2>1, TaskAlike
  <1>4. CASE Tick \/ UNCHANGED vars
    BY <1>4, TaskAlike DEF Tick, vars
  <1>5. QED
    BY <1>1, <1>2, <1>3, <1>4, MatchAlike, InsertAlike, UpdateAlike, ReaderAlike
    DEF Next, TaskStep

\* However polls overlap and whatever fails or is deleted on the way, what is filed
\* under an article has its normalised URL or a similar title (findDuplicate).
THEOREM DuplicatesAreAlike == Spec => []AlikeToPrimary
  <1>1. Init => SameStory
    BY InitTypeOK
    DEF Init, SameStory, Integrity, OneRowPerUrl, NoDanglingDuplicate, AlikeToPrimary,
        MatchIsAlike, Active, IdleTask, Live
  <1>2. SameStory => AlikeToPrimary
    BY DEF SameStory
  <1>3. QED
    BY <1>1, <1>2, StepSameStory, PTL DEF Spec

-----------------------------------------------------------------------------
(* One visible primary per duplicate, when no URL is handled twice at a time *)

LEMMA InitIInv == Init => IInv
  <1>1. SUFFICES ASSUME Init PROVE IInv
    OBVIOUS
  <1>2. Live = {} /\ \A t \in Task : task[t] = IdleTask
    BY <1>1 DEF Init, Live
  <1>3. QED
    BY <1>1, <1>2, InitTypeOK
    DEF IInv, OneRowPerUrl, OnePollPerSource, OwnItems, PendingNotStored,
        MatchStillHolds, NoDanglingDuplicate, PrimaryIsVisible, CrossSource,
        Active, IdleTask

\* The parts of the invariant that speak of the table alone, and those that
\* speak of the goroutines alone.
TableInv == OneRowPerUrl /\ NoDanglingDuplicate /\ PrimaryIsVisible /\ CrossSource
TasksInv == OnePollPerSource /\ OwnItems

LEMMA TableUnchanged ==
  ASSUME IInv, UNCHANGED row
  PROVE  TableInv'
  BY DEF IInv, TableInv, OneRowPerUrl, NoDanglingDuplicate, PrimaryIsVisible,
         CrossSource, Visible, Live

\* A step in which no goroutine starts, and in which none takes items from
\* elsewhere than its own list, keeps the goroutines' part of the invariant.
LEMMA TasksKept ==
  ASSUME IInv,
         \A t \in Task : Active(t)' =>
            /\ Active(t)
            /\ task'[t].source = task[t].source
            /\ task'[t].todo \subseteq task[t].todo
            /\ task'[t].cur \in task[t].todo \cup {task[t].cur, None}
  PROVE  TasksInv'
  <1>1. OnePollPerSource'
    BY DEF IInv, OnePollPerSource
  <1>2. ASSUME NEW t \in Task, Active(t)'
        PROVE  /\ task'[t].todo \subseteq ListedBy[task'[t].source]
               /\ task'[t].cur \in ListedBy[task'[t].source] \cup {None}
    BY <1>2 DEF IInv, OwnItems
  <1>3. QED
    BY <1>1, <1>2 DEF TasksInv, OwnItems

LEMMA FetchIInv ==
  ASSUME IInv, OneHandlerPerUrl, NEW t \in Task, NEW s \in Source,
         NEW window \in SUBSET ListedBy[s], FetchReturns(t, s, window)
  PROVE  IInv'
  <1>1. TypeOK' /\ TableInv'
    BY FetchTypeOK, TableUnchanged DEF IInv, FetchReturns
  <1>2. /\ task' \in [Task -> {IdleTask} \cup Between \cup Matching \cup Storing]
        /\ task'[t] = [pc |-> "next", source |-> s, todo |-> window,
                       cur |-> None, dup |-> None]
        /\ \A t2 \in Task \ {t} : task'[t2] = task[t2]
    BY <1>1 DEF FetchReturns, IInv, TypeOK
  <1>3. OnePollPerSource'
    BY <1>2 DEF IInv, OnePollPerSource, OneHandlerPerUrl, FetchReturns, Active
  <1>4. OwnItems'
    BY <1>2 DEF IInv, OwnItems, Active
  <1>5. PendingNotStored'
    BY <1>2 DEF IInv, PendingNotStored, FetchReturns, Stored, Live
  <1>6. MatchStillHolds'
    BY <1>2, IngestAssumption
    DEF IInv, TypeOK, MatchStillHolds, FetchReturns, Visible, Live, Active
  <1>7. QED
    BY <1>1, <1>3, <1>4, <1>5, <1>6 DEF IInv, TableInv

LEMMA SkipIInv ==
  ASSUME IInv, NEW t \in Task, NEW u \in Url, Skip(t, u)
  PROVE  IInv'
  <1>1. TypeOK' /\ TableInv'
    BY TaskTypeOK, TableUnchanged DEF IInv, Skip, TaskStep
  <1>2. /\ task'[t] = [task[t] EXCEPT !.todo = @ \ {u}] /\ task[t] \in Between
        /\ \A t2 \in Task \ {t} : task'[t2] = task[t2]
    BY TaskShape DEF Skip, IInv, TypeOK
  <1>3. \A t2 \in Task : /\ task'[t2].pc = task[t2].pc
    BY <1>2 DEF Between
  <1>4. \A t2 \in Task : Active(t2) =>
           /\ task'[t2].source = task[t2].source /\ task'[t2].cur = task[t2].cur
           /\ task'[t2].dup = task[t2].dup /\ task'[t2].todo \subseteq task[t2].todo
    BY <1>2 DEF Between
  <1>5. TasksInv'
    BY <1>3, <1>4, TasksKept DEF Active
  <1>6. MatchStillHolds'
    BY <1>3, <1>4 DEF MatchStillHolds, Skip, IInv, Active, Visible, Live
  <1>7. PendingNotStored'
    BY <1>3, <1>4 DEF PendingNotStored, Skip, IInv, Active, Stored, Live
  <1>8. QED
    BY <1>1, <1>5, <1>6, <1>7 DEF IInv, TableInv, TasksInv

LEMMA AdmitIInv ==
  ASSUME IInv, OneHandlerPerUrl, NEW t \in Task, NEW u \in Url, Admit(t, u)
  PROVE  IInv'
  <1>1. TypeOK' /\ TableInv'
    BY TaskTypeOK, TableUnchanged DEF IInv, Admit, TaskStep
  <1>2. /\ task'[t] = [task[t] EXCEPT !.todo = @ \ {u}, !.cur = u, !.pc = "url"]
        /\ task[t] \in Between
        /\ \A t2 \in Task \ {t} : task'[t2] = task[t2]
    BY TaskShape DEF Admit, IInv, TypeOK
  <1>3. /\ task'[t].pc = "url" /\ task'[t].source = task[t].source
        /\ task'[t].cur = u /\ task'[t].dup = None
        /\ task'[t].todo = task[t].todo \ {u}
        /\ task[t].pc = "next" /\ Active(t) /\ u \in task[t].todo
    <2>1. task[t].pc = "next" /\ Active(t) /\ u \in task[t].todo
      BY DEF Admit, Active
    <2>2. task'[t].pc = "url" /\ task'[t].cur = u
      BY <1>2 DEF Between
    <2>3. task'[t].source = task[t].source /\ task'[t].dup = None
      BY <1>2 DEF Between
    <2>4. task'[t].todo = task[t].todo \ {u}
      BY <1>2 DEF Between
    <2>5. QED
      BY <2>1, <2>2, <2>3, <2>4
  <1>4. TasksInv'
    BY <1>2, <1>3, TasksKept DEF Active
  <1>5. PendingNotStored'
    <2>1. ~Stored(u) /\ UNCHANGED row
      BY DEF Admit, OneHandlerPerUrl
    <2>2. ASSUME NEW t2 \in Task, task'[t2].pc \in {"url", "title", "store"}
          PROVE  ~Stored(task'[t2].cur)
      BY <1>2, <1>3, <2>1, <2>2 DEF PendingNotStored, IInv
    <2>3. QED
      BY <2>1, <2>2 DEF PendingNotStored, Stored, Live
  <1>6. MatchStillHolds'
    BY <1>2, <1>3, IngestAssumption
    DEF MatchStillHolds, IInv, TypeOK, Admit, Active, Visible, Live
  <1>7. QED
    BY <1>1, <1>4, <1>5, <1>6 DEF IInv, TableInv, TasksInv

\* What either query of findDuplicate returns is a shown row of another source.
LEMMA MatchIsCandidate ==
  ASSUME NEW t \in Task
  PROVE  SameUrl(t) \subseteq Candidate(t) /\ SameTitle(t) \subseteq Candidate(t)
  BY DEF SameUrl, SameTitle, Recent

LEMMA MatchIInv ==
  ASSUME IInv, NEW t \in Task, MatchUrl(t) \/ MatchTitle(t)
  PROVE  IInv'
  <1>1. TypeOK' /\ TableInv'
    BY MatchTypeOK, TableUnchanged DEF IInv, MatchUrl, MatchTitle
  <1>2. task[t] \in Matching /\ task[t].pc \in {"url", "title"} /\ UNCHANGED row
    BY TaskShape DEF MatchUrl, MatchTitle, IInv
  <1>3. /\ task'[t].pc \in {"title", "store"} /\ task'[t].source = task[t].source
        /\ task'[t].cur = task[t].cur /\ task'[t].todo = task[t].todo
        /\ task'[t].dup \in Candidate(t) \cup {None}
        /\ \A t2 \in Task \ {t} : task'[t2] = task[t2]
    BY <1>2, MatchIsCandidate DEF MatchUrl, MatchTitle, IInv, TypeOK, Matching
  <1>4. TasksInv'
    BY <1>2, <1>3, TasksKept DEF Active
  <1>5. PendingNotStored'
    BY <1>2, <1>3 DEF PendingNotStored, IInv, Stored, Live
  <1>6. MatchStillHolds'
    BY <1>2, <1>3, IngestAssumption
    DEF MatchStillHolds, IInv, TypeOK, Candidate, Active, Visible, Live
  <1>7. QED
    BY <1>1, <1>4, <1>5, <1>6 DEF IInv, TableInv, TasksInv

\* The end of an item keeps the goroutines' part of the invariant.
LEMMA NextItemTasks ==
  ASSUME IInv, NEW t \in Task, task[t].pc = "store", NextItem(t)
  PROVE  /\ TasksInv'
         /\ task'[t].pc = "next" /\ task'[t].dup = None
         /\ \A t2 \in Task \ {t} : task'[t2] = task[t2]
  <1>1. /\ task[t] \in Storing
        /\ task'[t] = [task[t] EXCEPT !.pc = "next", !.cur = None, !.dup = None]
        /\ \A t2 \in Task \ {t} : task'[t2] = task[t2]
    BY TaskShape DEF NextItem, IInv, TypeOK
  <1>2. /\ task'[t].pc = "next" /\ task'[t].source = task[t].source
        /\ task'[t].cur = None /\ task'[t].todo = task[t].todo /\ task'[t].dup = None
    BY <1>1 DEF Storing
  <1>3. QED
    BY <1>1, <1>2, TasksKept DEF Active

LEMMA StoreFailsIInv ==
  ASSUME IInv, NEW t \in Task, StoreFails(t)
  PROVE  IInv'
  <1>1. TypeOK' /\ TableInv' /\ UNCHANGED row
    BY StoreTypeOK, TableUnchanged DEF IInv, StoreFails
  <1>2. /\ TasksInv' /\ task'[t].pc = "next" /\ task'[t].dup = None
        /\ \A t2 \in Task \ {t} : task'[t2] = task[t2]
    BY NextItemTasks DEF StoreFails
  <1>3. PendingNotStored'
    BY <1>1, <1>2 DEF PendingNotStored, IInv, Stored, Live
  <1>4. MatchStillHolds'
    BY <1>1, <1>2, IngestAssumption
    DEF MatchStillHolds, IInv, TypeOK, Active, Visible, Live
  <1>5. QED
    BY <1>1, <1>2, <1>3, <1>4 DEF IInv, TableInv, TasksInv

\* Nothing pending is stored, so the upsert never meets a conflict.
LEMMA NoUpdate ==
  ASSUME IInv, NEW t \in Task, NEW i \in Id, Update(t, i)
  PROVE  FALSE
  BY DEF IInv, PendingNotStored, Update, Stored

\* Two goroutines at work on an item are at work on different ones.
LEMMA DifferentItems ==
  ASSUME IInv, OneHandlerPerUrl, NEW t \in Task, NEW t2 \in Task, t # t2,
         task[t].pc \in {"url", "title", "store"},
         task[t2].pc \in {"url", "title", "store"}
  PROVE  task[t].cur # task[t2].cur
  <1>1. Active(t) /\ Active(t2)
    BY DEF Active
  <1>2. /\ task[t] \in Matching \cup Storing
        /\ task[t2] \in Matching \cup Storing
    BY TaskShape DEF IInv
  <1>3. /\ task[t].source \in Source /\ task[t2].source \in Source
        /\ task[t].cur \in Url /\ task[t2].cur \in Url
    BY <1>2 DEF Matching, Storing
  <1>4. /\ task[t].cur \in ListedBy[task[t].source]
        /\ task[t2].cur \in ListedBy[task[t2].source]
    BY <1>1, <1>3, IngestAssumption DEF IInv, OwnItems
  <1>5. task[t].source # task[t2].source
    BY <1>1 DEF IInv, OnePollPerSource
  <1>6. QED
    BY <1>3, <1>4, <1>5 DEF OneHandlerPerUrl

LEMMA InsertIInv ==
  ASSUME IInv, OneHandlerPerUrl, NEW t \in Task, NEW i \in Id, Insert(t, i)
  PROVE  IInv'
  <1>1. TypeOK'
    BY StoreTypeOK DEF IInv
  <1>2. /\ TasksInv' /\ task'[t].pc = "next" /\ task'[t].dup = None
        /\ \A t2 \in Task \ {t} : task'[t2] = task[t2]
    BY NextItemTasks DEF Insert
  <1>3. /\ i \notin Live /\ Live' = Live \cup {i}
        /\ \A j \in Live : row'[j] = row[j]
        /\ row'[i] = [url |-> task[t].cur, source |-> task[t].source,
                      dup |-> task[t].dup, read |-> FALSE]
    BY DEF Insert, Fresh, Live
  <1>4. row'[i].url = task[t].cur /\ row'[i].source = task[t].source
        /\ row'[i].dup = task[t].dup
    BY <1>3
  <1>5. Active(t) /\ task[t].dup \in Live \cup {None}
    BY DEF Insert, KeyHolds, Active
  <1>6. task[t].dup # None =>
          task[t].dup \in Visible /\ row[task[t].dup].source # task[t].source
    BY <1>5 DEF IInv, MatchStillHolds
  <1>7. OneRowPerUrl'
    BY <1>3, <1>4 DEF IInv, OneRowPerUrl, Insert, Stored
  <1>8. NoDanglingDuplicate'
    BY <1>3, <1>4, <1>5 DEF IInv, NoDanglingDuplicate
  <1>9. PrimaryIsVisible'
    BY <1>3, <1>4, <1>6 DEF IInv, PrimaryIsVisible, Visible
  <1>10. CrossSource'
    <2>1. ASSUME NEW j \in Live', row'[j].dup \in Live'
          PROVE  row'[row'[j].dup].source # row'[j].source
      <3>1. row'[j].dup \in Live /\ row'[row'[j].dup].source = row[row'[j].dup].source
        BY <1>3, <1>4, <1>5, <2>1, IngestAssumption, <1>1
        DEF IInv, NoDanglingDuplicate, TypeOK
      <3>2. CASE j = i
        BY <1>4, <1>6, <3>1, <3>2, IngestAssumption DEF IInv, TypeOK
      <3>3. CASE j # i
        BY <1>3, <2>1, <3>1, <3>3 DEF IInv, CrossSource
      <3>4. QED
        BY <3>2, <3>3
    <2>2. QED
      BY <2>1 DEF CrossSource
  <1>11. PendingNotStored'
    <2>1. ASSUME NEW t2 \in Task, task'[t2].pc \in {"url", "title", "store"}
          PROVE  ~Stored(task[t2].cur)' /\ task'[t2] = task[t2]
      <3>1. t2 # t /\ task'[t2] = task[t2]
        BY <1>2, <2>1
      <3>2. task[t2].cur # task[t].cur /\ ~Stored(task[t2].cur)
        BY <2>1, <3>1, DifferentItems DEF IInv, PendingNotStored, Insert
      <3>3. QED
        BY <1>3, <1>4, <3>1, <3>2 DEF Stored
    <2>2. QED
      BY <2>1 DEF PendingNotStored, Stored
  <1>12. MatchStillHolds'
    <2>1. ASSUME NEW t2 \in Task, Active(t2)', task'[t2].dup \in Live'
          PROVE  task'[t2].dup \in Visible' /\ row'[task'[t2].dup].source # task'[t2].source
      <3>1. t2 # t /\ task'[t2] = task[t2] /\ Active(t2)
        BY <1>1, <1>2, <2>1, IngestAssumption DEF TypeOK, Active
      <3>2. task[t2].dup # i
        BY <3>1 DEF Insert, Fresh
      <3>3. QED
        BY <1>3, <2>1, <3>1, <3>2 DEF IInv, MatchStillHolds, Visible
    <2>2. QED
      BY <2>1 DEF MatchStillHolds
  <1>13. QED
    BY <1>1, <1>2, <1>7, <1>8, <1>9, <1>10, <1>11, <1>12 DEF IInv, TasksInv

LEMMA FinishIInv ==
  ASSUME IInv, NEW t \in Task, Finish(t)
  PROVE  IInv'
  <1>1. TypeOK' /\ TableInv' /\ UNCHANGED row
    BY TaskTypeOK, TableUnchanged DEF IInv, Finish, TaskStep
  <1>2. task'[t] = IdleTask /\ \A t2 \in Task \ {t} : task'[t2] = task[t2]
    BY DEF Finish, IInv, TypeOK
  <1>3. TasksInv' /\ PendingNotStored' /\ MatchStillHolds'
    BY <1>1, <1>2 DEF TasksInv, PendingNotStored, MatchStillHolds, IInv, IdleTask,
       OnePollPerSource, OwnItems, Active, Stored, Visible, Live
  <1>4. QED
    BY <1>1, <1>3 DEF IInv, TableInv, TasksInv

LEMMA ReadIInv ==
  ASSUME IInv, (\E i \in Id : MarkRead(i)) \/ MarkAllRead
  PROVE  IInv'
  <1>1. TypeOK'
    BY StepTypeOK DEF IInv, Next
  <1>2. /\ Live' = Live /\ UNCHANGED task
        /\ \A i \in Live : /\ row'[i].url = row[i].url /\ row'[i].dup = row[i].dup
                           /\ row'[i].source = row[i].source
    BY DEF MarkRead, MarkAllRead, IInv, TypeOK, Live, Row
  <1>3. TableInv'
    BY <1>2 DEF TableInv, IInv, OneRowPerUrl, NoDanglingDuplicate, PrimaryIsVisible,
       CrossSource, Visible
  <1>4. TasksInv' /\ PendingNotStored' /\ MatchStillHolds'
    BY <1>2 DEF TasksInv, PendingNotStored, MatchStillHolds, IInv,
       OnePollPerSource, OwnItems, Active, Stored, Visible
  <1>5. QED
    BY <1>1, <1>3, <1>4 DEF IInv, TableInv, TasksInv

LEMMA PurgeIInv ==
  ASSUME IInv, Purge
  PROVE  IInv'
  <1>1. TypeOK'
    BY PurgeTypeOK DEF IInv
  <1>2. /\ Live' \subseteq Live /\ UNCHANGED task
        /\ \A i \in Live' : /\ row'[i].url = row[i].url
                            /\ row'[i].source = row[i].source
                            /\ row'[i].dup = IF row[i].dup \in Live' THEN row[i].dup
                                                                     ELSE None
    BY PurgeEffect DEF IInv
  <1>3. TableInv'
    <2>1. OneRowPerUrl' /\ NoDanglingDuplicate'
      BY <1>2 DEF IInv, OneRowPerUrl, NoDanglingDuplicate
    <2>2. PrimaryIsVisible'
      BY <1>2 DEF IInv, PrimaryIsVisible, Visible
    <2>3. None \notin Live'
      BY <1>1, IngestAssumption DEF TypeOK
    <2>4. CrossSource'
      BY <1>2, <2>3 DEF IInv, CrossSource
    <2>5. QED
      BY <2>1, <2>2, <2>4 DEF TableInv
  <1>4. TasksInv' /\ PendingNotStored' /\ MatchStillHolds'
    BY <1>2 DEF TasksInv, PendingNotStored, MatchStillHolds, IInv,
       OnePollPerSource, OwnItems, Active, Stored, Visible
  <1>5. QED
    BY <1>1, <1>3, <1>4 DEF IInv, TableInv, TasksInv

LEMMA StillIInv ==
  ASSUME IInv, Tick \/ UNCHANGED vars
  PROVE  IInv'
  <1>1. TypeOK' /\ TableInv' /\ UNCHANGED <<row, task>>
    BY StepTypeOK, TableUnchanged DEF IInv, Next, Tick, vars
  <1>2. TasksInv' /\ PendingNotStored' /\ MatchStillHolds'
    BY <1>1 DEF TasksInv, PendingNotStored, MatchStillHolds, IInv,
       OnePollPerSource, OwnItems, Active, Stored, Visible, Live
  <1>3. QED
    BY <1>1, <1>2 DEF IInv, TableInv, TasksInv

LEMMA StepIInv == OneHandlerPerUrl /\ IInv /\ [Next]_vars => IInv'
  <1> SUFFICES ASSUME OneHandlerPerUrl, IInv, [Next]_vars PROVE IInv'
    OBVIOUS
  <1>1. ASSUME NEW t \in Task, TaskStep(t) PROVE IInv'
    BY <1>1, SkipIInv, AdmitIInv, MatchIInv, InsertIInv, NoUpdate, StoreFailsIInv,
       FinishIInv DEF TaskStep
  <1>2. QED
    BY <1>1, FetchIInv, ReadIInv, PurgeIInv, StillIInv DEF Next

LEMMA AlwaysIInv ==
  ASSUME OneHandlerPerUrl
  PROVE  Spec => []IInv
  <1>1. IInv /\ [Next]_vars => IInv'
    BY StepIInv
  <1>2. QED
    BY <1>1, InitIInv, PTL DEF Spec

\* When no URL is handled by two goroutines at a time, every duplicate points at
\* an article the reader shows, and that article is of another feed.
THEOREM PrimaryAlwaysVisible ==
  ASSUME OneHandlerPerUrl
  PROVE  Spec => [](PrimaryIsVisible /\ CrossSource)
  <1>1. IInv => PrimaryIsVisible /\ CrossSource
    BY DEF IInv
  <1>2. QED
    BY <1>1, AlwaysIInv, PTL

\* Then a duplicate is a telling of the same story by another feed.
THEOREM DuplicatesAreTrue ==
  ASSUME OneHandlerPerUrl
  PROVE  Spec => []TrueDuplicate
  <1>1. Spec => []CrossSource
    <2>1. PrimaryIsVisible /\ CrossSource => CrossSource
      OBVIOUS
    <2>2. QED
      BY <2>1, PrimaryAlwaysVisible, PTL
  <1>2. CrossSource /\ AlikeToPrimary => TrueDuplicate
    BY DEF TrueDuplicate
  <1>3. QED
    BY <1>1, <1>2, DuplicatesAreAlike, PTL

-----------------------------------------------------------------------------
(* What a step does to the readers' view *)

\* Of the rows both before and after a step, only a purge changes a
\* duplicate_of, and only where it deletes the row it names.
LEMMA DuplicateOfKept ==
  ASSUME IInv, [Next]_vars, NEW i \in Live, i \in Live'
  PROVE  \/ row'[i].dup = row[i].dup
         \/ row'[i].dup = None /\ row[i].dup # None /\ row[i].dup \notin Live'
  <1>1. CASE UNCHANGED row
    BY <1>1
  <1>2. ASSUME NEW t \in Task, NEW j \in Id, Insert(t, j)
        PROVE  row'[i].dup = row[i].dup
    BY <1>2 DEF Insert, Fresh, Live
  <1>3. CASE (\E j \in Id : MarkRead(j)) \/ MarkAllRead
    BY <1>3 DEF MarkRead, MarkAllRead, IInv, TypeOK, Live, Row
  <1>4. CASE Purge
    <2>1. row'[i].dup = IF row[i].dup \in Live' THEN row[i].dup ELSE None
      BY <1>4, PurgeEffect DEF IInv
    <2>2. QED
      BY <2>1
  <1>5. QED
    BY <1>1, <1>2, <1>3, <1>4, NoUpdate
    DEF Next, vars, TaskStep, FetchReturns, Skip, Admit, MatchUrl,
        MatchTitle, StoreFails, Finish, Tick

\* When no URL is handled by two goroutines at a time, a shown article stays
\* shown until it is deleted, and a hidden one comes back only with the deletion
\* of the article that stood for it.
THEOREM VisibilityIsStable ==
  ASSUME OneHandlerPerUrl
  PROVE  Spec => VisibilityStable
  <1> DEFINE Stable == \A i \in Live \cap Live' :
               /\ row[i].dup = None => row'[i].dup = None
               /\ (row[i].dup # None /\ row'[i].dup = None) => row[i].dup \notin Live'
  <1>1. IInv /\ [Next]_vars => [Stable]_vars
    BY DuplicateOfKept
  <1>2. QED
    BY <1>1, AlwaysIInv, PTL DEF Spec, VisibilityStable

-----------------------------------------------------------------------------
(* The table implements the corpus *)

LEMMA RowOfUrl ==
  OneRowPerUrl => \A i \in Live : RowOf(row[i].url) = i
  BY DEF OneRowPerUrl, RowOf

\* The view in terms of rows.
ViewOk ==
  /\ DOMAIN coverOf = storedUrls
  /\ \A i \in Live : coverOf[row[i].url] = IF row[i].dup = None THEN row[i].url
                                           ELSE row[row[i].dup].url

LEMMA View == OneRowPerUrl => ViewOk
  BY RowOfUrl DEF ViewOk, coverOf, storedUrls

LEMMA NextView == OneRowPerUrl' => ViewOk'
  BY View, PTL

\* The initial tables show the empty corpus.
LEMMA InitCorpus == Init => Abstract!CorpusInit
  <1>1. SUFFICES ASSUME Init PROVE storedUrls = {} /\ coverOf = [u \in {} |-> u]
    BY DEF Abstract!CorpusInit
  <1>2. storedUrls = {}
    BY <1>1 DEF Init, storedUrls, Live
  <1>3. QED
    BY <1>2 DEF coverOf

\* A step that keeps every row's URL and duplicate_of keeps the view.
LEMMA ViewKept ==
  ASSUME OneRowPerUrl, OneRowPerUrl', Live' = Live, NoDanglingDuplicate,
         \A i \in Live : row'[i].url = row[i].url /\ row'[i].dup = row[i].dup
  PROVE  UNCHANGED <<storedUrls, coverOf>>
  <1>1. storedUrls' = storedUrls
    BY DEF storedUrls
  <1>2. \A u \in storedUrls : coverOf'[u] = coverOf[u]
    BY View, NextView DEF ViewOk, storedUrls, NoDanglingDuplicate
  <1>3. coverOf = [u \in storedUrls |-> coverOf[u]]
    BY DEF coverOf
  <1>4. coverOf' = [u \in storedUrls' |-> coverOf'[u]]
    BY DEF coverOf
  <1>5. QED
    BY <1>1, <1>2, <1>3, <1>4

\* An INSERT adds an article that is shown, or filed under one that is.
LEMMA InsertAdds ==
  ASSUME IInv, OneRowPerUrl', NEW t \in Task, NEW i \in Id, Insert(t, i)
  PROVE  Abstract!CorpusNext
  <1> DEFINE u == task[t].cur
             v == IF task[t].dup = None THEN u ELSE row[task[t].dup].url
  <1>1. u \in Url /\ u \notin storedUrls
    BY TaskShape DEF Insert, IInv, Storing, Stored, storedUrls
  <1>2. /\ Live' = Live \cup {i} /\ i \notin Live
        /\ \A j \in Live : row'[j] = row[j]
        /\ row'[i].url = u /\ row'[i].dup = task[t].dup
    BY DEF Insert, Fresh, Live
  <1>3. storedUrls' = storedUrls \cup {u}
    BY <1>2 DEF storedUrls
  <1>4. task[t].dup # None => task[t].dup \in Live /\ task[t].dup \in Visible
    BY DEF Insert, KeyHolds, IInv, MatchStillHolds, Active
  <1>5. v \in Abstract!Shown \cup {u}
    BY <1>4, View DEF Abstract!Shown, ViewOk, IInv, Visible, storedUrls
  <1>6. coverOf'[u] = v
    BY <1>2, <1>4, NextView DEF ViewOk
  <1>7. \A w \in storedUrls : coverOf'[w] = coverOf[w]
    BY <1>2, View, NextView DEF ViewOk, IInv, storedUrls, NoDanglingDuplicate
  <1>8. coverOf' = [w \in storedUrls' |-> coverOf'[w]]
    BY DEF coverOf
  <1>9. coverOf' = [w \in storedUrls \cup {u} |-> IF w = u THEN v ELSE coverOf[w]]
    BY <1>1, <1>3, <1>6, <1>7, <1>8
  <1>10. QED
    BY <1>1, <1>3, <1>5, <1>9 DEF Abstract!CorpusNext, Abstract!Add

\* A purge removes articles, and what they stood for is shown again.
LEMMA PurgeRemoves ==
  ASSUME IInv, OneRowPerUrl', Purge
  PROVE  Abstract!CorpusNext
  <1> DEFINE gone == storedUrls \ storedUrls'
  <1>1. /\ Live' \subseteq Live
        /\ \A i \in Live' : /\ row'[i].url = row[i].url
                            /\ row'[i].dup = IF row[i].dup \in Live' THEN row[i].dup
                                                                     ELSE None
    BY PurgeEffect DEF IInv
  <1>2. storedUrls' = storedUrls \ gone /\ gone \subseteq storedUrls
    BY <1>1 DEF storedUrls
  <1>3. \A i \in Live : row[i].url \in gone <=> i \notin Live'
    BY <1>1 DEF storedUrls, IInv, OneRowPerUrl
  <1>4. ASSUME NEW i \in Live'
        PROVE  coverOf'[row[i].url] = IF coverOf[row[i].url] \in gone THEN row[i].url
                                      ELSE coverOf[row[i].url]
    <2>1. None \notin Live'
      BY <1>1, IngestAssumption DEF IInv, TypeOK
    <2>2. coverOf[row[i].url] = IF row[i].dup = None THEN row[i].url
                                ELSE row[row[i].dup].url
      BY <1>1, View DEF ViewOk, IInv
    <2>3. coverOf'[row[i].url] = IF row'[i].dup = None THEN row[i].url
                                 ELSE row'[row'[i].dup].url
      BY <1>1, NextView DEF ViewOk
    <2>4. CASE row[i].dup = None
      BY <1>1, <1>3, <2>1, <2>2, <2>3, <2>4
    <2>5. CASE row[i].dup # None
      <3>1. row[i].dup \in Live
        BY <1>1, <2>5 DEF IInv, NoDanglingDuplicate
      <3>2. QED
        BY <1>1, <1>3, <2>1, <2>2, <2>3, <2>5, <3>1
    <2>6. QED
      BY <2>4, <2>5
  <1>5. \A w \in storedUrls' : \E i \in Live' : w = row[i].url
    BY <1>1 DEF storedUrls
  <1>6. coverOf' = [w \in storedUrls' |-> coverOf'[w]]
    BY DEF coverOf
  <1>7. coverOf' = [w \in storedUrls \ gone |-> IF coverOf[w] \in gone THEN w
                                                ELSE coverOf[w]]
    BY <1>2, <1>4, <1>5, <1>6
  <1>8. Abstract!Remove(gone)
    BY <1>2, <1>7 DEF Abstract!Remove
  <1>9. QED
    BY <1>2, <1>8 DEF Abstract!CorpusNext

LEMMA StepCorpus ==
  ASSUME IInv, IInv', [Next]_vars
  PROVE  [Abstract!CorpusNext]_(Abstract!corpusVars)
  <1> USE DEF Abstract!corpusVars
  <1>1. OneRowPerUrl /\ OneRowPerUrl' /\ NoDanglingDuplicate
    BY DEF IInv
  <1>2. CASE UNCHANGED row
    BY <1>1, <1>2, ViewKept DEF Live
  <1>3. ASSUME NEW t \in Task, NEW j \in Id, Insert(t, j)
        PROVE  Abstract!CorpusNext
    BY <1>1, <1>3, InsertAdds
  <1>4. CASE (\E j \in Id : MarkRead(j)) \/ MarkAllRead
    <2>1. Live' = Live /\ \A i \in Live : /\ row'[i].url = row[i].url
                                          /\ row'[i].dup = row[i].dup
      BY <1>4 DEF MarkRead, MarkAllRead, IInv, TypeOK, Live, Row
    <2>2. QED
      BY <1>1, <2>1, ViewKept
  <1>5. CASE Purge
    BY <1>1, <1>5, PurgeRemoves
  <1>6. QED
    BY <1>2, <1>3, <1>4, <1>5, NoUpdate
    DEF Next, vars, TaskStep, FetchReturns, Skip, Admit, MatchUrl,
        MatchTitle, StoreFails, Finish, Tick

\* When no URL is handled by two goroutines at a time, the article table keeps
\* the promise of Corpus to its readers, whatever the feeds, the goroutines, the
\* reader and the purge do.
THEOREM TableImplementsCorpus ==
  ASSUME OneHandlerPerUrl
  PROVE  Spec => ImplementsCorpus
  <1>1. IInv /\ IInv' /\ [Next]_vars => [Abstract!CorpusNext]_(Abstract!corpusVars)
    BY StepCorpus
  <1>2. QED
    BY <1>1, InitCorpus, AlwaysIInv, PTL
    DEF Spec, ImplementsCorpus, Abstract!CorpusSpec

\* In particular every stored article is covered by one that is shown.
THEOREM EverythingCovered ==
  ASSUME OneHandlerPerUrl
  PROVE  Spec => []Abstract!Covered
  <1>1. IInv => Abstract!Covered
    <2>1. SUFFICES ASSUME IInv, NEW i \in Live
                   PROVE  coverOf[row[i].url] \in Abstract!Shown
      BY DEF Abstract!Covered, storedUrls
    <2>2. ViewOk
      BY <2>1, View DEF IInv
    <2>3. CASE row[i].dup = None
      BY <2>1, <2>2, <2>3 DEF ViewOk, Abstract!Shown, storedUrls
    <2>4. CASE row[i].dup # None
      <3>1. row[i].dup \in Live /\ row[row[i].dup].dup = None
        BY <2>1, <2>4 DEF IInv, NoDanglingDuplicate, PrimaryIsVisible, Visible
      <3>2. QED
        BY <2>1, <2>2, <2>4, <3>1 DEF ViewOk, Abstract!Shown, storedUrls
    <2>5. QED
      BY <2>3, <2>4
  <1>2. QED
    BY <1>1, AlwaysIInv, PTL
=============================================================================
