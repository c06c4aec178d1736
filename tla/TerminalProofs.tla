--------------------------- MODULE TerminalProofs ---------------------------
(***************************************************************************)
(* Theorems about the terminal reader, for any articles, filters, windows, *)
(* terminal sizes and habits, whatever the daemon does meanwhile.          *)
(***************************************************************************)
EXTENDS Terminal, FunctionTheorems, FiniteSetTheorems, TLAPS

-----------------------------------------------------------------------------
(* Lists in order *)

\* There is a list of the members of a finite set by falling key and tie: each has
\* the place that the number of those before it gives, where members that agree in
\* both are told apart by some numbering.
LEMMA OrderExists ==
  ASSUME NEW S, IsFiniteSet(S), NEW key \in [S -> Int], NEW tie \in [S -> Int]
  PROVE  \E s \in [1..Cardinality(S) -> S] :
           \A i, j \in 1..Cardinality(S) : i < j =>
             /\ s[i] # s[j]
             /\ \/ key[s[i]] > key[s[j]]
                \/ key[s[i]] = key[s[j]] /\ tie[s[i]] >= tie[s[j]]
  <1> DEFINE n == Cardinality(S)
  <1>1. n \in Nat /\ ExistsBijection(S, 1..n)
    BY FS_CardinalityType, Fun_ExistsBijSymmetric
  <1>2. PICK g \in [S -> 1..n] : \A a, b \in S : g[a] = g[b] => a = b
    BY <1>1 DEF ExistsBijection, Bijection, Injection, IsInjective
  <1> HIDE DEF n
  <1> DEFINE Before(a, b) == \/ key[a] > key[b]
                             \/ key[a] = key[b] /\ tie[a] > tie[b]
                             \/ key[a] = key[b] /\ tie[a] = tie[b] /\ g[a] <= g[b]
             Upto(a) == {b \in S : Before(b, a)}
             place == [a \in S |-> Cardinality(Upto(a))]
  <1>3. \A a \in S : key[a] \in Int /\ tie[a] \in Int /\ g[a] \in Int
    BY <1>1, <1>2
  <1>4. \A a, b \in S : Before(a, b) \/ Before(b, a)
    BY <1>3
  <1>5. \A a, b \in S : Before(a, b) /\ Before(b, a) => a = b
    <2>1. ASSUME NEW a \in S, NEW b \in S, Before(a, b), Before(b, a)
          PROVE  g[a] = g[b]
      BY <1>3, <2>1
    <2>2. QED
      BY <1>2, <2>1
  <1>6. \A a, b, c \in S : Before(a, b) /\ Before(b, c) => Before(a, c)
    BY <1>3
  <1>7. \A a \in S : a \in Upto(a)
    BY <1>3
  <1> HIDE DEF Before
  <1>8. \A a \in S : IsFiniteSet(Upto(a)) /\ Cardinality(Upto(a)) \in 1..n
    <2>1. ASSUME NEW a \in S
          PROVE  IsFiniteSet(Upto(a)) /\ Cardinality(Upto(a)) \in 1..n
      <3>1. Upto(a) \in SUBSET S /\ Upto(a) # {}
        BY <1>7
      <3>2. IsFiniteSet(Upto(a)) /\ Cardinality(Upto(a)) <= Cardinality(S)
        BY <3>1, FS_Subset
      <3>3. Cardinality(Upto(a)) \in Nat /\ Cardinality(Upto(a)) # 0
        BY <3>1, <3>2, FS_CardinalityType, FS_EmptySet
      <3>4. QED
        BY <1>1, <3>2, <3>3 DEF n
    <2>2. QED
      BY <2>1
  <1>9. ASSUME NEW a \in S, NEW b \in S, a # b, Before(a, b)
        PROVE  place[a] < place[b]
    <2>1. Upto(a) \in SUBSET Upto(b)
      BY <1>6, <1>9
    <2>2. b \in Upto(b) /\ b \notin Upto(a)
      BY <1>5, <1>7, <1>9
    <2>3. Cardinality(Upto(a)) <= Cardinality(Upto(b)) /\ Cardinality(Upto(a)) # Cardinality(Upto(b))
      BY <1>8, <2>1, <2>2, FS_Subset
    <2>4. place[a] = Cardinality(Upto(a)) /\ place[b] = Cardinality(Upto(b))
      OBVIOUS
    <2> HIDE DEF place, Upto
    <2>5. QED
      BY <1>8, <2>3, <2>4
  <1>10. place \in [S -> 1..n]
    BY <1>8
  <1> HIDE DEF place
  <1>11. place \in Injection(S, 1..n)
    <2>1. \A a, b \in S : place[a] = place[b] => a = b
      <3>1. ASSUME NEW a \in S, NEW b \in S, a # b PROVE place[a] # place[b]
        <4>1. place[a] \in 1..n /\ place[b] \in 1..n
          BY <1>10
        <4>2. QED
          BY <1>4, <1>9, <3>1, <4>1
      <3>2. QED
        BY <3>1
    <2>2. QED
      BY <1>10, <2>1, Fun_IsInj
  <1>12. place \in Surjection(S, 1..n)
    <2>1. IsFiniteSet(1..n) /\ Cardinality(1..n) = n
      BY <1>1, FS_Interval
    <2>2. QED
      BY <1>11, <2>1, FS_Injection DEF n
  <1> DEFINE s == [i \in 1..n |-> CHOOSE a \in S : place[a] = i]
  <1>13. \A i \in 1..n : s[i] \in S /\ place[s[i]] = i
    BY <1>12 DEF Surjection
  <1>14. s \in [1..n -> S]
    BY <1>13
  <1> HIDE DEF s
  <1>15. ASSUME NEW i \in 1..n, NEW j \in 1..n, i < j
         PROVE  /\ s[i] # s[j]
                /\ \/ key[s[i]] > key[s[j]]
                   \/ key[s[i]] = key[s[j]] /\ tie[s[i]] >= tie[s[j]]
    <2>1. s[i] \in S /\ s[j] \in S /\ place[s[i]] = i /\ place[s[j]] = j
      BY <1>13
    <2>2. s[i] # s[j] /\ ~ Before(s[j], s[i])
      BY <1>9, <1>15, <2>1
    <2>3. Before(s[i], s[j])
      BY <1>4, <2>1, <2>2
    <2>4. QED
      BY <1>3, <2>1, <2>2, <2>3 DEF Before
  <1>16. QED
    BY <1>14, <1>15 DEF n

\* What SortBy lists: every member once, in order.
LEMMA Sorted ==
  ASSUME NEW S, IsFiniteSet(S), NEW key \in [S -> Int], NEW tie \in [S -> Int]
  PROVE  LET s == SortBy(S, key, tie)
         IN  /\ s \in Seq(S) /\ Len(s) = Cardinality(S) /\ DOMAIN s = 1..Cardinality(S)
             /\ \A a \in S : \E i \in DOMAIN s : s[i] = a
             /\ \A i, j \in DOMAIN s : i < j =>
                  /\ s[i] # s[j]
                  /\ \/ key[s[i]] > key[s[j]]
                     \/ key[s[i]] = key[s[j]] /\ tie[s[i]] >= tie[s[j]]
  <1> DEFINE n == Cardinality(S)
             s == SortBy(S, key, tie)
             InOrder(f) == \A i, j \in 1..n : i < j =>
                             /\ f[i] # f[j]
                             /\ \/ key[f[i]] > key[f[j]]
                                \/ key[f[i]] = key[f[j]] /\ tie[f[i]] >= tie[f[j]]
  <1>1. n \in Nat
    BY FS_CardinalityType
  <1>2. \E f \in [1..n -> S] : InOrder(f)
    BY OrderExists
  <1>3. s = CHOOSE f \in [1..n -> S] : InOrder(f)
    BY DEF SortBy
  <1> HIDE DEF n, InOrder, s
  <1>4. s \in [1..n -> S] /\ InOrder(s)
    BY <1>2, <1>3
  <1>5. \A i, j \in 1..n : s[i] = s[j] => i = j
    <2>1. ASSUME NEW i \in 1..n, NEW j \in 1..n, s[i] = s[j] PROVE i = j
      <3>1. ~ (i < j) /\ ~ (j < i)
        BY <1>4, <2>1 DEF InOrder
      <3>2. QED
        BY <1>1, <3>1
    <2>2. QED
      BY <2>1
  <1>6. s \in Surjection(1..n, S)
    <2>1. s \in Injection(1..n, S)
      BY <1>4, <1>5, Fun_IsInj
    <2>2. Cardinality(1..n) = n
      BY <1>1, FS_Interval
    <2>3. QED
      BY <2>1, <2>2, FS_Injection DEF n
  <1>7. s \in Seq(S) /\ Len(s) = n /\ DOMAIN s = 1..n
    BY <1>1, <1>4
  <1>8. \A a \in S : \E i \in DOMAIN s : s[i] = a
    BY <1>6, <1>7 DEF Surjection
  <1>9. QED
    BY <1>4, <1>7, <1>8 DEF InOrder, n, s

-----------------------------------------------------------------------------
(* What a step leaves alone *)

Menus == {"sources", "techniques"}
BriefSteps == \E w \in Window : OpenAIBrief(w)
ToMenu     == OpenSourcePicker \/ OpenMITRE
ToOverlay  == \/ OpenHelp \/ OpenStats \/ OpenViz \/ OpenLeaderboards \/ OpenPatchBrief
              \/ OpenScoreExplain

LEMMA FrameStore ==
  [Next]_vars =>
    \/ UNCHANGED <<present, read, marks, stars, toggling>>
    \/ MarkSelectedRead \/ MarkAllRead \/ AskBookmark \/ WriteBookmark \/ Daemon
  <1> USE DEF storeVars, calm
  <1>1. NormalKeys => \/ UNCHANGED <<present, read, marks, stars, toggling>>
                      \/ MarkSelectedRead \/ MarkAllRead \/ AskBookmark
    <2>1. MoveSelection \/ GoTop \/ GoBottom \/ ShowMarked \/ FilterKey \/ ReloadKey \/ Quit =>
            UNCHANGED <<present, read, marks, stars, toggling>>
      BY DEF MoveSelection, GoTop, GoBottom, ShowMarked, FilterKey, ReloadKey, Quit
    <2>2. OpenSearch \/ ToMenu \/ OpenCVEPopover \/ BriefSteps \/ OpenIOC \/ ToOverlay =>
            UNCHANGED <<present, read, marks, stars, toggling>>
      BY DEF OpenSearch, ToMenu, OpenSourcePicker, OpenMITRE, OpenMenu, OpenCVEPopover, BriefSteps,
             OpenAIBrief, OpenIOC, IocStep, ToOverlay, OpenHelp, OpenStats, OpenViz,
             OpenLeaderboards, OpenPatchBrief, OpenScoreExplain, OpenOverlay
    <2>3. QED
      BY <2>1, <2>2 DEF NormalKeys, ToMenu, BriefSteps, ToOverlay, OpenSelected
  <1>2. ModalKeys => UNCHANGED <<present, read, marks, stars, toggling>>
    BY DEF ModalKeys, EditSearch, EnterSearch, EscapeSearch, MoveCursor, EscapeMenu, PickSource,
           ClearSource, PickTechnique, CloseMenu, CloseCVE, CloseAIBrief, EscapeIOC, TypeIOC,
           BackspaceIOC, IocStep, DismissOverlay
  <1>3. Resize \/ (\E c \in Cve : AnswerCVE(c)) \/ (\E w \in Window : AnswerBrief(w)) =>
          UNCHANGED <<present, read, marks, stars, toggling>>
    BY DEF Resize, AnswerCVE, AnswerBrief
  <1>4. QED
    BY <1>1, <1>2, <1>3 DEF Next, vars

LEMMA FrameList ==
  [Next]_vars =>
    \/ UNCHANGED <<list, sel, off, failed, filt>>
    \/ MoveSelection \/ GoTop \/ GoBottom
    \/ MarkSelectedRead \/ MarkAllRead \/ ShowMarked \/ FilterKey \/ ReloadKey
    \/ EnterSearch \/ PickSource \/ ClearSource \/ PickTechnique
  <1> USE DEF listVars
  <1>1. AskBookmark \/ Quit \/ OpenSearch \/ ToMenu \/ OpenCVEPopover \/ BriefSteps \/ OpenIOC
          \/ ToOverlay => UNCHANGED <<list, sel, off, failed, filt>>
    BY DEF AskBookmark, Quit, OpenSearch, ToMenu, OpenSourcePicker, OpenMITRE, OpenMenu,
           OpenCVEPopover, BriefSteps, OpenAIBrief, OpenIOC, IocStep, ToOverlay, OpenHelp,
           OpenStats, OpenViz, OpenLeaderboards, OpenPatchBrief, OpenScoreExplain, OpenOverlay
  <1>2. EditSearch \/ EscapeSearch \/ MoveCursor \/ EscapeMenu \/ CloseCVE \/ CloseAIBrief
          \/ EscapeIOC \/ TypeIOC \/ BackspaceIOC \/ DismissOverlay =>
          UNCHANGED <<list, sel, off, failed, filt>>
    BY DEF EditSearch, EscapeSearch, MoveCursor, EscapeMenu, CloseCVE, CloseAIBrief, EscapeIOC,
           TypeIOC, BackspaceIOC, IocStep, DismissOverlay
  <1>3. WriteBookmark \/ Resize \/ (\E c \in Cve : AnswerCVE(c))
          \/ (\E w \in Window : AnswerBrief(w)) \/ Daemon =>
          UNCHANGED <<list, sel, off, failed, filt>>
    BY DEF WriteBookmark, Resize, AnswerCVE, AnswerBrief, Daemon, DaemonStores, DaemonPurges,
           DaemonReads, DaemonToggles, terminalVars
  <1>4. QED
    BY <1>1, <1>2, <1>3
    DEF Next, vars, NormalKeys, ModalKeys, ToMenu, BriefSteps, ToOverlay, OpenSelected

\* The modals' own state, seen from a step that changes only the mode.
ToNormal == mode' = "normal" /\ UNCHANGED <<height, text, menu, cursor>>
ToPlain  == mode' \in {"cve", "brief", "quit"} \cup Overlays /\ UNCHANGED <<height, text, menu, cursor>>

LEMMA FrameModals ==
  [Next]_vars =>
    \/ UNCHANGED <<mode, height, text, menu, cursor>>
    \/ ToNormal \/ ToPlain
    \/ OpenSearch \/ EditSearch \/ EscapeSearch \/ ToMenu \/ MoveCursor
    \/ CloseMenu \/ OpenIOC \/ EscapeIOC \/ TypeIOC \/ BackspaceIOC \/ Resize
  <1> USE DEF modalVars, calm
  <1>1. MoveSelection \/ GoTop \/ GoBottom \/ MarkSelectedRead \/ MarkAllRead \/ AskBookmark
          \/ ShowMarked \/ FilterKey \/ ReloadKey => UNCHANGED <<mode, height, text, menu, cursor>>
    BY DEF MoveSelection, GoTop, GoBottom, MarkSelectedRead, MarkAllRead, AskBookmark, ShowMarked,
           FilterKey, ReloadKey
  <1>2. Quit \/ OpenCVEPopover \/ BriefSteps \/ ToOverlay => ToPlain
    BY DEF Quit, OpenCVEPopover, BriefSteps, OpenAIBrief, ToOverlay, OpenHelp, OpenStats, OpenViz,
           OpenLeaderboards, OpenPatchBrief, OpenScoreExplain, OpenOverlay, ToPlain, Overlays
  <1>3. EnterSearch \/ CloseCVE \/ CloseAIBrief \/ DismissOverlay => ToNormal
    BY DEF EnterSearch, CloseCVE, CloseAIBrief, DismissOverlay, ToNormal
  <1>4. EscapeMenu \/ PickSource \/ ClearSource \/ PickTechnique => CloseMenu
    BY DEF EscapeMenu, PickSource, ClearSource, PickTechnique
  <1>5. WriteBookmark \/ (\E c \in Cve : AnswerCVE(c)) \/ (\E w \in Window : AnswerBrief(w)) \/ Daemon =>
          UNCHANGED <<mode, height, text, menu, cursor>>
    BY DEF WriteBookmark, AnswerCVE, AnswerBrief, Daemon, DaemonStores, DaemonPurges, DaemonReads,
           DaemonToggles, terminalVars
  <1>6. QED
    BY <1>1, <1>2, <1>3, <1>4, <1>5
    DEF Next, vars, NormalKeys, ModalKeys, ToMenu, BriefSteps, ToOverlay, OpenSelected

\* Who has to do with the popover and with the counts of what is in flight.
LEMMA FrameAsked ==
  [Next]_vars =>
    /\ \/ /\ UNCHANGED <<cve, cveAsked>>
          /\ mode' = mode \/ (mode # "cve" /\ mode' # "cve")
       \/ OpenCVEPopover \/ CloseCVE \/ \E c \in Cve : AnswerCVE(c)
    /\ \/ UNCHANGED <<brief, briefAsked>>
       \/ BriefSteps \/ CloseAIBrief \/ \E w \in Window : AnswerBrief(w)
  <1> USE DEF cveVars, briefVars, calm, Key
  <1> DEFINE Apart == UNCHANGED <<cve, cveAsked>> /\ (mode' = mode \/ (mode # "cve" /\ mode' # "cve"))
             Aside == UNCHANGED <<brief, briefAsked>>
  <1>1. MoveSelection \/ GoTop \/ GoBottom \/ MarkSelectedRead \/ MarkAllRead \/ AskBookmark
          \/ ShowMarked \/ FilterKey \/ ReloadKey \/ Quit => Apart /\ Aside
    BY DEF MoveSelection, GoTop, GoBottom, MarkSelectedRead, MarkAllRead, AskBookmark, ShowMarked,
           FilterKey, ReloadKey, Quit
  <1>2. OpenSearch \/ ToMenu \/ OpenIOC \/ ToOverlay => Apart /\ Aside
    BY DEF OpenSearch, ToMenu, OpenSourcePicker, OpenMITRE, OpenMenu, OpenIOC, IocStep, ToOverlay,
           OpenHelp, OpenStats, OpenViz, OpenLeaderboards, OpenPatchBrief, OpenScoreExplain, OpenOverlay
  <1>3. EditSearch \/ EnterSearch \/ EscapeSearch \/ MoveCursor \/ EscapeMenu \/ PickSource
          \/ ClearSource \/ PickTechnique => Apart /\ Aside
    BY DEF EditSearch, EnterSearch, EscapeSearch, MoveCursor, EscapeMenu, PickSource, ClearSource,
           PickTechnique, CloseMenu, InMenu
  <1>4. EscapeIOC \/ TypeIOC \/ BackspaceIOC \/ DismissOverlay \/ Resize => Apart /\ Aside
    BY DEF EscapeIOC, TypeIOC, BackspaceIOC, IocStep, DismissOverlay, Overlays, Resize
  <1>5. WriteBookmark \/ Daemon => Apart /\ Aside
    BY DEF WriteBookmark, Daemon, DaemonStores, DaemonPurges, DaemonReads, DaemonToggles, terminalVars
  <1>6. BriefSteps \/ CloseAIBrief \/ (\E w \in Window : AnswerBrief(w)) => Apart
    BY DEF BriefSteps, OpenAIBrief, CloseAIBrief, AnswerBrief
  <1>7. OpenCVEPopover \/ CloseCVE \/ (\E c \in Cve : AnswerCVE(c)) => Aside
    BY DEF OpenCVEPopover, CloseCVE, AnswerCVE
  <1>8. UNCHANGED vars => Apart /\ Aside
    BY DEF vars
  <1> HIDE DEF Apart, Aside
  <1>9. [Next]_vars => /\ \/ Apart \/ OpenCVEPopover \/ CloseCVE
                          \/ \E c \in Cve : AnswerCVE(c)
                       /\ \/ Aside \/ BriefSteps \/ CloseAIBrief
                          \/ \E w \in Window : AnswerBrief(w)
    BY <1>1, <1>2, <1>3, <1>4, <1>5, <1>6, <1>7, <1>8
    DEF Next, NormalKeys, ModalKeys, ToMenu, BriefSteps, ToOverlay, OpenSelected
  <1>10. QED
    BY <1>9 DEF Apart, Aside

-----------------------------------------------------------------------------
(* The list *)

Row == [id : Article, read : BOOLEAN]

ListGood ==
  /\ list \in Seq(Row) /\ sel \in Nat /\ off \in Nat /\ failed \in BOOLEAN /\ filt \in Filters
  /\ sel < Max2(1, Len(list)) /\ off <= sel /\ StatusBarIsTrue

StoreGood ==
  /\ present \subseteq Article /\ read \subseteq present /\ marks \subseteq present
  /\ stars \subseteq Article /\ toggling \in {None} \cup [id : Article, had : BOOLEAN]

\* A query lists articles of the store that are among those it asks for.
LEMMA QueryFacts ==
  ASSUME NEW T, T \in SUBSET Article
  PROVE  Capped(Newest(T)) \in Seq(T)
  <1> DEFINE s == Newest(T)
  <1>1. IsFiniteSet(T)
    BY TerminalAssumption, FS_Subset
  <1>2. [a \in T |-> a] \in [T -> Int] /\ [a \in T |-> 0] \in [T -> Int]
    BY TerminalAssumption
  <1>3. s \in Seq(T)
    BY <1>1, <1>2, Sorted DEF Newest
  <1> HIDE DEF s
  <1>4. Len(s) \in Nat /\ RowLimit \in Nat
    BY <1>3, TerminalAssumption
  <1>5. Min2(Len(s), RowLimit) \in Nat /\ Min2(Len(s), RowLimit) <= Len(s)
    BY <1>4 DEF Min2
  <1>6. SubSeq(s, 1, Min2(Len(s), RowLimit)) \in Seq(T)
    BY <1>3, <1>5
  <1>7. QED
    BY <1>6 DEF Capped, s

\* What a query that works leaves on screen.
LEMMA ShowFacts ==
  ASSUME NEW T, T \in SUBSET Article, NEW ids \in Seq(T), NEW rd, NEW s \in Nat, NEW o \in Nat,
         Show(ids, rd, s, o)
  PROVE  /\ list' \in Seq(Row) /\ \A i \in 1..Len(list') : list'[i].id \in T
         /\ sel' \in Nat /\ off' \in Nat /\ failed' = FALSE
         /\ sel' < Max2(1, Len(list')) /\ off' <= sel'
  <1> DEFINE n == Len(ids)
             rows == [i \in 1..n |-> [id |-> ids[i], read |-> ids[i] \in rd]]
  <1>1. n \in Nat /\ \A i \in 1..n : ids[i] \in T
    OBVIOUS
  <1>2. rows \in [1..n -> Row]
    BY <1>1 DEF Row
  <1>3. rows \in Seq(Row) /\ Len(rows) = n
    BY <1>1, <1>2
  <1>4. \A i \in 1..n : rows[i].id = ids[i]
    OBVIOUS
  <1>5. list' = rows /\ failed' = FALSE /\ sel' = Clamp(s, n) /\ off' = Min2(o, sel')
    BY DEF Show
  <1> HIDE DEF n, rows
  <1>6. Clamp(s, n) \in Nat /\ Clamp(s, n) < Max2(1, n)
    BY <1>1 DEF Clamp, Max2
  <1>7. off' \in Nat /\ off' <= sel'
    BY <1>5, <1>6 DEF Min2
  <1>8. QED
    BY <1>1, <1>3, <1>4, <1>5, <1>6, <1>7

\* A reload under filters f, whether its query works or not, from a selection that
\* is a row of the list as it is.
LEMMA ReloadFacts ==
  ASSUME ListGood, StoreGood, NEW f \in Filters, NEW rd, NEW s \in Nat, NEW o \in Nat,
         s < Max2(1, Len(list)), o <= s, filt' = f,
         ReloadArticles(f, rd, s, o)
  PROVE  ListGood'
  <1>1. CASE failed' = TRUE /\ list' = list /\ sel' = s /\ off' = o
    BY <1>1 DEF ListGood, StatusBarIsTrue, Max2
  <1>2. CASE f.marked /\ Show(BookmarkedArticles, rd, s, o)
    <2>1. (marks \cap present) \ Dup \in SUBSET Article
      BY DEF StoreGood
    <2>2. BookmarkedArticles \in Seq((marks \cap present) \ Dup)
      BY <2>1, QueryFacts DEF BookmarkedArticles
    <2>3. QED
      BY <1>2, <2>1, <2>2, ShowFacts DEF ListGood, StatusBarIsTrue
  <1>3. CASE ~ f.marked /\ Show(List(f, None, rd), rd, s, o)
    <2> DEFINE T == {a \in present : /\ Passes(a, f)
                                     /\ None = None \/ SourceOf[a] = None
                                     /\ f.unread => a \notin rd}
    <2>1. T \in SUBSET Article /\ \A a \in T : Passes(a, f)
      BY DEF StoreGood
    <2>2. List(f, None, rd) \in Seq(T)
      BY <2>1, QueryFacts DEF List
    <2> HIDE DEF T
    <2>3. QED
      BY <1>3, <2>1, <2>2, ShowFacts DEF ListGood, StatusBarIsTrue
  <1>4. QED
    BY <1>1, <1>2, <1>3 DEF ReloadArticles

LEMMA ReloadSourceFacts ==
  ASSUME ListGood, StoreGood, NEW f \in Filters, NEW src, filt' = f,
         ReloadArticlesWithSource(f, src)
  PROVE  ListGood'
  <1>1. CASE failed' = TRUE /\ UNCHANGED <<list, sel, off>>
    BY <1>1 DEF ListGood, StatusBarIsTrue
  <1>2. CASE Show(List(f, src, read), read, 0, 0)
    <2> DEFINE T == {a \in present : /\ Passes(a, f)
                                     /\ src = None \/ SourceOf[a] = src
                                     /\ f.unread => a \notin read}
    <2>1. T \in SUBSET Article /\ \A a \in T : Passes(a, f)
      BY DEF StoreGood
    <2>2. List(f, src, read) \in Seq(T)
      BY <2>1, QueryFacts DEF List
    <2> HIDE DEF T
    <2>3. QED
      BY <1>2, <2>1, <2>2, ShowFacts DEF ListGood, StatusBarIsTrue
  <1>3. QED
    BY <1>1, <1>2 DEF ReloadArticlesWithSource

\* The next source type is one of the cycle.
LEMMA NextKindFacts ==
  ASSUME NEW k \in Range(Kinds)
  PROVE  NextKind(k) \in Range(Kinds)
  <1> DEFINE n == Len(Kinds)
             i == CHOOSE j \in 1..n : Kinds[j] = k
  <1>1. n \in Nat /\ n > 0 /\ DOMAIN Kinds = 1..n
    BY TerminalAssumption
  <1>2. \E j \in 1..n : Kinds[j] = k
    BY <1>1 DEF Range
  <1>3. i \in 1..n
    BY <1>2
  <1> HIDE DEF n, i
  <1>4. (i % n) + 1 \in 1..n
    BY <1>1, <1>3
  <1>5. Kinds[(i % n) + 1] \in Range(Kinds)
    BY <1>1, <1>4 DEF Range
  <1>6. QED
    BY <1>5 DEF NextKind, n, i

LEMMA FilterFacts ==
  ASSUME filt \in Filters
  PROVE  /\ ChangedFilters \subseteq Filters
         /\ [filt EXCEPT !.marked = ~@] \in Filters
         /\ \A w \in {None} \cup Term \cup Technique : [filt EXCEPT !.word = w] \in Filters
         /\ [filt EXCEPT !.word = None, !.kind = None] \in Filters
  <1>1. \A d \in ScoreKeys : 10 * d \in 0..100
    BY TerminalAssumption
  <1>2. None \in Range(Kinds)
    <2>1. Kinds \in Seq(Range(Kinds)) /\ Kinds # << >> /\ Head(Kinds) = None
      BY TerminalAssumption
    <2>2. QED
      BY <2>1
  <1>3. filt.kind \in Range(Kinds)
    BY DEF Filters
  <1>4. NextKind(filt.kind) \in Range(Kinds)
    BY <1>3, NextKindFacts
  <1>5. ChangedFilters \subseteq Filters
    <2>1. \A d \in ScoreKeys : [filt EXCEPT !.min = 10 * d] \in Filters
      BY <1>1 DEF Filters
    <2>2. [filt EXCEPT !.kind = NextKind(@)] \in Filters
      BY <1>4 DEF Filters
    <2>3. [filt EXCEPT !.unread = ~@] \in Filters /\ [filt EXCEPT !.dupes = ~@] \in Filters
      BY DEF Filters
    <2>4. QED
      BY <2>1, <2>2, <2>3 DEF ChangedFilters
  <1>6. [filt EXCEPT !.marked = ~@] \in Filters
    BY DEF Filters
  <1>7. \A w \in {None} \cup Term \cup Technique : [filt EXCEPT !.word = w] \in Filters
    BY DEF Filters
  <1>8. [filt EXCEPT !.word = None, !.kind = None] \in Filters
    BY <1>2 DEF Filters
  <1>9. QED
    BY <1>5, <1>6, <1>7, <1>8

-----------------------------------------------------------------------------
(* Steps *)

ModalsGood ==
  cursor \in Nat /\ ModalsHold /\ (mode \in Menus => cursor < Max2(1, Len(menu)))

PopoverGood == ClosedIsEmpty /\ PopoverIsOfItsCVE

AskedGood == cveAsked \in [Cve -> 0..MaxAsked] /\ briefAsked \in [Window -> 0..MaxAsked]

LEMMA Parts ==
  TerminalInv <=> ListGood /\ StoreGood /\ ModalsGood /\ PopoverGood /\ AskedGood
  BY DEF TerminalInv, TypeOK, ScreenIsTrue, IndexInRange, ListGood, StoreGood, ModalsGood,
         PopoverGood, AskedGood, ClosedIsEmpty, Row, Menus

LEMMA StepStore == TerminalInv /\ [Next]_vars => StoreGood'
  <1> SUFFICES ASSUME TerminalInv, [Next]_vars PROVE StoreGood'
    OBVIOUS
  <1> USE DEF StoreGood
  <1>1. ListGood /\ StoreGood
    BY Parts
  <1>2. HasSelected => SelectedRow.id \in Article
    <2>1. HasSelected => sel + 1 \in 1..Len(list)
      BY <1>1 DEF HasSelected, ListGood
    <2>2. \A i \in 1..Len(list) : list[i].id \in Article
      <3>1. \A i \in 1..Len(list) : list[i] \in Row
        BY <1>1 DEF ListGood
      <3>2. QED
        BY <3>1 DEF Row
    <2>3. QED
      BY <2>1, <2>2 DEF SelectedRow
  <1>3. CASE MarkSelectedRead
    BY <1>1, <1>3 DEF MarkSelectedRead, calm
  <1>4. CASE MarkAllRead
    BY <1>1, <1>4 DEF MarkAllRead, calm
  <1>5. CASE AskBookmark
    BY <1>1, <1>2, <1>5 DEF AskBookmark, storeVars
  <1>6. CASE WriteBookmark
    BY <1>1, <1>6 DEF WriteBookmark, DrawStar
  <1>7. CASE Daemon
    <2>1. PICK a \in Touched : DaemonStores(a) \/ DaemonPurges(a) \/ DaemonReads(a) \/ DaemonToggles(a)
      BY <1>7 DEF Daemon
    <2>2. a \in Article
      BY TerminalAssumption
    <2>3. QED
      BY <1>1, <2>1, <2>2 DEF DaemonStores, DaemonPurges, DaemonReads, DaemonToggles, terminalVars
  <1>8. CASE UNCHANGED <<present, read, marks, stars, toggling>>
    BY <1>1, <1>8
  <1>9. QED
    BY <1>3, <1>4, <1>5, <1>6, <1>7, <1>8, FrameStore

\* The height of the list, and a row that is brought on screen.
LEMMA ScrollFacts ==
  ASSUME TerminalInv
  PROVE  /\ VisibleRows \in Nat /\ VisibleRows > 0
         /\ \A o, s \in Nat : /\ EnsureSelectedVisible(o, s) \in Nat
                              /\ EnsureSelectedVisible(o, s) <= s
                              /\ s < EnsureSelectedVisible(o, s) + VisibleRows
  <1>1. height \in Nat
    BY TerminalAssumption DEF TerminalInv, ModalsHold
  <1>2. VisibleRows \in Nat /\ VisibleRows > 0
    BY <1>1 DEF VisibleRows, Max2
  <1>3. \A o, s \in Nat : /\ EnsureSelectedVisible(o, s) \in Nat
                          /\ EnsureSelectedVisible(o, s) <= s
                          /\ s < EnsureSelectedVisible(o, s) + VisibleRows
    BY <1>2 DEF EnsureSelectedVisible, Min2
  <1>4. QED
    BY <1>2, <1>3

\* The selection that a key moves to is a row, and on screen.
LEMMA MoveFacts ==
  ASSUME TerminalInv, MoveSelection \/ GoBottom
  PROVE  /\ sel' \in Nat /\ sel' < Max2(1, Len(list)) /\ list' = list
         /\ off' \in Nat /\ off' <= sel' /\ sel' < off' + VisibleRows
  <1>1. ListGood /\ Len(list) \in Nat
    BY Parts DEF ListGood
  <1>2. sel' \in Nat /\ sel' < Max2(1, Len(list)) /\ off' = EnsureSelectedVisible(off, sel')
    <2>1. CASE MoveSelection
      <3>1. \A delta \in Int : /\ Clamp(Max2(0, sel + delta), Len(list)) \in Nat
                               /\ Clamp(Max2(0, sel + delta), Len(list)) < Max2(1, Len(list))
        BY <1>1 DEF ListGood, Clamp, Max2
      <3>2. VisibleRows \div 2 \in Int
        BY ScrollFacts
      <3>3. {1, -1, VisibleRows \div 2, -(VisibleRows \div 2)} \subseteq Int
        BY <3>2
      <3>4. QED
        BY <2>1, <3>1, <3>3 DEF MoveSelection
    <2>2. CASE GoBottom
      BY <1>1, <2>2 DEF GoBottom, Max2
    <2>3. QED
      BY <2>1, <2>2
  <1>3. list' = list
    BY DEF MoveSelection, GoBottom
  <1>4. QED
    BY <1>1, <1>2, <1>3, ScrollFacts DEF ListGood

LEMMA StepList == TerminalInv /\ [Next]_vars => ListGood'
  <1> SUFFICES ASSUME TerminalInv, [Next]_vars PROVE ListGood'
    OBVIOUS
  <1>1. ListGood /\ StoreGood /\ ModalsGood /\ filt \in Filters /\ Len(list) \in Nat
    BY Parts DEF ListGood
  <1>2. /\ sel \in Nat /\ off \in Nat /\ sel < Max2(1, Len(list)) /\ off <= sel
        /\ 0 < Max2(1, Len(list))
    BY <1>1 DEF ListGood, Max2
  <1>3. CASE MoveSelection \/ GoBottom
    <2>1. UNCHANGED <<list, failed, filt>>
      BY <1>3 DEF MoveSelection, GoBottom
    <2>2. QED
      BY <1>1, <1>3, <2>1, MoveFacts DEF ListGood, StatusBarIsTrue
  <1>4. CASE GoTop
    BY <1>1, <1>2, <1>4 DEF GoTop, ListGood, StatusBarIsTrue
  <1>5. CASE MarkSelectedRead
    <2>1. /\ sel + 1 \in 1..Len(list) /\ list' = [list EXCEPT ![sel + 1].read = TRUE]
          /\ UNCHANGED <<sel, off, failed, filt>>
      BY <1>1, <1>2, <1>5 DEF MarkSelectedRead, HasSelected
    <2>2. list \in Seq(Row)
      BY <1>1 DEF ListGood
    <2>3. [list[sel + 1] EXCEPT !.read = TRUE] \in Row
      <3>1. list[sel + 1] \in Row
        BY <2>1, <2>2
      <3>2. QED
        BY <3>1 DEF Row
    <2>4. list' \in Seq(Row) /\ Len(list') = Len(list)
      BY <2>1, <2>2, <2>3
    <2>5. \A i \in 1..Len(list) : list'[i].id = list[i].id
      BY <2>1, <2>2 DEF Row
    <2>6. QED
      BY <1>1, <2>1, <2>4, <2>5 DEF ListGood, StatusBarIsTrue
  <1>6. CASE MarkAllRead
    <2>1. ReloadArticles(filt, present, sel, off) /\ filt' = filt
      BY <1>6 DEF MarkAllRead
    <2>2. QED
      BY <1>1, <1>2, <2>1, ReloadFacts
  <1>7. CASE ReloadKey
    <2>1. ReloadArticles(filt, read, sel, off) /\ filt' = filt
      BY <1>7 DEF ReloadKey
    <2>2. QED
      BY <1>1, <1>2, <2>1, ReloadFacts
  <1>8. CASE ShowMarked
    <2>1. ReloadArticles(filt', read, 0, 0) /\ filt' \in Filters
      BY <1>1, <1>8, FilterFacts DEF ShowMarked
    <2>2. QED
      BY <1>1, <1>2, <2>1, ReloadFacts
  <1>9. CASE FilterKey
    <2>1. ReloadArticles(filt', read, sel, off) /\ filt' \in Filters
      BY <1>1, <1>9, FilterFacts DEF FilterKey
    <2>2. QED
      BY <1>1, <1>2, <2>1, ReloadFacts
  <1>10. CASE EnterSearch
    <2>1. text \in {None} \cup Term \cup Technique
      BY <1>1, <1>10 DEF EnterSearch, Key, ModalsGood, ModalsHold
    <2>2. ReloadArticles(filt', read, sel, off) /\ filt' \in Filters
      BY <1>1, <1>10, <2>1, FilterFacts DEF EnterSearch
    <2>3. QED
      BY <1>1, <1>2, <2>2, ReloadFacts
  <1>11. CASE PickSource
    <2>1. CASE cursor < Len(menu)
      <3>1. ReloadArticlesWithSource(filt', menu[cursor + 1]) /\ filt' \in Filters
        BY <1>1, <1>11, <2>1, FilterFacts DEF PickSource
      <3>2. QED
        BY <1>1, <3>1, ReloadSourceFacts
    <2>2. CASE ~ (cursor < Len(menu))
      BY <1>1, <1>11, <2>2 DEF PickSource, listVars, ListGood, StatusBarIsTrue
    <2>3. QED
      BY <2>1, <2>2
  <1>12. CASE ClearSource
    <2>1. ReloadArticlesWithSource(filt, None) /\ filt' = filt
      BY <1>12 DEF ClearSource
    <2>2. QED
      BY <1>1, <2>1, ReloadSourceFacts
  <1>13. CASE PickTechnique
    <2>1. CASE cursor < Len(menu)
      <3>1. menu \in Seq(Technique) /\ cursor \in Nat
        BY <1>1, <1>13 DEF PickTechnique, Key, ModalsGood, ModalsHold
      <3>2. menu[cursor + 1] \in Technique
        BY <2>1, <3>1
      <3>3. ReloadArticles(filt', read, sel, off) /\ filt' \in Filters
        BY <1>1, <1>13, <2>1, <3>2, FilterFacts DEF PickTechnique
      <3>4. QED
        BY <1>1, <1>2, <3>3, ReloadFacts
    <2>2. CASE ~ (cursor < Len(menu))
      BY <1>1, <1>13, <2>2 DEF PickTechnique, listVars, ListGood, StatusBarIsTrue
    <2>3. QED
      BY <2>1, <2>2
  <1>14. CASE UNCHANGED <<list, sel, off, failed, filt>>
    BY <1>1, <1>14 DEF ListGood, StatusBarIsTrue
  <1>15. QED
    BY <1>3, <1>4, <1>5, <1>6, <1>7, <1>8, <1>9, <1>10, <1>11, <1>12, <1>13, <1>14, FrameList

\* The lines of the two menus.
LEMMA MenuFacts ==
  ASSUME TerminalInv
  PROVE  Sources \in Seq(Nat) /\ TechniqueList \in Seq(Technique)
  <1>1. present \subseteq Article /\ IsFiniteSet(present)
    BY Parts, TerminalAssumption, FS_Subset DEF StoreGood
  <1>2. Sources \in Seq(Nat)
    <2> DEFINE all == {SourceOf[a] : a \in present}
    <2>1. \A s \in all : s \in Nat
      BY <1>1, TerminalAssumption
    <2>2. IsFiniteSet(all)
      <3>1. [a \in present |-> SourceOf[a]] \in Surjection(present, all)
        BY DEF Surjection
      <3>2. QED
        BY <1>1, <3>1, FS_Surjection
    <2>3. [s \in all |-> -s] \in [all -> Int] /\ [s \in all |-> 0] \in [all -> Int]
      BY <2>1
    <2>4. Sources = SortBy(all, [s \in all |-> -s], [s \in all |-> 0])
      BY DEF Sources
    <2> HIDE DEF all
    <2>5. Sources \in Seq(all)
      BY <2>2, <2>3, <2>4, Sorted
    <2>6. QED
      BY <2>1, <2>5
  <1>3. TechniqueList \in Seq(Technique)
    <2> DEFINE seen == {t \in Technique : TTPFrequency(t) > 0}
    <2>1. \A t \in seen : t \in Nat
      BY TerminalAssumption DEF Technique
    <2>2. IsFiniteSet(seen)
      BY TerminalAssumption, FS_Subset
    <2>3. \A t \in seen : TTPFrequency(t) \in Int
      <3>1. \A t \in seen : IsFiniteSet({a \in present \ Dup : t \in Techniques[a]})
        BY <1>1, FS_Subset
      <3>2. QED
        BY <3>1, FS_CardinalityType DEF TTPFrequency
    <2>4. TechniqueList = SortBy(seen, [t \in seen |-> TTPFrequency(t)], [t \in seen |-> -t])
      BY DEF TechniqueList
    <2>5. \A t \in seen : t \in Technique
      OBVIOUS
    <2> HIDE DEF seen
    <2>6. [t \in seen |-> TTPFrequency(t)] \in [seen -> Int] /\ [t \in seen |-> -t] \in [seen -> Int]
      BY <2>1, <2>3
    <2>7. TechniqueList \in Seq(seen)
      BY <2>2, <2>4, <2>6, Sorted
    <2>8. QED
      BY <2>5, <2>7
  <1>4. QED
    BY <1>2, <1>3

LEMMA StepModals == TerminalInv /\ [Next]_vars => ModalsGood'
  <1> SUFFICES ASSUME TerminalInv, [Next]_vars PROVE ModalsGood'
    OBVIOUS
  <1> USE DEF ModalsGood, ModalsHold, Menus
  <1>1. ModalsGood /\ filt \in Filters
    BY Parts DEF ListGood
  <1>2. mode \in Menus => Len(menu) \in Nat
    BY <1>1
  <1>3. CASE UNCHANGED <<mode, height, text, menu, cursor>>
    BY <1>1, <1>3
  <1>4. CASE ToNormal \/ ToPlain
    BY <1>1, <1>4 DEF ToNormal, ToPlain, Overlays
  <1>5. CASE OpenSearch \/ EditSearch \/ EscapeSearch
    <2>1. filt.word \in {None} \cup Term \cup Technique
      BY <1>1 DEF Filters
    <2>2. QED
      BY <1>1, <1>5, <2>1 DEF OpenSearch, EditSearch, EscapeSearch, Key
  <1>6. CASE ToMenu
    <2>1. \A n \in Nat : 0 < Max2(1, n)
      BY DEF Max2
    <2>2. Len(Sources) \in Nat /\ Len(TechniqueList) \in Nat
      BY MenuFacts
    <2>3. CASE OpenSourcePicker
      <3>1. menu' = Sources /\ cursor' = 0 /\ mode' = "sources" /\ height' = height
        BY <2>3 DEF OpenSourcePicker, OpenMenu
      <3>2. QED
        BY <1>1, <2>1, <2>2, <3>1, MenuFacts
    <2>4. CASE OpenMITRE
      <3>1. menu' = TechniqueList /\ cursor' = 0 /\ mode' = "techniques" /\ height' = height
        BY <2>4 DEF OpenMITRE, OpenMenu
      <3>2. QED
        BY <1>1, <2>1, <2>2, <3>1, MenuFacts
    <2>5. QED
      BY <1>6, <2>3, <2>4 DEF ToMenu
  <1>7. CASE MoveCursor
    <2>1. mode \in Menus /\ cursor' \in Cursors /\ UNCHANGED <<mode, height, text, menu>>
      BY <1>7 DEF MoveCursor, InMenu, Key
    <2>2. cursor \in Nat /\ Len(menu) \in Nat /\ cursor < Max2(1, Len(menu))
      BY <1>1, <1>2, <2>1
    <2>3. cursor' \in Nat /\ cursor' < Max2(1, Len(menu))
      BY <2>1, <2>2 DEF Cursors, Max2
    <2>4. QED
      BY <1>1, <2>1, <2>3
  <1>8. CASE CloseMenu
    BY <1>1, <1>8 DEF CloseMenu
  <1>9. CASE OpenIOC \/ EscapeIOC \/ TypeIOC \/ BackspaceIOC
    BY <1>1, <1>9 DEF OpenIOC, EscapeIOC, TypeIOC, BackspaceIOC, IocStep, Key
  <1>10. CASE Resize
    BY <1>1, <1>10 DEF Resize, modalVars
  <1>11. QED
    BY <1>3, <1>4, <1>5, <1>6, <1>7, <1>8, <1>9, <1>10, FrameModals

LEMMA StepPopover == TerminalInv /\ [Next]_vars => PopoverGood' /\ cveAsked' \in [Cve -> 0..MaxAsked]
  <1> SUFFICES ASSUME TerminalInv, [Next]_vars
               PROVE  PopoverGood' /\ cveAsked' \in [Cve -> 0..MaxAsked]
    OBVIOUS
  <1> USE DEF PopoverGood, ClosedIsEmpty, PopoverIsOfItsCVE
  <1>1. PopoverGood /\ StoreGood /\ cveAsked \in [Cve -> 0..MaxAsked]
    BY Parts DEF AskedGood
  <1>2. MaxAsked \in Nat /\ HasNVD \in BOOLEAN /\ None \notin Cve
    BY TerminalAssumption DEF Cve
  <1>3. CASE OpenCVEPopover
    <2> DEFINE c == CveOf[SelectedRow.id]
    <2>1. /\ mode = "normal" /\ mode' = "cve" /\ SelectedRow.id \in Article /\ c # None
          /\ HasNVD => cveAsked[c] < MaxAsked
          /\ cveAsked' = IF HasNVD THEN [cveAsked EXCEPT ![c] = @ + 1] ELSE cveAsked
          /\ \E local \in {ArticlesForCVE(c), cve.articles} :
               cve' = [id |-> c, detail |-> None, failed |-> FALSE,
                       loading |-> HasNVD \/ cve.loading, articles |-> local]
      <3>1. HasSelected => SelectedRow.id \in Article
        <4>1. list \in Seq(Row) /\ sel \in Nat
          BY Parts DEF ListGood
        <4>2. HasSelected => list[sel + 1] \in Row
          BY <4>1 DEF HasSelected
        <4>3. QED
          BY <4>2 DEF SelectedRow, Row
      <3>2. QED
        BY <1>3, <3>1 DEF OpenCVEPopover, Key
    <2>2. c \in Cve
      BY <2>1 DEF Cve
    <2> HIDE DEF c
    <2>3. ArticlesForCVE(c) \subseteq Article /\ \A a \in ArticlesForCVE(c) : CveOf[a] = c
      BY <1>1 DEF ArticlesForCVE, StoreGood
    <2>4. cve.articles = {} /\ cve.loading \in BOOLEAN
      BY <1>1, <2>1
    <2>5. cveAsked' \in [Cve -> 0..MaxAsked]
      BY <1>1, <1>2, <2>1, <2>2
    <2>6. PICK local \in SUBSET Article :
            /\ \A a \in local : CveOf[a] = c
            /\ cve' = [id |-> c, detail |-> None, failed |-> FALSE,
                       loading |-> HasNVD \/ cve.loading, articles |-> local]
      BY <2>1, <2>3, <2>4
    <2>7. QED
      BY <1>2, <2>1, <2>2, <2>4, <2>5, <2>6
  <1>4. CASE CloseCVE
    BY <1>1, <1>4 DEF CloseCVE
  <1>5. ASSUME NEW c \in Cve, AnswerCVE(c)
        PROVE  PopoverGood' /\ cveAsked' \in [Cve -> 0..MaxAsked]
    <2>1. /\ mode' = mode /\ cveAsked[c] > 0 /\ cveAsked' = [cveAsked EXCEPT ![c] = @ - 1]
          /\ \E ok \in BOOLEAN : TakeCVE(c, ok)
      BY <1>5 DEF AnswerCVE
    <2>2. cveAsked' \in [Cve -> 0..MaxAsked]
      BY <1>1, <1>2, <2>1
    <2>3. CASE c # cve.id
      BY <1>1, <2>1, <2>2, <2>3 DEF TakeCVE
    <2>4. CASE c = cve.id
      <3>1. mode = "cve"
        BY <1>1, <1>2, <2>4
      <3>2. \/ cve' = [cve EXCEPT !.loading = FALSE, !.detail = c]
            \/ cve' = [cve EXCEPT !.loading = FALSE, !.failed = TRUE]
        BY <2>1, <2>4 DEF TakeCVE
      <3>3. QED
        BY <1>1, <2>1, <2>2, <2>4, <3>1, <3>2
    <2>5. QED
      BY <2>3, <2>4
  <1>6. CASE UNCHANGED <<cve, cveAsked>> /\ (mode' = mode \/ (mode # "cve" /\ mode' # "cve"))
    BY <1>1, <1>6
  <1>7. QED
    BY <1>3, <1>4, <1>5, <1>6, FrameAsked

LEMMA StepBrief == TerminalInv /\ [Next]_vars => briefAsked' \in [Window -> 0..MaxAsked]
  <1> SUFFICES ASSUME TerminalInv, [Next]_vars PROVE briefAsked' \in [Window -> 0..MaxAsked]
    OBVIOUS
  <1>1. briefAsked \in [Window -> 0..MaxAsked] /\ MaxAsked \in Nat
    BY Parts, TerminalAssumption DEF AskedGood
  <1>2. CASE BriefSteps
    BY <1>1, <1>2 DEF BriefSteps, OpenAIBrief
  <1>3. CASE CloseAIBrief
    BY <1>1, <1>3 DEF CloseAIBrief
  <1>4. CASE \E w \in Window : AnswerBrief(w)
    BY <1>1, <1>4 DEF AnswerBrief
  <1>5. QED
    BY <1>1, <1>2, <1>3, <1>4, FrameAsked

LEMMA InitTerminal == Init => TerminalInv
  <1> SUFFICES ASSUME Init PROVE TerminalInv
    OBVIOUS
  <1> USE DEF Init, InitialModel
  <1>1. StoreGood
    BY TerminalAssumption DEF StoreGood
  <1>2. filt \in Filters
    <2>1. Kinds \in Seq(Range(Kinds)) /\ Kinds # << >> /\ Head(Kinds) = None
      BY TerminalAssumption
    <2>2. None \in Range(Kinds)
      BY <2>1
    <2>3. QED
      BY <2>2 DEF Filters
  <1>3. ListGood
    <2> DEFINE T == {a \in present : /\ Passes(a, filt)
                                     /\ None = None \/ SourceOf[a] = None
                                     /\ filt.unread => a \notin read}
               ids == List(filt, None, read)
               rows == [i \in 1..Len(ids) |-> [id |-> ids[i], read |-> ids[i] \in read]]
    <2>1. T \in SUBSET Article /\ \A a \in T : Passes(a, filt)
      BY <1>1 DEF StoreGood
    <2>2. ids \in Seq(T)
      BY <2>1, QueryFacts DEF List
    <2>3. list = rows
      OBVIOUS
    <2> HIDE DEF T, ids
    <2>4. Len(ids) \in Nat /\ \A i \in 1..Len(ids) : ids[i] \in T
      BY <2>2
    <2>5. rows \in [1..Len(ids) -> Row]
      BY <2>1, <2>4 DEF Row
    <2>6. rows \in Seq(Row) /\ Len(rows) = Len(ids)
      BY <2>4, <2>5
    <2>7. \A i \in 1..Len(ids) : rows[i].id = ids[i]
      OBVIOUS
    <2> HIDE DEF rows
    <2>8. StatusBarIsTrue
      BY <2>1, <2>3, <2>4, <2>6, <2>7 DEF StatusBarIsTrue
    <2>9. list \in Seq(Row) /\ Len(list) \in Nat
      BY <2>3, <2>4, <2>6
    <2>10. sel = 0 /\ off = 0 /\ failed = FALSE
      OBVIOUS
    <2> HIDE DEF InitialModel
    <2>11. 0 < Max2(1, Len(list))
      BY <2>9 DEF Max2
    <2>12. failed \in BOOLEAN
      BY <2>10
    <2>13. sel \in Nat /\ off \in Nat /\ sel < Max2(1, Len(list)) /\ off <= sel
      BY <2>10, <2>11
    <2>14. QED
      BY <1>2, <2>8, <2>9, <2>12, <2>13 DEF ListGood
  <1>4. ModalsGood
    BY DEF ModalsGood, ModalsHold, Menus
  <1>5. PopoverGood
    BY DEF PopoverGood, ClosedIsEmpty, PopoverIsOfItsCVE, NoCve
  <1>6. AskedGood
    BY TerminalAssumption DEF AskedGood
  <1>7. QED
    BY <1>1, <1>3, <1>4, <1>5, <1>6, Parts

LEMMA StepTerminal == TerminalInv /\ [Next]_vars => TerminalInv'
  <1>1. TerminalInv' <=> ListGood' /\ StoreGood' /\ ModalsGood' /\ PopoverGood' /\ AskedGood'
    BY Parts, PTL
  <1>2. TerminalInv /\ [Next]_vars => AskedGood'
    BY StepPopover, StepBrief DEF AskedGood
  <1>3. QED
    BY <1>1, <1>2, StepStore, StepList, StepModals, StepPopover

-----------------------------------------------------------------------------
(* Theorems *)

LEMMA TerminalInvHolds == Spec => []TerminalInv
  BY InitTerminal, StepTerminal, PTL DEF Spec

\* The state has its types whatever the daemon does meanwhile: a row on screen, a
\* filter, a bookmark, what is in flight (tui.go, type model).
THEOREM TypeCorrect == Spec => []TypeOK
  <1>1. TerminalInv => TypeOK
    BY DEF TerminalInv
  <1>2. QED
    BY <1>1, TerminalInvHolds, PTL

\* No index is out of its bounds, the popover shows nothing of another CVE than it
\* is titled with, and the rows satisfy the filters that the status bar names.
THEOREM ScreenTellsTheTruth == Spec => []ScreenIsTrue
  <1>1. TerminalInv => ScreenIsTrue
    BY DEF TerminalInv
  <1>2. QED
    BY <1>1, TerminalInvHolds, PTL

\* A star that is toggled agrees with the store although the daemon may write
\* between the two statements of ToggleBookmark, a modal writes nothing, and the row
\* that a key moves to is drawn.
THEOREM KeysDoAsTheySay == Spec => KeysKeepTheirWord
  <1>1. [Next]_vars =>
          [\A a \in Article :
             WriteBookmark /\ toggling.id = a =>
               \/ (a \in stars') = (a \in marks')
               \/ stars' = stars /\ marks' = marks]_vars
    <2>1. ASSUME NEW a \in Article, WriteBookmark, toggling.id = a
          PROVE  \/ (a \in stars') = (a \in marks')
                 \/ stars' = stars /\ marks' = marks
      BY <2>1 DEF WriteBookmark, DrawStar
    <2>2. QED
      BY <2>1
  <1>2. [Next]_vars => [mode # "normal" /\ toggling = None /\ ~Daemon => UNCHANGED storeVars]_vars
    <2> SUFFICES ASSUME Next, mode # "normal", toggling = None, ~Daemon PROVE UNCHANGED storeVars
      OBVIOUS
    <2>1. ~ MarkSelectedRead /\ ~ MarkAllRead /\ ~ AskBookmark /\ ~ WriteBookmark
      BY DEF MarkSelectedRead, MarkAllRead, AskBookmark, WriteBookmark, Key
    <2>2. QED
      BY <2>1, FrameStore DEF storeVars
  <1>3. TerminalInv /\ [Next]_vars =>
          [MoveSelection \/ GoBottom => sel' \in RowsDrawn' \/ list = <<>>]_vars
    <2> SUFFICES ASSUME TerminalInv, MoveSelection \/ GoBottom, list # <<>>
                 PROVE  sel' \in RowsDrawn'
      OBVIOUS
    <2>1. /\ sel' \in Nat /\ off' \in Nat /\ list' = list /\ sel' < Max2(1, Len(list))
          /\ off' <= sel' /\ sel' < off' + VisibleRows
      BY MoveFacts
    <2>2. VisibleRows' = VisibleRows
      BY DEF MoveSelection, GoBottom, calm, VisibleRows
    <2>3. list \in Seq(Row)
      BY Parts DEF ListGood
    <2>4. Len(list) \in Nat /\ Len(list) > 0
      BY <2>3
    <2>5. VisibleRows \in Nat
      BY Parts, ScrollFacts
    <2>6. \A s, o, v, n \in Nat : /\ n > 0 /\ s < Max2(1, n) /\ o <= s /\ s < o + v
                                => s \in o .. (Min2(o + v, n) - 1)
      BY DEF Min2, Max2
    <2>7. sel' \in off' .. (Min2(off' + VisibleRows, Len(list)) - 1)
      BY <2>1, <2>4, <2>5, <2>6
    <2>8. QED
      BY <2>1, <2>2, <2>7 DEF RowsDrawn
  <1>4. QED
    BY <1>1, <1>2, <1>3, TerminalInvHolds, PTL
    DEF KeysKeepTheirWord, StarAgrees, ModalsOnlyRead, MovedIsDrawn, Spec

=============================================================================
