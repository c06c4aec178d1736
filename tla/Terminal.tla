------------------------------ MODULE Terminal ------------------------------
(***************************************************************************)
(* The terminal reader (secfeed tui): a Bubbletea program over the same    *)
(* SQLite file the daemon writes.                                          *)
(*                                                                         *)
(* Update handles one message at a time: a key, a window size, or the      *)
(* answer of a command.  Commands (the NVD lookup of the CVE popover, the  *)
(* summary of an intel brief) run in goroutines of their own and answer    *)
(* whenever they like, in any order, perhaps after the popover that asked  *)
(* has been closed and another opened.  The rows on screen are a copy of   *)
(* what the last query returned, while the daemon goes on changing the     *)
(* store underneath.                                                       *)
(***************************************************************************)
EXTENDS Listing, Sequences, Functions

CONSTANTS
  Article,        \* a set of numbers: the larger, the later published
  None,
  Score, KindOf, SourceOf,   \* of each article: score, source type, source; the
                             \* sources are numbers in the order of their names
  Dup,            \* the articles with duplicate_of set
  Words,          \* the search terms each article's title and summary contain
  Techniques,     \* the ATT&CK technique tags of each article, as numbers
  CveOf,          \* firstCVEID of each article, or None
  Kinds,          \* sourceTypeCycle: a sequence that begins with None, "all"
  Term, Ioc,      \* what may be typed into the search bar and the IOC decoder
  IocMatches,     \* the patterns each such text matches, of Patterns
  Patterns,       \* the order in which detectIOC tries them
  ScoreKeys,      \* the digits the user presses
  Window,         \* intel brief windows ("24h", "4h")
  Recent,         \* the articles published within each window
  RowLimit,       \* 500
  Heights,        \* terminal heights
  Touched,        \* bound: the articles the daemon works on meanwhile
  MaxAsked,       \* bound on the requests in flight for one CVE or window
  Habits,         \* sets of keys: a user keeps to one of them
  HasNVD, HasAI,  \* are the optional clients wired?
  MayFail         \* may SQLite refuse a statement?

Cve       == {CveOf[a] : a \in Article} \ {None}
Technique == UNION {Techniques[a] : a \in Article}

ASSUME TerminalAssumption ==
  /\ Article \subseteq Nat /\ IsFiniteSet(Article)
  /\ Score \in [Article -> 0..100] /\ SourceOf \in [Article -> Nat]
  /\ Techniques \in [Article -> SUBSET Nat] /\ IsFiniteSet(Technique)
  /\ Dup \subseteq Article /\ Touched \subseteq Article
  /\ Kinds \in Seq(Range(Kinds)) \ {<<>>} /\ Head(Kinds) = None
  /\ ScoreKeys \subseteq 0..9
  /\ RowLimit \in Nat \ {0} /\ Heights \subseteq Nat /\ MaxAsked \in Nat
  /\ {HasNVD, HasAI, MayFail} \subseteq BOOLEAN

VARIABLES
  present, read, marks,        \* the store: articles, read flags, bookmarks
  list, sel, off, failed,      \* articles, selected, listOffset, loadErr # nil
  filt,                        \* the six filters
  stars,                       \* m.bookmarks: the set the stars are drawn from
  toggling,                    \* a ToggleBookmark between its two statements
  mode, height,
  text, kind,                  \* searchInput or iocInput; iocKind
  menu, cursor,                \* sourceList or mitreEntries, and the cursor
  cve, cveAsked,               \* the CVE popover; NVD lookups in flight
  brief, briefAsked,           \* the intel brief; summaries in flight
  keys                         \* the keys this user presses

storeVars == <<present, read, marks>>
listVars  == <<list, sel, off, failed>>
cveVars   == <<cve, cveAsked>>
briefVars == <<brief, briefAsked>>
modalVars == <<text, kind, menu, cursor>>
vars == <<storeVars, listVars, filt, stars, toggling, mode, height,
          modalVars, cveVars, briefVars, keys>>

\* What a key of normal mode that opens nothing leaves alone.
calm == <<toggling, mode, height, modalVars, cveVars, briefVars, keys>>

Filters == [min : 0..100, kind : Range(Kinds), unread : BOOLEAN, dupes : BOOLEAN,
            word : {None} \cup Term \cup Technique, marked : BOOLEAN]

Min2(a, b) == IF a < b THEN a ELSE b
Max2(a, b) == IF a > b THEN a ELSE b

-----------------------------------------------------------------------------
(* Queries and lists *)

Newest(S) == SortBy(S, [a \in S |-> a], [a \in S |-> 0])
Capped(s) == SubSeq(s, 1, Min2(Len(s), RowLimit))

\* What the filters of Store.List let through, the read flag apart.
Passes(a, f) ==
  /\ f.dupes \/ a \notin Dup
  /\ f.kind = None \/ KindOf[a] = f.kind
  /\ Score[a] >= f.min
  /\ f.word = None \/ f.word \in Words[a]

\* Store.List for one reader, of source src, with rd the read flags it finds.
List(f, src, rd) ==
  Capped(Newest({a \in present : /\ Passes(a, f)
                                 /\ src = None \/ SourceOf[a] = src
                                 /\ f.unread => a \notin rd}))

\* BookmarkedArticles; no property asks in which order.
BookmarkedArticles == Capped(Newest((marks \cap present) \ Dup))

Clamp(s, n) == IF s >= n THEN Max2(0, n - 1) ELSE s

\* The rows are copied: a read flag stays what it was when the query ran.
Show(ids, rd, s, o) ==
  /\ list' = [i \in 1..Len(ids) |-> [id |-> ids[i], read |-> ids[i] \in rd]]
  /\ failed' = FALSE
  /\ sel' = Clamp(s, Len(ids)) /\ off' = Min2(o, sel')

\* reloadArticles from selection s and offset o.
ReloadArticles(f, rd, s, o) ==
  \/ Show(IF f.marked THEN BookmarkedArticles ELSE List(f, None, rd), rd, s, o)
  \/ MayFail /\ failed' = TRUE /\ list' = list /\ sel' = s /\ off' = o

ReloadArticlesWithSource(f, src) ==
  \/ Show(List(f, src, read), read, 0, 0)
  \/ MayFail /\ failed' = TRUE /\ UNCHANGED <<list, sel, off>>

-----------------------------------------------------------------------------
(* Keys of normal mode *)

Key(m, k) == mode = m /\ k \in keys /\ toggling = None

HasSelected == sel < Len(list)
SelectedRow == list[sel + 1]

VisibleRows == Max2(1, height - (IF mode = "search" THEN 5 ELSE 4))

EnsureSelectedVisible(o, s) ==
  LET up == Min2(o, s) IN IF s >= up + VisibleRows THEN s - VisibleRows + 1 ELSE up

MoveSelection ==
  /\ Key("normal", "move") /\ list # <<>>
  /\ \E delta \in {1, -1, VisibleRows \div 2, -(VisibleRows \div 2)} :
       sel' = Clamp(Max2(0, sel + delta), Len(list))
  /\ off' = EnsureSelectedVisible(off, sel')
  /\ UNCHANGED <<storeVars, list, failed, filt, stars, calm>>

GoTop ==
  /\ Key("normal", "move")
  /\ sel' = 0 /\ off' = 0
  /\ UNCHANGED <<storeVars, list, failed, filt, stars, calm>>

GoBottom ==
  /\ Key("normal", "move")
  /\ sel' = Max2(0, Len(list) - 1)
  /\ off' = EnsureSelectedVisible(off, sel')
  /\ UNCHANGED <<storeVars, list, failed, filt, stars, calm>>

\* MarkRead of the selected row unless its copy is read already; in the store,
\* where the row may be gone, and in the copy.
MarkSelectedRead ==
  /\ Key("normal", "read") /\ HasSelected /\ ~SelectedRow.read
  /\ read' = read \cup ({SelectedRow.id} \cap present)
  /\ list' = [list EXCEPT ![sel + 1].read = TRUE]
  /\ UNCHANGED <<present, marks, sel, off, failed, filt, stars, calm>>

\* "o" marks the row as well; the command that starts the browser answers nothing.
OpenSelected == MarkSelectedRead

\* "M": every article of the store, whatever the filters show.
MarkAllRead ==
  /\ Key("normal", "read")
  /\ read' = present
  /\ ReloadArticles(filt, present, sel, off)
  /\ UNCHANGED <<present, marks, filt, stars, calm>>

\* "b": ToggleBookmark asks whether the row is there ...
AskBookmark ==
  /\ Key("normal", "mark") /\ HasSelected
  /\ toggling' = [id |-> SelectedRow.id, had |-> SelectedRow.id \in marks]
  /\ UNCHANGED <<storeVars, listVars, filt, stars, mode, height, modalVars,
                 cveVars, briefVars, keys>>

\* Variant: the star follows what was asked for, not what the store did.
DrawStarAnyway(a, had, ok) ==
  stars' = IF had THEN stars \ {a} ELSE stars \cup {a}

\* The star follows the answer; an error leaves it.
DrawStar(a, had, ok) ==
  stars' = CASE ~ok -> stars [] had -> stars \ {a} [] OTHER -> stars \cup {a}

\* Variant: the INSERT is not checked against the articles table.
WriteBlindly ==
  /\ toggling # None
  /\ marks' = IF toggling.had THEN marks \ {toggling.id} ELSE marks \cup {toggling.id}
  /\ DrawStar(toggling.id, toggling.had, TRUE)
  /\ toggling' = None
  /\ UNCHANGED <<present, read, listVars, filt, mode, height, modalVars,
                 cveVars, briefVars, keys>>

\* ... and then deletes or inserts it.  The INSERT is refused when the daemon has
\* inserted the bookmark, or purged the article, in between.
WriteBookmark ==
  /\ toggling # None
  /\ \E locked \in {FALSE, MayFail} :
       LET a == toggling.id
           ok == ~locked /\ (toggling.had \/ (a \in present /\ a \notin marks))
       IN /\ marks' = CASE ~ok -> marks
                        [] toggling.had -> marks \ {a}
                        [] OTHER -> marks \cup {a}
          /\ DrawStar(a, toggling.had, ok)
  /\ toggling' = None
  /\ UNCHANGED <<present, read, listVars, filt, mode, height, modalVars,
                 cveVars, briefVars, keys>>

\* "B" starts from the top of the other list.
ShowMarked ==
  /\ Key("normal", "mark")
  /\ filt' = [filt EXCEPT !.marked = ~@]
  /\ ReloadArticles(filt', read, 0, 0)
  /\ UNCHANGED <<storeVars, stars, calm>>

\* The keys that change one filter and reload.
NextKind(k) ==
  LET i == CHOOSE j \in 1..Len(Kinds) : Kinds[j] = k IN Kinds[(i % Len(Kinds)) + 1]

ChangedFilters ==
  {[filt EXCEPT !.min = 10 * d] : d \in IF "score" \in keys THEN ScoreKeys ELSE {}}
    \cup (IF "kind" \in keys THEN {[filt EXCEPT !.kind = NextKind(@)]} ELSE {})
    \cup (IF "unread" \in keys THEN {[filt EXCEPT !.unread = ~@]} ELSE {})
    \cup (IF "dupes" \in keys THEN {[filt EXCEPT !.dupes = ~@]} ELSE {})

FilterKey ==
  /\ mode = "normal" /\ toggling = None
  /\ filt' \in ChangedFilters
  /\ ReloadArticles(filt', read, sel, off)
  /\ UNCHANGED <<storeVars, stars, calm>>

ReloadKey ==
  /\ Key("normal", "move")
  /\ ReloadArticles(filt, read, sel, off)
  /\ UNCHANGED <<storeVars, filt, stars, calm>>

Quit ==
  /\ Key("normal", "move") /\ mode' = "quit"
  /\ UNCHANGED <<storeVars, listVars, filt, stars, toggling, height, modalVars,
                 cveVars, briefVars, keys>>

-----------------------------------------------------------------------------
(* The search bar, the source picker and the technique list *)

OpenSearch ==
  /\ Key("normal", "search")
  /\ mode' = "search" /\ text' = filt.word
  /\ UNCHANGED <<storeVars, listVars, filt, stars, toggling, height, kind, menu,
                 cursor, cveVars, briefVars, keys>>

\* Runes, backspace and ctrl+u: any text may come of them.
EditSearch ==
  /\ Key("search", "search")
  /\ text' \in Term \cup {None}
  /\ UNCHANGED <<storeVars, listVars, filt, stars, toggling, mode, height, kind,
                 menu, cursor, cveVars, briefVars, keys>>

EnterSearch ==
  /\ Key("search", "search")
  /\ filt' = [filt EXCEPT !.word = text]
  /\ mode' = "normal"
  /\ ReloadArticles(filt', read, sel, off)
  /\ UNCHANGED <<storeVars, stars, toggling, height, modalVars, cveVars,
                 briefVars, keys>>

EscapeSearch ==
  /\ Key("search", "search")
  /\ mode' = "normal" /\ text' = None
  /\ UNCHANGED <<storeVars, listVars, filt, stars, toggling, height, kind, menu,
                 cursor, cveVars, briefVars, keys>>

Sources ==
  LET all == {SourceOf[a] : a \in present} IN SortBy(all, [s \in all |-> -s], [s \in all |-> 0])

\* Techniques by how many visible articles carry them, the tag deciding ties.
TTPFrequency(t) == Cardinality({a \in present \ Dup : t \in Techniques[a]})
TechniqueList ==
  LET seen == {t \in Technique : TTPFrequency(t) > 0}
  IN SortBy(seen, [t \in seen |-> TTPFrequency(t)], [t \in seen |-> -t])

OpenMenu(m, items) ==
  /\ Key("normal", "menus")
  /\ menu' = items /\ cursor' = 0 /\ mode' = m
  /\ UNCHANGED <<storeVars, listVars, filt, stars, toggling, height, text, kind,
                 cveVars, briefVars, keys>>

OpenSourcePicker == OpenMenu("sources", Sources)
OpenMITRE        == OpenMenu("techniques", TechniqueList)

InMenu == Key("sources", "menus") \/ Key("techniques", "menus")

\* Variant: the cursor runs past the last line.
CursorsUnbounded == {cursor + 1, Max2(0, cursor - 1), 0, Max2(0, Len(menu) - 1)}

\* j, k, g and G.
Cursors ==
  {IF cursor < Len(menu) - 1 THEN cursor + 1 ELSE cursor,
   Max2(0, cursor - 1), 0, Max2(0, Len(menu) - 1)}

MoveCursor ==
  /\ InMenu /\ cursor' \in Cursors
  /\ UNCHANGED <<storeVars, listVars, filt, stars, toggling, mode, height, text,
                 kind, menu, cveVars, briefVars, keys>>

CloseMenu ==
  /\ mode' = "normal" /\ menu' = <<>>
  /\ UNCHANGED <<storeVars, stars, toggling, height, text, kind, cursor, cveVars,
                 briefVars, keys>>

EscapeMenu == InMenu /\ CloseMenu /\ UNCHANGED <<listVars, filt>>

\* Enter clears the search and the source type, and shows that source alone: until
\* the next reload, for the source is not a field of the model.
PickSource ==
  /\ Key("sources", "menus") /\ CloseMenu
  /\ IF cursor < Len(menu)
     THEN /\ filt' = [filt EXCEPT !.word = None, !.kind = None]
          /\ ReloadArticlesWithSource(filt', menu[cursor + 1])
     ELSE UNCHANGED <<filt, listVars>>

ClearSource ==
  /\ Key("sources", "menus") /\ CloseMenu
  /\ ReloadArticlesWithSource(filt, None)
  /\ UNCHANGED filt

\* Enter searches titles and summaries for the tag.
PickTechnique ==
  /\ Key("techniques", "menus") /\ CloseMenu
  /\ IF cursor < Len(menu)
     THEN /\ filt' = [filt EXCEPT !.word = menu[cursor + 1]]
          /\ ReloadArticles(filt', read, sel, off)
     ELSE UNCHANGED <<filt, listVars>>

-----------------------------------------------------------------------------
(* The CVE popover *)

NoCve == [id |-> None, detail |-> None, failed |-> FALSE, loading |-> FALSE,
          articles |-> {}]

\* Visible articles that carry the CVE; the consensus and timeline sections are
\* computed from the same rows.
ArticlesForCVE(c) == {a \in present \ Dup : CveOf[a] = c}

\* The lookup is a command; a query of the local corpus that fails leaves what the
\* popover held.
OpenCVEPopover ==
  /\ Key("normal", "cve") /\ HasSelected
  /\ LET c == CveOf[SelectedRow.id]
     IN /\ c # None
        /\ HasNVD => cveAsked[c] < MaxAsked
        /\ \E local \in {ArticlesForCVE(c)} \cup (IF MayFail THEN {cve.articles} ELSE {}) :
             cve' = [id |-> c, detail |-> None, failed |-> FALSE,
                     loading |-> HasNVD \/ cve.loading, articles |-> local]
        /\ cveAsked' = IF HasNVD THEN [cveAsked EXCEPT ![c] = @ + 1] ELSE cveAsked
  /\ mode' = "cve"
  /\ UNCHANGED <<storeVars, listVars, filt, stars, toggling, height, modalVars,
                 briefVars, keys>>

\* Any key closes it.  cveLoading is not reset.
CloseCVE ==
  /\ Key("cve", "cve") /\ mode' = "normal"
  /\ cve' = [cve EXCEPT !.id = None, !.articles = {}]
  /\ UNCHANGED <<storeVars, listVars, filt, stars, toggling, height, modalVars,
                 cveAsked, briefVars, keys>>

\* Variant: whoever asked, the answer is taken.
TakeAnyCVE(c, ok) ==
  cve' = IF ok THEN [cve EXCEPT !.loading = FALSE, !.detail = c]
         ELSE [cve EXCEPT !.loading = FALSE, !.failed = TRUE]

\* Variant: a failing lookup leaves the popover loading.
TakeGoodCVE(c, ok) ==
  cve' = IF c # cve.id \/ ~ok THEN cve ELSE [cve EXCEPT !.loading = FALSE, !.detail = c]

\* An answer for another CVE than the one on screen is discarded.
TakeCVE(c, ok) ==
  cve' = IF c # cve.id THEN cve
         ELSE IF ok THEN [cve EXCEPT !.loading = FALSE, !.detail = c]
         ELSE [cve EXCEPT !.loading = FALSE, !.failed = TRUE]

\* fetchCVEDetail answers within its 15 seconds, well or with an error.
AnswerCVE(c) ==
  /\ toggling = None /\ mode # "quit"
  /\ cveAsked[c] > 0
  /\ cveAsked' = [cveAsked EXCEPT ![c] = @ - 1]
  /\ \E ok \in BOOLEAN : TakeCVE(c, ok)
  /\ UNCHANGED <<storeVars, listVars, filt, stars, toggling, mode, height,
                 modalVars, briefVars, keys>>

-----------------------------------------------------------------------------
(* The intel brief *)

NoBrief(w) == [window |-> w, body |-> None, failed |-> FALSE, loading |-> FALSE]

\* The articles to brief on: visible, of score 30 or more, in the window.
BriefRows(w) == {a \in present \ Dup : Score[a] >= 30 /\ a \in Recent[w]}

OpenAIBrief(w) ==
  /\ Key("normal", "brief")
  /\ mode' = "brief"
  /\ \/ /\ HasAI /\ BriefRows(w) # {} /\ briefAsked[w] < MaxAsked
        /\ brief' = [NoBrief(w) EXCEPT !.loading = TRUE]
        /\ briefAsked' = [briefAsked EXCEPT ![w] = @ + 1]
     \/ /\ HasAI /\ (MayFail \/ BriefRows(w) = {})
        /\ brief' = [NoBrief(w) EXCEPT !.failed = TRUE]
        /\ UNCHANGED briefAsked
     \/ ~HasAI /\ brief' = NoBrief(w) /\ UNCHANGED briefAsked
  /\ UNCHANGED <<storeVars, listVars, filt, stars, toggling, height, modalVars,
                 cveVars, keys>>

CloseAIBrief ==
  /\ Key("brief", "brief") /\ mode' = "normal"
  /\ brief' = NoBrief(brief.window)
  /\ UNCHANGED <<storeVars, listVars, filt, stars, toggling, height, modalVars,
                 cveVars, briefAsked, keys>>

\* The answer does not say which request it belongs to: whatever is on screen
\* takes it.
TakeBrief(w, ok) ==
  brief' = IF ok THEN [brief EXCEPT !.loading = FALSE, !.body = w]
           ELSE [brief EXCEPT !.loading = FALSE, !.failed = TRUE]

\* fetchAIBrief answers within its 60 seconds.
AnswerBrief(w) ==
  /\ toggling = None /\ mode # "quit"
  /\ briefAsked[w] > 0
  /\ briefAsked' = [briefAsked EXCEPT ![w] = @ - 1]
  /\ \E ok \in BOOLEAN : TakeBrief(w, ok)
  /\ UNCHANGED <<storeVars, listVars, filt, stars, toggling, mode, height,
                 modalVars, cveVars, keys>>

-----------------------------------------------------------------------------
(* The IOC decoder *)

\* detectIOC: the first pattern, in its order, that the text matches.
DetectIOC(t) ==
  IF t = None THEN None
  ELSE IF \A i \in 1..Len(Patterns) : Patterns[i] \notin IocMatches[t] THEN "unknown"
  ELSE Patterns[CHOOSE i \in 1..Len(Patterns) :
                  /\ Patterns[i] \in IocMatches[t]
                  /\ \A j \in 1..(i - 1) : Patterns[j] \notin IocMatches[t]]

IocStep(t, k) ==
  /\ text' = t /\ kind' = k
  /\ UNCHANGED <<storeVars, listVars, filt, stars, toggling, height, menu, cursor,
                 cveVars, briefVars, keys>>

OpenIOC   == Key("normal", "ioc") /\ mode' = "ioc" /\ IocStep(None, None)
EscapeIOC == Key("ioc", "ioc") /\ mode' = "normal" /\ IocStep(None, None)

\* Every rune typed detects anew, and so does Enter; ctrl+u clears.
TypeIOC ==
  \E t \in Ioc \cup {None} :
    Key("ioc", "ioc") /\ IocStep(t, DetectIOC(t)) /\ UNCHANGED mode

\* Backspace shortens the text and leaves what was detected.
BackspaceIOC ==
  \E t \in Ioc \cup {None} :
    Key("ioc", "ioc") /\ text # None /\ IocStep(t, kind) /\ UNCHANGED mode

-----------------------------------------------------------------------------
(* Overlays that any key dismisses: help, statistics, source chart, boards,     *)
(* patch briefs, score explainer                                                *)

Overlays == {"help", "stats", "viz", "boards", "patches", "explain"}

OpenOverlay(m) ==
  /\ Key("normal", "overlays") /\ mode' = m
  /\ UNCHANGED <<storeVars, listVars, filt, stars, toggling, height, modalVars,
                 cveVars, briefVars, keys>>

\* A query that fails leaves the mode as it is, and so does nothing here.
OpenHelp         == OpenOverlay("help")
OpenStats        == OpenOverlay("stats")
OpenViz          == OpenOverlay("viz")
OpenLeaderboards == OpenOverlay("boards")
OpenPatchBrief   == OpenOverlay("patches")
OpenScoreExplain == HasSelected /\ OpenOverlay("explain")

DismissOverlay ==
  /\ mode \in Overlays /\ toggling = None /\ "overlays" \in keys
  /\ mode' = "normal"
  /\ UNCHANGED <<storeVars, listVars, filt, stars, toggling, height, modalVars,
                 cveVars, briefVars, keys>>

\* The terminal is resized; the list is not scrolled.
Resize ==
  /\ "move" \in keys /\ mode # "quit" /\ toggling = None
  /\ height' \in Heights
  /\ UNCHANGED <<storeVars, listVars, filt, stars, toggling, mode, modalVars,
                 cveVars, briefVars, keys>>

-----------------------------------------------------------------------------
(* The daemon, in its own process *)

terminalVars == <<listVars, filt, stars, toggling, mode, height, modalVars,
                  cveVars, briefVars, keys>>

\* The fetch loop stores an article.
DaemonStores(a) ==
  /\ a \notin present /\ present' = present \cup {a}
  /\ UNCHANGED <<read, marks, terminalVars>>

\* Purge deletes old articles that are read; a bookmark goes with its article.
DaemonPurges(a) ==
  /\ a \in present \cap read
  /\ present' = present \ {a} /\ read' = read \ {a} /\ marks' = marks \ {a}
  /\ UNCHANGED terminalVars

\* The web reader marks read and toggles bookmarks in the same store.
DaemonReads(a) ==
  /\ a \in present \ read /\ read' = read \cup {a}
  /\ UNCHANGED <<present, marks, terminalVars>>

DaemonToggles(a) ==
  /\ a \in present
  /\ marks' = IF a \in marks THEN marks \ {a} ELSE marks \cup {a}
  /\ UNCHANGED <<present, read, terminalVars>>

-----------------------------------------------------------------------------
(* initialModel reads the bookmarks and fills the list with the default filters;
   a bookmark query that fails leaves no stars. *)
InitialModel ==
  /\ filt = [min |-> 10, kind |-> None, unread |-> FALSE, dupes |-> FALSE,
             word |-> None, marked |-> FALSE]
  /\ LET ids == List(filt, None, read)
     IN list = [i \in 1..Len(ids) |-> [id |-> ids[i], read |-> ids[i] \in read]]
  /\ sel = 0 /\ off = 0 /\ failed = FALSE
  /\ stars \in {marks} \cup (IF MayFail THEN {{}} ELSE {})
  /\ toggling = None /\ mode = "normal" /\ height = 0
  /\ text = None /\ kind = None /\ menu = <<>> /\ cursor = 0
  /\ cve = NoCve /\ cveAsked = [c \in Cve |-> 0]
  /\ brief \in {NoBrief(w) : w \in Window} /\ briefAsked = [w \in Window |-> 0]

Init ==
  /\ present \in {Article, Article \ Touched} /\ read = {} /\ marks = {}
  /\ keys \in Habits
  /\ InitialModel

NormalKeys ==
  \/ MoveSelection \/ GoTop \/ GoBottom
  \/ MarkSelectedRead \/ OpenSelected \/ MarkAllRead
  \/ AskBookmark \/ ShowMarked
  \/ FilterKey \/ ReloadKey \/ Quit
  \/ OpenSearch \/ OpenSourcePicker \/ OpenMITRE
  \/ OpenCVEPopover \/ (\E w \in Window : OpenAIBrief(w))
  \/ OpenIOC \/ OpenHelp \/ OpenStats \/ OpenViz
  \/ OpenLeaderboards \/ OpenPatchBrief \/ OpenScoreExplain

ModalKeys ==
  \/ EditSearch \/ EnterSearch \/ EscapeSearch
  \/ MoveCursor \/ EscapeMenu \/ PickSource \/ ClearSource \/ PickTechnique
  \/ CloseCVE \/ CloseAIBrief
  \/ EscapeIOC \/ TypeIOC \/ BackspaceIOC \/ DismissOverlay

Daemon == \E a \in Touched :
  DaemonStores(a) \/ DaemonPurges(a) \/ DaemonReads(a) \/ DaemonToggles(a)

Next ==
  \/ NormalKeys \/ ModalKeys \/ WriteBookmark \/ Resize
  \/ \E c \in Cve : AnswerCVE(c)
  \/ \E w \in Window : AnswerBrief(w)
  \/ Daemon

\* Commands carry a timeout, so they answer; a store that another process locks
\* gives up after its busy timeout, so a statement ends.
Fairness ==
  /\ \A c \in Cve : WF_vars(AnswerCVE(c))
  /\ \A w \in Window : WF_vars(AnswerBrief(w))
  /\ WF_vars(WriteBookmark)

Spec == Init /\ [][Next]_vars /\ Fairness

-----------------------------------------------------------------------------
(* What is drawn *)

\* View: a storage error hides everything else until a query succeeds.
Screen ==
  CASE height = 0 -> "loading"
    [] height # 0 /\ failed -> "error"
    [] OTHER -> mode

\* The rows renderList draws.
RowsDrawn == off..(Min2(off + VisibleRows, Len(list)) - 1)

\* What the popover says of the NVD entry.
PopoverSection ==
  CASE cve.loading /\ cve.detail = None -> "fetching"
    [] ~(cve.loading /\ cve.detail = None) /\ cve.failed -> "error"
    [] OTHER -> IF cve.detail # None THEN "detail" ELSE "none"

BriefSection ==
  CASE ~HasAI -> "byok"
    [] HasAI /\ brief.failed -> "error"
    [] OTHER -> IF brief.loading THEN "synthesising" ELSE "body"

-----------------------------------------------------------------------------
(* Properties *)

\* Types of the state.
TypeOK ==
  /\ present \subseteq Article /\ read \subseteq present /\ marks \subseteq present
  /\ list \in Seq([id : Article, read : BOOLEAN])
  /\ sel \in Nat /\ off \in Nat /\ failed \in BOOLEAN
  /\ filt \in Filters /\ stars \subseteq Article
  /\ toggling \in {None} \cup [id : Article, had : BOOLEAN]
  /\ cursor \in Nat
  /\ cve.id \in Cve \cup {None} /\ cve.articles \subseteq Article
  /\ cveAsked \in [Cve -> 0..MaxAsked] /\ briefAsked \in [Window -> 0..MaxAsked]

\* No slice is indexed out of its bounds, whatever the daemon, a reload, a filter
\* or a popover did in between: the selection is a row when there is one, scrolling
\* never starts below it, and the cursor is a line of its menu.
IndexInRange ==
  /\ sel < Max2(1, Len(list)) /\ off <= sel
  /\ mode \in {"sources", "techniques"} => cursor < Max2(1, Len(menu))

\* Everything the popover shows is of the CVE it is titled with: the detail (the
\* answer of a lookup the user has left is discarded) and the local articles.
PopoverIsOfItsCVE ==
  mode = "cve" => /\ cve.detail \in {None, cve.id}
                  /\ \A a \in cve.articles : CveOf[a] = cve.id

\* The rows satisfy the filters the status bar names.  (The bookmark list does not
\* compose with them, and a source picked from the picker only narrows.)
StatusBarIsTrue ==
  ~failed /\ ~filt.marked =>
    \A i \in 1..Len(list) : Passes(list[i].id, filt)

\* After a toggle that the store accepted the star agrees with the store, whatever
\* the daemon did between its two statements; a toggle that is refused leaves it.
StarAgrees ==
  [][\A a \in Article :
       WriteBookmark /\ toggling.id = a =>
         \/ (a \in stars') = (a \in marks')
         \/ stars' = stars /\ marks' = marks]_vars

\* While a modal is open the terminal writes nothing: read flags and bookmarks
\* change by the daemon alone.
ModalsOnlyRead ==
  [][mode # "normal" /\ toggling = None /\ ~Daemon => UNCHANGED storeVars]_vars

\* A key that moves the selection brings it on screen.
MovedIsDrawn ==
  [][MoveSelection \/ GoBottom => sel' \in RowsDrawn' \/ list = <<>>]_vars

\* A popover does not fetch, and a brief does not synthesise, for ever.
PopoverSettles ==
  (mode = "cve" /\ PopoverSection = "fetching") ~>
    ~(mode = "cve" /\ PopoverSection = "fetching")
BriefSettles ==
  (mode = "brief" /\ BriefSection = "synthesising") ~>
    ~(mode = "brief" /\ BriefSection = "synthesising")

\* What is on screen is true: no index is out of its bounds, the popover is of its
\* CVE, the rows satisfy the filters named.
ScreenIsTrue == IndexInRange /\ PopoverIsOfItsCVE /\ StatusBarIsTrue

\* A key does what the screen says: a toggled star agrees with the store, a modal
\* writes nothing, the row moved to is drawn.
KeysKeepTheirWord == StarAgrees /\ ModalsOnlyRead /\ MovedIsDrawn

\* Nothing loads for ever: neither the lookup of a popover nor a brief.
LoadingEnds == PopoverSettles /\ BriefSettles

-----------------------------------------------------------------------------
(* What the theorems of TerminalProofs rest on *)

\* What a modal will hand to the list when it closes is of the filter's type: the
\* text of the search bar, the lines of the technique list.
ModalsHold ==
  /\ height \in Heights \cup {0}
  /\ mode = "search" => text \in {None} \cup Term \cup Technique
  /\ mode = "sources" => menu \in Seq(Nat)
  /\ mode = "techniques" => menu \in Seq(Technique)

\* A popover that is closed has no CVE and no articles, so one that opens while the
\* corpus cannot be read shows none of another CVE.
ClosedIsEmpty ==
  /\ cve \in [id : Cve \cup {None}, detail : Cve \cup {None}, failed : BOOLEAN,
             loading : BOOLEAN, articles : SUBSET Article]
  /\ mode # "cve" => cve.id = None /\ cve.articles = {}

TerminalInv == TypeOK /\ ModalsHold /\ ClosedIsEmpty /\ ScreenIsTrue

=============================================================================
