------------------------------- MODULE Server -------------------------------
(***************************************************************************)
(* What the web server keeps beside the articles: the rows an account owns *)
(* and its settings, the enrichment of CVEs, the cached pages, the         *)
(* configuration, the EPSS table and the reports.  They share no state, so *)
(* every behaviour follows one of them.                                    *)
(***************************************************************************)
EXTENDS UserRows, Settings, Enrichment, PageCaches, ConfigStore, EpssScores, Dashboard

VARIABLE serving    \* the part this behaviour follows

vars == <<serving, rowVars, setVars, enrVars, pageCacheVars, configVars, epssVars, reportVars>>

Init ==
  /\ serving \in {"rows", "settings", "enrichment", "pages", "config", "epss", "reports"}
  /\ RowsInit /\ (serving # "rows" => endpoint = "lists")
  /\ SettingsInit /\ EnrichmentInit /\ PageInit /\ ConfigInit /\ EpssInit
  /\ corpus = [a \in Art |-> Absent]
  /\ IF serving = "reports" THEN hours \in Windows ELSE hours = Min(Windows)

OfRows(A)       == serving = "rows" /\ A /\ UNCHANGED <<serving, setVars, enrVars,
                     pageCacheVars, configVars, epssVars, reportVars>>
OfSettings(A)   == serving = "settings" /\ A /\ UNCHANGED <<serving, rowVars, enrVars,
                     pageCacheVars, configVars, epssVars, reportVars>>
OfEnrichment(A) == serving = "enrichment" /\ A /\ UNCHANGED <<serving, rowVars, setVars,
                     pageCacheVars, configVars, epssVars, reportVars>>
OfPages(A)      == serving = "pages" /\ A /\ UNCHANGED <<serving, rowVars, setVars,
                     enrVars, configVars, epssVars, reportVars>>
OfConfig(A)     == serving = "config" /\ A /\ UNCHANGED <<serving, rowVars, setVars,
                     enrVars, pageCacheVars, epssVars, reportVars>>
OfEpss(A)       == serving = "epss" /\ A /\ UNCHANGED <<serving, rowVars, setVars,
                     enrVars, pageCacheVars, configVars, reportVars>>
OfReports(A)    == serving = "reports" /\ A /\ UNCHANGED <<serving, rowVars, setVars,
                     enrVars, pageCacheVars, configVars, epssVars>>

Next ==
  \/ OfRows(RowsNext) \/ OfSettings(SettingsNext) \/ OfEnrichment(EnrichmentNext)
  \/ OfPages(PageNext) \/ OfConfig(ConfigNext) \/ OfEpss(EpssNext) \/ OfReports(ReportsNext)

Spec == Init /\ [][Next]_vars

\* The type invariants of the parts.
TypeOK ==
  /\ RowsTypeOK /\ SettingsTypeOK /\ EnrichmentTypeOK /\ PageTypeOK /\ ConfigTypeOK
  /\ EpssTypeOK /\ ReportsTypeOK

(* The parts keep to what they promise.  A part that a behaviour does not   *)
(* follow stays as it was started, so its states are looked at once.        *)

\* What an account owns: no row outlives its account or its article, the caps and
\* the order of the channels hold, and nobody's request changes another's rows.
AccountsSound == []NothingLeftBehind /\ []CapHolds /\ []ChannelsInOrder /\ OwnRowsOnly

\* The settings and the summary of what is new: a summary is of its window, a
\* dismissal changes no other setting, and it lasts unless the settings are saved.
SettingsKept ==
  serving = "settings" =>
    SummaryOfItsWindow /\ DismissalKeepsSettings /\ QuietUnlessSaved

\* The limits on requests: calls of a client in a window, calls to NVD in a band, and
\* who gives up waiting for NVD.
LimitsHold == serving = "enrichment" => WindowHolds /\ BandHolds /\ OnlyCrowdsStarve

\* What was learnt about CVEs is not unlearnt: a detail by a failed lookup, fresh
\* pulses by a failed call, an explanation by a second one, scores by a broken
\* download.
LearntIsKept == DetailKept /\ []PulsesKept /\ []SettledIsFree /\ ScoresStay

\* Cached pages: none is served past its time, and the sweeper keeps the freshest.
PagesFresh == []ServedFresh /\ SweepKeepsTheFreshest

\* The watched accounts: what a handler answered is in memory and in the file, and
\* only saves that meet spoil the file.
WatchlistSaved ==
  serving = "config" => AnsweredIsWatched /\ AnsweredIsSaved /\ OnlyMeetingSavesSpoil

\* The reports agree with each other and with the articles they count.
ReportsAgree ==
  serving = "reports" =>
    /\ LeaderboardsAgree /\ TimelineAgrees /\ SparklineAgrees /\ PreviousIsWhole
    /\ SeverityFirst /\ FeedAgrees /\ PreKEVAgrees /\ MomentumCountsOnce
    /\ ModalsAgree /\ LayersAgree

=============================================================================
