----------------------------- MODULE EpssScores -----------------------------
(***************************************************************************)
(* The local table of EPSS scores (internal/cve/epss.go): one goroutine    *)
(* refreshes it at the start and every day, in one transaction; requests   *)
(* read it meanwhile.                                                      *)
(***************************************************************************)
EXTENDS Integers, FiniteSets

CONSTANTS
  ScoredCVE,
  MaxDay           \* bound: publications

ASSUME EpssAssumption == MaxDay \in Nat

VARIABLES
  published,       \* the day of the file on the server, and the CVEs it lists
  download,        \* what the refresh under way has read of its file
  epss,            \* the committed table: the day each score is of, 0 for none
  lookup           \* a leaderboard: what its one query has returned

epssVars == <<published, download, epss, lookup>>

NoDownload == [pc |-> "waiting"]
Under(pc) == download.pc = pc

PublishFile(listed) ==
  /\ published.day < MaxDay
  /\ published' = [day |-> published.day + 1, listed |-> listed]
  /\ UNCHANGED <<download, epss, lookup>>

\* The rest of Refresh is one goroutine's: no two downloads at a time.
StartRefresh ==
  /\ download = NoDownload /\ published.day > 0
  /\ download' = [pc |-> "reading", day |-> published.day, unread |-> published.listed,
                  rows |-> epss]
  /\ UNCHANGED <<published, epss, lookup>>

\* INSERT OR REPLACE of a line; a line that is no score is left out.
ReadLine(c, scored) ==
  /\ Under("reading") /\ c \in download.unread
  /\ download' = [download EXCEPT !.unread = @ \ {c},
                                  !.rows[c] = IF scored THEN download.day ELSE @]
  /\ UNCHANGED <<published, epss, lookup>>

\* The loop ends with the file, with a line that is not CSV, with the limits and
\* with a download that breaks off: all are committed.
Commit ==
  /\ Under("reading")
  /\ epss' = download.rows /\ download' = NoDownload
  /\ UNCHANGED <<published, lookup>>

\* A statement or the commit fails, or the process stops: rolled back.
Rollback ==
  /\ Under("reading") /\ download' = NoDownload
  /\ UNCHANGED <<published, epss, lookup>>

\* Get and GetMany: absent CVEs are left out of the answer.
GetMany(ids) ==
  /\ lookup' = [c \in {d \in ids : epss[d] > 0} |-> epss[c]]
  /\ lookup' # lookup
  /\ UNCHANGED <<published, download, epss>>

EpssInit ==
  /\ published = [day |-> 0, listed |-> {}] /\ download = NoDownload
  /\ epss = [c \in ScoredCVE |-> 0] /\ lookup = << >>

EpssNext ==
  \/ \E cves \in SUBSET ScoredCVE : PublishFile(cves) \/ GetMany(cves)
  \/ StartRefresh \/ Commit \/ Rollback
  \/ \E c \in ScoredCVE, scored \in BOOLEAN : ReadLine(c, scored)

-----------------------------------------------------------------------------
\* Days are of files that were published.
EpssTypeOK ==
  /\ epss \in [ScoredCVE -> 0 .. published.day]
  /\ \A c \in DOMAIN lookup : lookup[c] \in 1 .. published.day

\* A refresh takes no score away and replaces none by an older one, whatever part
\* of its file it got: a leaderboard that had a score for a CVE always has one.
ScoresStay == [][\A c \in ScoredCVE : epss'[c] >= epss[c]]_epssVars

-----------------------------------------------------------------------------
(* What the theorems of ServerProofs rest on *)

\* What a refresh has put together is newer than the table, and no newer than
\* the file it reads.
RowsAreNewer ==
  \/ download = NoDownload
  \/ /\ download.pc = "reading" /\ download.day \in 1 .. published.day
     /\ download.rows \in [ScoredCVE -> 0 .. published.day]
     /\ \A c \in ScoredCVE : /\ download.rows[c] \in epss[c] .. published.day
                             /\ epss[c] <= download.day

EpssInv == EpssTypeOK /\ published.day \in Nat /\ RowsAreNewer

=============================================================================
