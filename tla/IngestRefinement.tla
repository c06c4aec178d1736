-------------------------- MODULE IngestRefinement --------------------------
(***************************************************************************)
(* The article table, read through the view its readers have, as an        *)
(* implementation of the Corpus specification.                             *)
(***************************************************************************)
EXTENDS Ingest

storedUrls == {row[i].url : i \in Live}

RowOf(u) == CHOOSE i \in Live : row[i].url = u

coverOf == [u \in storedUrls |->
              IF row[RowOf(u)].dup = None THEN u ELSE row[row[RowOf(u)].dup].url]

Abstract == INSTANCE Corpus WITH stored <- storedUrls, cover <- coverOf

\* Every step of a poll, of the reader or of the purge adds one article to the
\* corpus, removes some, or leaves the readers' view alone.
ImplementsCorpus == Abstract!CorpusSpec

=============================================================================
