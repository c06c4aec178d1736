----------------------------- MODULE PageCaches -----------------------------
(***************************************************************************)
(* The pages and answers that are computed for everybody and kept for some *)
(* minutes (internal/server: cve_page.go, public_rss.go, public_stats.go   *)
(* and the leaderboards of server.go), and the sweeper of their caches     *)
(* (cache_sweeper.go).  All are read through in the same way: look under   *)
(* the lock, compute without it, store under the lock.                     *)
(***************************************************************************)
EXTENDS Integers, FiniteSets

CONSTANTS
  CvePage,         \* pages /cve/<id>, the cache with the cap
  Answer,          \* the other cached pages and answers
  Unswept,         \* those of the ATT&CK dashboard, which the sweeper leaves out
  Forced,          \* the brief of the day: one may ask for a new one
  Certain,         \* those whose computation has no error to return
  Visitor,         \* requests that may compute at a time
  TTL,             \* how long each is kept
  Cap,             \* cvePageHardCap, 2000
  Build,           \* bound: how long computing a page takes
  LastHour         \* bound: the clock

Cached == CvePage \cup Answer

ASSUME PageAssumption ==
  /\ CvePage \cap Answer = {} /\ Unswept \subseteq Answer /\ CvePage \subseteq Certain
  /\ Forced \subseteq Answer \cap Unswept
  /\ TTL \in [Cached -> Nat \ {0}]
  /\ Cap \in Nat \ {0} /\ Build \in Nat /\ LastHour \in Nat

VARIABLES
  hour,            \* the clock
  cache,           \* page to the time its data was read at and its expiry
  computing        \* what each visitor's request computes, and when it began

pageCacheVars == <<hour, cache, computing>>

Waiting == [pc |-> "waiting"]

Servable(p) == p \in DOMAIN cache /\ hour < cache[p].expiry

Compute(v, p) ==
  /\ computing[v] = Waiting
  /\ computing' = [computing EXCEPT ![v] = [pc |-> "computing", page |-> p, read |-> hour]]
  /\ UNCHANGED <<hour, cache>>

\* A page served from the cache changes nothing: no action.
Miss(v, p) == ~ Servable(p) /\ Compute(v, p)

\* handleDigest: a POST leaves the stored brief aside, until the new one is there.
ForceDigest(v, p) == Servable(p) /\ Compute(v, p)

\* The page is stored and sent: also a 404, and what is left of a page when NVD
\* failed or the visitor went away.
Fill(v) ==
  LET p == computing[v].page IN
  /\ computing[v] # Waiting /\ computing' = [computing EXCEPT ![v] = Waiting]
  /\ cache' = [q \in DOMAIN cache \cup {p} |->
                 IF q = p THEN [read |-> computing[v].read, expiry |-> hour + TTL[p]]
                 ELSE cache[q]]
  /\ hour' = hour

ComputeFails(v) ==
  /\ computing[v] # Waiting /\ computing[v].page \notin Certain
  /\ computing' = [computing EXCEPT ![v] = Waiting]
  /\ UNCHANGED <<hour, cache>>

-----------------------------------------------------------------------------
Expired == {p \in DOMAIN cache \ Unswept : hour > cache[p].expiry}

\* Variant: any entries, as the map ranges.
EvictAny(pages, n) == {s \in SUBSET pages : Cardinality(s) = n}

\* The n entries that would expire first.
evictOldest(pages, n) ==
  {s \in SUBSET pages : /\ Cardinality(s) = n
                        /\ \A p \in s, q \in pages \ s : cache[p].expiry <= cache[q].expiry}

\* Every 150 seconds.  The caps of the other caches are beyond their keys.
SweepCaches ==
  LET pages  == (DOMAIN cache \cap CvePage) \ Expired
      excess == IF Cardinality(pages) > Cap THEN Cardinality(pages) - Cap ELSE 0
  IN /\ \E s \in evictOldest(pages, excess) :
          /\ Expired \cup s # {}
          /\ cache' = [p \in DOMAIN cache \ (Expired \cup s) |-> cache[p]]
     /\ UNCHANGED <<hour, computing>>

RestartEmpty ==
  /\ cache # << >> /\ cache' = << >> /\ computing' = [v \in Visitor |-> Waiting]
  /\ hour' = hour

HourPasses ==
  /\ hour < LastHour /\ hour' = hour + 1
  /\ \A v \in Visitor : computing[v] # Waiting => hour - computing[v].read < Build
  /\ UNCHANGED <<cache, computing>>

PageInit == hour = 0 /\ cache = << >> /\ computing = [v \in Visitor |-> Waiting]

PageNext ==
  \/ \E v \in Visitor : Fill(v) \/ ComputeFails(v) \/ \E p \in Cached : Miss(v, p)
  \/ \E v \in Visitor, p \in Forced : ForceDigest(v, p)
  \/ SweepCaches \/ RestartEmpty \/ HourPasses

-----------------------------------------------------------------------------
\* Entries and computations are of pages, and none is read in the future.
PageTypeOK ==
  /\ hour \in 0 .. LastHour /\ DOMAIN cache \subseteq Cached
  /\ \A p \in DOMAIN cache : cache[p].read <= hour /\ cache[p].expiry \in Nat
  /\ \A v \in Visitor : computing[v] = Waiting \/ computing[v].page \in Cached

\* What is served was read no longer ago than its time to live and the time it
\* took to compute, also when a slow computation stores its result over a newer.
ServedFresh ==
  \A p \in DOMAIN cache : Servable(p) => hour - cache[p].read < TTL[p] + Build

\* A sweep leaves the cap, gives up no page that may still be served unless the
\* cap is passed, and then none that would have lived longer than one it keeps.
SweepKeepsTheFreshest ==
  [][LET lost == {p \in DOMAIN cache \ DOMAIN cache' : Servable(p)}
         kept == DOMAIN cache' \cap CvePage
     IN DOMAIN cache \ DOMAIN cache' # {} /\ cache' # << >> =>
          /\ Cardinality(kept) <= Cap
          /\ lost # {} => Cardinality(kept) = Cap
          /\ \A p \in lost, q \in kept : cache[p].expiry <= cache[q].expiry]_pageCacheVars

-----------------------------------------------------------------------------
(* What the theorems of ServerProofs rest on *)

PageShape ==
  /\ PageTypeOK /\ DOMAIN computing = Visitor /\ IsFiniteSet(DOMAIN cache)
  /\ \A p \in DOMAIN cache : cache[p].read \in 0 .. hour

\* An entry expires at most a computation and a time to live after its reading.
ExpiresInTime ==
  /\ \A v \in Visitor : computing[v] # Waiting => computing[v].read \in hour - Build .. hour
                                                  /\ computing[v].read >= 0
  /\ \A p \in DOMAIN cache : cache[p].expiry <= cache[p].read + Build + TTL[p]

PageInv == PageShape /\ ExpiresInTime

=============================================================================
