---------------------------- MODULE RateLimiter ----------------------------
(***************************************************************************)
(* The sliding window that guards the calls to the summarizer              *)
(* (internal/server/ratelimit.go): one bucket of times per route and       *)
(* client address, in memory, and a sweep that drops idle buckets.         *)
(***************************************************************************)
EXTENDS Integers, Sequences

CONSTANTS
  Key,             \* route and client address
  Limit,           \* 20 calls
  Window,          \* 60 seconds
  MaxGrants        \* bound: calls granted to a key

ASSUME LimiterAssumption == Limit \in Nat \ {0} /\ Window \in Nat \ {0} /\ MaxGrants \in Nat

VARIABLES
  now,             \* the clock
  buckets,         \* the times each key has a bucket with; an absent one is empty
  granted          \* history: when each key was allowed a call

limVars == <<buckets, granted>>

\* The entries are gone through in order; those after the cutoff are kept.
Live(key) ==
  LET kept[n \in 0 .. Len(buckets[key])] ==
        IF n = 0 THEN << >>
        ELSE IF buckets[key][n] > now - Window THEN Append(kept[n - 1], buckets[key][n])
        ELSE kept[n - 1]
  IN kept[Len(buckets[key])]

\* Variant: one call too many.
AllowOneMore(key) ==
  /\ Len(Live(key)) <= Limit /\ Len(granted[key]) < MaxGrants
  /\ buckets' = [buckets EXCEPT ![key] = Append(Live(key), now)]
  /\ granted' = [granted EXCEPT ![key] = Append(@, now)]

Allow(key) ==
  /\ Len(Live(key)) < Limit /\ Len(granted[key]) < MaxGrants
  /\ buckets' = [buckets EXCEPT ![key] = Append(Live(key), now)]
  /\ granted' = [granted EXCEPT ![key] = Append(@, now)]

\* 429: the bucket only loses what has expired.
Refuse(key) ==
  /\ Len(Live(key)) >= Limit
  /\ buckets' = [buckets EXCEPT ![key] = Live(key)]
  /\ granted' = granted

\* Every five minutes: a bucket goes when none of its entries is live.
Sweep ==
  /\ buckets' = [k \in Key |-> IF Live(k) = << >> THEN << >> ELSE buckets[k]]
  /\ buckets' # buckets /\ granted' = granted

LimiterInit ==
  /\ now = 0 /\ buckets = [k \in Key |-> << >>] /\ granted = [k \in Key |-> << >>]

-----------------------------------------------------------------------------
\* No key is granted more than Limit calls within any stretch of the length of
\* the window, wherever it starts and whenever the sweep runs in between.
WindowHolds ==
  \A k \in Key : \A i \in DOMAIN granted[k] :
    i + Limit \in DOMAIN granted[k] => granted[k][i + Limit] - granted[k][i] >= Window

-----------------------------------------------------------------------------
(* What the theorems of ServerProofs rest on *)

\* Calls are granted one after the other.
GrantedInOrder ==
  \A k \in Key : \A i, j \in DOMAIN granted[k] :
    granted[k][i] \in 0 .. now /\ (i <= j => granted[k][i] <= granted[k][j])

\* A bucket is the rest of what was granted; what it has lost is expired.
BucketIsTheRest ==
  \A k \in Key :
    LET lost == Len(granted[k]) - Len(buckets[k]) IN
    /\ lost >= 0
    /\ \A i \in 1 .. lost : granted[k][i] <= now - Window
    /\ \A i \in DOMAIN buckets[k] : buckets[k][i] = granted[k][lost + i]

LimiterInv ==
  /\ now \in Nat /\ {buckets, granted} \subseteq [Key -> Seq(Nat)]
  /\ GrantedInOrder /\ BucketIsTheRest /\ WindowHolds

=============================================================================
