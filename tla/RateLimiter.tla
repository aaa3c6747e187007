---------------------------- MODULE RateLimiter -----------------------------
(***************************************************************************)
(* The fixed-window limiter of crates/nitr-http/src/protect.rs: one bucket *)
(* per client, a purge of finished windows that runs at most once per      *)
(* interval, and a cap on the clients tracked, past which a new client is  *)
(* admitted without a bucket.                                              *)
(*                                                                         *)
(* A check is one step: the clock is read under the lock that covers the   *)
(* whole of it.  A client is a bucket key, what client_key() reduces an    *)
(* address to.  The test runner's clock, which may be set back, is left    *)
(* out.                                                                    *)
(***************************************************************************)
EXTENDS Integers, Sequences, FiniteSets

CONSTANTS
  Clients,         \* the bucket keys
  Budget,          \* max: requests per window
  Window,          \* the window's length
  MaxBuckets,      \* MAX_BUCKETS
  PurgeThreshold,  \* BUCKET_PURGE_THRESHOLD
  PurgeInterval,   \* BUCKET_PURGE_INTERVAL
  MaxRefusals,     \* bound: refusals one bucket counts
  MaxClock         \* bound: how far the clock goes

ASSUME LimiterConstants ==
  /\ IsFiniteSet(Clients)
  /\ Budget \in Nat /\ Window \in Nat \ {0} /\ MaxBuckets \in Nat
  /\ PurgeThreshold \in Nat /\ PurgeInterval \in Nat

VARIABLES
  buckets,         \* the tracked clients' windows: their start and count
  lastPurge,
  clock,
  admitted         \* history: when each tracked client's requests were admitted, and the
                   \* start of the window each was charged to

limiterVars == <<buckets, lastPurge, clock, admitted>>

Tracked(map) == {c \in Clients : map[c] # <<>>}

\* A purge is due past the threshold, an interval after the last one.
PurgeDue ==
  /\ Cardinality(Tracked(buckets)) > PurgeThreshold
  /\ clock - lastPurge >= PurgeInterval

\* Mutant: every bucket goes, its window over or not.
Purged_all == [c \in Clients |-> <<>>]

\* What a purge leaves: the windows that are not over.
Purged ==
  [c \in Clients |->
     IF buckets[c] # <<>> /\ clock - buckets[c][1] < Window THEN buckets[c] ELSE <<>>]

\* The client's bucket, new or starting over when its window has ended.
BucketOf(map, c) ==
  IF map[c] = <<>> \/ clock - map[c][1] >= Window THEN <<clock, 0>> ELSE map[c]

\* Mutant: the cap is compared after the bucket is made.
AtCap_late(map, c) == Cardinality(Tracked(map)) > MaxBuckets /\ map[c] = <<>>

\* The client cap: a client without a bucket gets none.
AtCap(map, c) == Cardinality(Tracked(map)) >= MaxBuckets /\ map[c] = <<>>

\* check_with()
Check(c) ==
  LET map == IF PurgeDue THEN Purged ELSE buckets
      b == BucketOf(map, c)
      n == b[2] + 1
  IN  /\ n <= Budget + MaxRefusals
      /\ lastPurge' = IF PurgeDue THEN clock ELSE lastPurge
      /\ IF AtCap(map, c)
           THEN buckets' = map /\ UNCHANGED admitted
           ELSE /\ buckets' = [map EXCEPT ![c] = <<b[1], n>>]
                /\ admitted' = IF n > Budget THEN admitted
                               ELSE [admitted EXCEPT ![c] = Append(@, [at |-> clock, window |-> b[1]])]
      /\ UNCHANGED clock

ClockMoves ==
  /\ clock < MaxClock
  /\ clock' = clock + 1
  /\ UNCHANGED <<buckets, lastPurge, admitted>>

LimiterInit ==
  /\ buckets = [c \in Clients |-> <<>>]
  /\ lastPurge = 0
  /\ clock = 0
  /\ admitted = [c \in Clients |-> <<>>]

LimiterNext ==
  \/ \E c \in Clients : Check(c)
  \/ ClockMoves

LimiterSpec == LimiterInit /\ [][LimiterNext]_limiterVars

-----------------------------------------------------------------------------
(* Properties. *)

\* Through any stretch of time as long as a window, a client that is tracked gets at
\* most two budgets, the end of one window and the start of the next: no purge and no
\* client at the cap gives it a third (check_with).  Of two admissions with 2 * Budget - 1
\* others between them, the later one comes at least a window after the earlier.
AtMostTwoBudgets ==
  \A c \in Clients : \A i \in DOMAIN admitted[c] :
    i + 2 * Budget \in DOMAIN admitted[c] =>
      admitted[c][i + 2 * Budget].at - admitted[c][i].at >= Window

\* No flood of addresses makes the limiter track more clients than its cap.
ClientsCapped == Cardinality(Tracked(buckets)) <= MaxBuckets

\* The limiter bounds what a client may do and what it costs to know.
LimitsHold == AtMostTwoBudgets /\ ClientsCapped

=============================================================================
