--------------------------- MODULE Shared_proofs ----------------------------
(***************************************************************************)
(* Proofs about what surrounds a handler: the rate limiter, the start of a *)
(* bundled executable, the session that reruns on saves, the cache that    *)
(* every Lua state shares, a test run and the configuration of a process.  *)
(***************************************************************************)
EXTENDS RateLimiter, Bundle, Watch, Cache, TestRunner, Configuration, FiniteSetTheorems, SequenceTheorems, TLAPS

-----------------------------------------------------------------------------
(* The rate limiter.                                                       *)
(*                                                                         *)
(* A client's admissions fall into windows that start at least a window's  *)
(* length apart, with at most a budget in each: a bucket is dropped or     *)
(* started over only when its window has ended.  So an admission and the   *)
(* one 2 * Budget further on are in windows with a third between them.     *)

Admissions == [at : Nat, window : Nat]

LimiterTypeOK ==
  /\ buckets \in [Clients -> {<<>>} \cup (Nat \X Nat)]
  /\ lastPurge \in Nat /\ clock \in Nat
  /\ admitted \in [Clients -> Seq(Admissions)]

\* How many of a bucket's n requests were admitted.
Charged(n) == IF n < Budget THEN n ELSE Budget

\* A window that starts at s and has counted n requests continues the admissions A: its
\* own are the last ones, and the others were charged to windows over by then.
Continues(A, s, n) ==
  /\ s <= clock /\ Charged(n) <= Len(A)
  /\ \A i \in 1..Len(A) : A[i].window <= s
  /\ \A i \in 1..(Len(A) - Charged(n)) : A[i].window + Window <= s

\* Each admission is in its window, and Budget of them never fit in one.
Spaced(A) ==
  /\ \A i \in 1..Len(A) : A[i].window <= A[i].at /\ A[i].at < A[i].window + Window
  /\ \A i \in 1..(Len(A) - Budget) : A[i].window + Window <= A[i + Budget].window

ClientInv(c) ==
  /\ Spaced(admitted[c])
  /\ buckets[c] = <<>> => Continues(admitted[c], clock, 0)
  /\ buckets[c] # <<>> => Continues(admitted[c], buckets[c][1], buckets[c][2])

LimiterInv ==
  /\ LimiterTypeOK
  /\ \A c \in Clients : ClientInv(c)
  /\ ClientsCapped

LEMMA PairIsABucket == ASSUME NEW x \in Nat \X Nat PROVE x # <<>>
<1> QED OBVIOUS

LEMMA AdmissionTypes ==
  ASSUME NEW A \in Seq(Admissions), NEW i \in 1..Len(A)
  PROVE  A[i].window \in Nat /\ A[i].at \in Nat
<1>1. A[i] \in Admissions
  OBVIOUS
<1> QED BY <1>1 DEF Admissions

\* A window that is over is followed by a new one, whoever drops its bucket.
LEMMA WindowOver ==
  ASSUME NEW A \in Seq(Admissions), NEW s \in Nat, NEW n \in Nat, clock \in Nat,
         Continues(A, s, n), clock - s >= Window
  PROVE  Continues(A, clock, 0)
<1>1. Charged(0) = 0
  BY LimiterConstants DEF Charged
<1>2. Len(A) \in Nat /\ \A i \in 1..Len(A) : A[i].window \in Nat
  BY AdmissionTypes
<1> QED BY <1>1, <1>2, LimiterConstants DEF Continues

\* A client without a bucket stays between windows as time passes.
LEMMA StaysBetween ==
  ASSUME NEW A \in Seq(Admissions), clock \in Nat, clock' \in Nat, clock <= clock',
         Continues(A, clock, 0)
  PROVE  Continues(A, clock, 0)'
<1>2. Len(A) \in Nat /\ \A i \in 1..Len(A) : A[i].window \in Nat
  BY AdmissionTypes
<1> QED BY <1>2, LimiterConstants DEF Continues, Charged

\* An admission more keeps the windows apart.
LEMMA Admit ==
  ASSUME NEW A \in Seq(Admissions), NEW s \in Nat, NEW n \in Nat, clock \in Nat,
         Continues(A, s, n), Spaced(A), clock - s < Window, n + 1 <= Budget
  PROVE  LET B == Append(A, [at |-> clock, window |-> s])
         IN  B \in Seq(Admissions) /\ Continues(B, s, n + 1) /\ Spaced(B)
<1> DEFINE a == [at |-> clock, window |-> s]
           B == Append(A, a)
<1>1. a \in Admissions /\ a.at = clock /\ a.window = s
  BY DEF Admissions
<1> HIDE DEF a
<1>2. /\ B \in Seq(Admissions) /\ Len(B) = Len(A) + 1 /\ Len(A) \in Nat
      /\ \A i \in 1..Len(A) : B[i] = A[i]
      /\ B[Len(A) + 1] = a
  BY <1>1
<1> HIDE DEF B
<1>3. \A i \in 1..Len(A) : A[i].window \in Nat /\ A[i].at \in Nat
  BY AdmissionTypes
<1>4. Charged(n) = n /\ Charged(n + 1) = n + 1
  BY LimiterConstants DEF Charged
<1>5. Continues(B, s, n + 1)
  <2>1. s <= clock /\ n + 1 <= Len(B)
    BY <1>2, <1>4 DEF Continues
  <2>2. \A i \in 1..Len(B) : B[i].window <= s
    BY <1>1, <1>2, <1>3 DEF Continues
  <2>3. \A i \in 1..(Len(B) - (n + 1)) : B[i].window + Window <= s
    BY <1>2, <1>3, <1>4 DEF Continues
  <2> QED BY <1>4, <2>1, <2>2, <2>3 DEF Continues
<1>6. Spaced(B)
  <2>1. \A i \in 1..Len(B) : B[i].window <= B[i].at /\ B[i].at < B[i].window + Window
    BY <1>1, <1>2, <1>3, LimiterConstants DEF Spaced, Continues
  <2>2. ASSUME NEW i \in 1..(Len(B) - Budget) PROVE B[i].window + Window <= B[i + Budget].window
    <3>1. CASE i + Budget <= Len(A)
      BY <3>1, <1>2, <1>3, LimiterConstants DEF Spaced
    <3>2. CASE i + Budget = Len(A) + 1
      <4>1. i \in 1..(Len(A) - Charged(n))
        BY <3>2, <1>2, <1>4, LimiterConstants
      <4> QED BY <3>2, <4>1, <1>1, <1>2, <1>3, LimiterConstants DEF Continues
    <3> QED BY <3>1, <3>2, <1>2, LimiterConstants
  <2> QED BY <2>1, <2>2 DEF Spaced
<1> QED BY <1>2, <1>5, <1>6 DEF a, B

\* A refusal changes only the bucket's count.
LEMMA OverBudget ==
  ASSUME NEW A \in Seq(Admissions), NEW s \in Nat, NEW n \in Nat,
         Continues(A, s, n), n + 1 > Budget
  PROVE  Continues(A, s, n + 1)
<1>1. Charged(n + 1) = Charged(n)
  BY LimiterConstants DEF Charged
<1> QED BY <1>1 DEF Continues

\* What a purge leaves of a client: its bucket, or nothing once its window is over.
LEMMA PurgeLeaves ==
  ASSUME LimiterInv, NEW d \in Clients, NEW map, map = IF PurgeDue THEN Purged ELSE buckets
  PROVE  /\ map[d] \in {<<>>, buckets[d]}
         /\ map[d] = <<>> => Continues(admitted[d], clock, 0)
         /\ map[d] # <<>> => /\ buckets[d] \in Nat \X Nat
                             /\ Continues(admitted[d], buckets[d][1], buckets[d][2])
<1>1. /\ buckets[d] # <<>> => buckets[d] \in Nat \X Nat
      /\ admitted[d] \in Seq(Admissions) /\ clock \in Nat
      /\ ClientInv(d)
  BY DEF LimiterInv, LimiterTypeOK
<1>2. CASE map[d] = buckets[d]
  BY <1>1, <1>2 DEF ClientInv
<1>3. CASE map[d] # buckets[d]
  <2>1. map[d] = <<>> /\ buckets[d] # <<>> /\ ~(clock - buckets[d][1] < Window)
    BY <1>3 DEF Purged
  <2>2. Continues(admitted[d], buckets[d][1], buckets[d][2])
    BY <1>1, <2>1 DEF ClientInv
  <2>3. buckets[d][1] \in Nat /\ buckets[d][2] \in Nat
    BY <1>1, <2>1
  <2>4. Continues(admitted[d], clock, 0)
    BY <1>1, <2>1, <2>2, <2>3, WindowOver, LimiterConstants
  <2> QED BY <2>1, <2>4
<1> QED BY <1>2, <1>3

\* The bucket a request is counted in.
LEMMA BucketContinues ==
  ASSUME LimiterInv, NEW c \in Clients, NEW map, map = IF PurgeDue THEN Purged ELSE buckets,
         NEW b, b = BucketOf(map, c)
  PROVE  /\ b[1] \in Nat /\ b[2] \in Nat /\ clock - b[1] < Window
         /\ Continues(admitted[c], b[1], b[2])
<1>1. admitted[c] \in Seq(Admissions) /\ clock \in Nat
  BY DEF LimiterInv, LimiterTypeOK
<1>2. CASE map[c] = <<>>
  BY <1>1, <1>2, PurgeLeaves, LimiterConstants DEF BucketOf
<1>3. CASE map[c] # <<>>
  <2>1. /\ map[c] = buckets[c] /\ map[c][1] \in Nat /\ map[c][2] \in Nat
        /\ Continues(admitted[c], map[c][1], map[c][2])
    BY <1>3, PurgeLeaves
  <2>2. CASE clock - map[c][1] >= Window
    <3>1. b = <<clock, 0>>
      BY <2>2 DEF BucketOf
    <3>2. Continues(admitted[c], clock, 0)
      BY <1>1, <2>1, <2>2, WindowOver
    <3> QED BY <1>1, <3>1, <3>2, LimiterConstants
  <2>3. CASE ~(clock - map[c][1] >= Window)
    BY <1>1, <1>3, <2>1, <2>3, LimiterConstants DEF BucketOf
  <2> QED BY <2>2, <2>3
<1> QED BY <1>2, <1>3

\* A purge tracks nobody new.
LEMMA PurgeShrinks ==
  ASSUME LimiterInv, NEW map, map = IF PurgeDue THEN Purged ELSE buckets
  PROVE  /\ IsFiniteSet(Tracked(map)) /\ Cardinality(Tracked(map)) \in Nat
         /\ Cardinality(Tracked(map)) <= MaxBuckets
<1>1. Tracked(map) \in SUBSET Tracked(buckets)
  BY PurgeLeaves DEF Tracked
<1>2. IsFiniteSet(Tracked(buckets))
  BY LimiterConstants, FS_Subset DEF Tracked
<1>3. /\ IsFiniteSet(Tracked(map))
      /\ Cardinality(Tracked(map)) <= Cardinality(Tracked(buckets))
  BY <1>1, <1>2, FS_Subset
<1>4. Cardinality(Tracked(map)) \in Nat /\ Cardinality(Tracked(buckets)) \in Nat
  BY <1>2, <1>3, FS_CardinalityType
<1>5. Cardinality(Tracked(buckets)) <= MaxBuckets
  BY DEF LimiterInv, ClientsCapped
<1> QED BY <1>3, <1>4, <1>5, LimiterConstants

LEMMA CheckInv ==
  ASSUME LimiterInv, NEW c \in Clients, Check(c)
  PROVE  LimiterInv'
<1> DEFINE map == IF PurgeDue THEN Purged ELSE buckets
           b == BucketOf(map, c)
           n == b[2] + 1
<1>1. /\ lastPurge' = IF PurgeDue THEN clock ELSE lastPurge
      /\ IF AtCap(map, c)
           THEN buckets' = map /\ UNCHANGED admitted
           ELSE /\ buckets' = [map EXCEPT ![c] = <<b[1], n>>]
                /\ admitted' = IF n > Budget THEN admitted
                               ELSE [admitted EXCEPT ![c] = Append(@, [at |-> clock, window |-> b[1]])]
      /\ UNCHANGED clock
  BY DEF Check
<1>2. /\ b[1] \in Nat /\ b[2] \in Nat /\ clock - b[1] < Window
      /\ Continues(admitted[c], b[1], b[2])
  BY BucketContinues
<1>3. \A d \in Clients :
        /\ map[d] \in {<<>>, buckets[d]}
        /\ map[d] = <<>> => Continues(admitted[d], clock, 0)
        /\ map[d] # <<>> => /\ buckets[d] \in Nat \X Nat
                            /\ Continues(admitted[d], buckets[d][1], buckets[d][2])
  BY PurgeLeaves
<1>4. /\ IsFiniteSet(Tracked(map)) /\ Cardinality(Tracked(map)) \in Nat
      /\ Cardinality(Tracked(map)) <= MaxBuckets
  BY PurgeShrinks
<1>5. map \in [Clients -> {<<>>} \cup (Nat \X Nat)]
  BY DEF LimiterInv, LimiterTypeOK, Purged
<1>6. /\ lastPurge \in Nat /\ clock \in Nat
      /\ admitted \in [Clients -> Seq(Admissions)]
      /\ \A d \in Clients : Spaced(admitted[d])
  BY DEF LimiterInv, LimiterTypeOK, ClientInv
<1> HIDE DEF map, b
<1>7. CASE AtCap(map, c)
  <2>1. buckets' = map /\ admitted' = admitted /\ clock' = clock /\ lastPurge' \in Nat
    BY <1>1, <1>6, <1>7
  <2>2. LimiterTypeOK'
    BY <1>5, <1>6, <2>1 DEF LimiterTypeOK
  <2>3. ASSUME NEW d \in Clients PROVE ClientInv(d)'
    BY <1>3, <1>6, <2>1 DEF ClientInv, Continues, Spaced
  <2>4. ClientsCapped'
    BY <1>4, <2>1 DEF ClientsCapped, Tracked
  <2> QED BY <2>2, <2>3, <2>4 DEF LimiterInv
<1>8. CASE ~AtCap(map, c)
  <2>1. /\ buckets' = [map EXCEPT ![c] = <<b[1], n>>] /\ clock' = clock /\ lastPurge' \in Nat
        /\ admitted' = IF n > Budget THEN admitted
                       ELSE [admitted EXCEPT ![c] = Append(@, [at |-> clock, window |-> b[1]])]
    BY <1>1, <1>6, <1>8
  <2>2. <<b[1], n>> \in Nat \X Nat
    BY <1>2
  <2>3. /\ admitted'[c] \in Seq(Admissions)
        /\ Continues(admitted'[c], b[1], n) /\ Spaced(admitted'[c])
    <3>1. CASE n > Budget
      BY <1>2, <1>6, <2>1, <3>1, OverBudget
    <3>2. CASE ~(n > Budget)
      <4>1. n <= Budget
        BY <1>2, <3>2, LimiterConstants
      <4>2. admitted'[c] = Append(admitted[c], [at |-> clock, window |-> b[1]])
        BY <1>6, <2>1, <3>2
      <4> QED BY <1>2, <1>6, <4>1, <4>2, Admit
    <3> QED BY <3>1, <3>2
  <2>4. \A d \in Clients \ {c} : admitted'[d] = admitted[d] /\ buckets'[d] = map[d]
    BY <1>5, <1>6, <2>1
  <2>5. buckets'[c] = <<b[1], n>> /\ buckets'[c][1] = b[1] /\ buckets'[c][2] = n
    BY <1>5, <2>1
  <2>6. LimiterTypeOK'
    <3>1. admitted' \in [Clients -> Seq(Admissions)]
      BY <1>6, <2>1, <2>3, <2>4
    <3>2. buckets' \in [Clients -> {<<>>} \cup (Nat \X Nat)]
      BY <1>5, <2>1, <2>2
    <3> QED BY <1>6, <2>1, <3>1, <3>2 DEF LimiterTypeOK
  <2>7. ASSUME NEW d \in Clients PROVE ClientInv(d)'
    <3>1. CASE d = c
      <4>1. buckets'[c] # <<>>
        BY <2>2, <2>5, PairIsABucket
      <4> QED BY <2>1, <2>3, <2>5, <3>1, <4>1 DEF ClientInv, Continues, Spaced
    <3>2. CASE d # c
      BY <1>3, <1>6, <2>1, <2>4, <3>2 DEF ClientInv, Continues, Spaced
    <3> QED BY <3>1, <3>2
  <2>8. ClientsCapped'
    <3>1. Tracked(map) \cup {c} = Tracked(buckets')
      BY <2>2, <2>4, <2>5, PairIsABucket DEF Tracked
    <3>2. Cardinality(Tracked(map) \cup {c}) =
            IF c \in Tracked(map) THEN Cardinality(Tracked(map)) ELSE Cardinality(Tracked(map)) + 1
      BY <1>4, FS_AddElement
    <3>3. c \in Tracked(map) \/ Cardinality(Tracked(map)) < MaxBuckets
      BY <1>4, <1>8, LimiterConstants DEF AtCap, Tracked
    <3>4. Tracked(buckets)' = Tracked(buckets')
      BY DEF Tracked
    <3> QED BY <1>4, <3>1, <3>2, <3>3, <3>4, LimiterConstants DEF ClientsCapped
  <2> QED BY <2>6, <2>7, <2>8 DEF LimiterInv
<1> QED BY <1>7, <1>8

LEMMA LimiterInitInv == LimiterInit => LimiterInv
<1> SUFFICES ASSUME LimiterInit PROVE LimiterInv
  OBVIOUS
<1>1. LimiterTypeOK
  BY DEF LimiterInit, LimiterTypeOK
<1>2. ASSUME NEW c \in Clients PROVE ClientInv(c)
  <2>1. admitted[c] = <<>> /\ buckets[c] = <<>> /\ Len(<<>>) = 0 /\ clock = 0
    BY DEF LimiterInit
  <2> QED BY <2>1, LimiterConstants DEF ClientInv, Spaced, Continues, Charged
<1>3. ClientsCapped
  <2>1. Tracked(buckets) = {}
    BY DEF LimiterInit, Tracked
  <2> QED BY <2>1, FS_EmptySet, LimiterConstants DEF ClientsCapped
<1> QED BY <1>1, <1>2, <1>3 DEF LimiterInv

LEMMA LimiterNextInv == LimiterInv /\ [LimiterNext]_limiterVars => LimiterInv'
<1> SUFFICES ASSUME LimiterInv, [LimiterNext]_limiterVars PROVE LimiterInv'
  OBVIOUS
<1>1. CASE ClockMoves
  <2>1. LimiterTypeOK'
    BY <1>1 DEF ClockMoves, LimiterInv, LimiterTypeOK
  <2>2. ASSUME NEW c \in Clients PROVE ClientInv(c)'
    <3>1. /\ clock \in Nat /\ clock' = clock + 1 /\ buckets' = buckets /\ admitted' = admitted
          /\ admitted[c] \in Seq(Admissions) /\ ClientInv(c)
      BY <1>1 DEF ClockMoves, LimiterInv, LimiterTypeOK
    <3>2. CASE buckets[c] = <<>>
      BY <3>1, <3>2, StaysBetween DEF ClientInv, Spaced
    <3>3. CASE buckets[c] # <<>>
      <4>1. buckets[c][1] \in Nat
        BY <3>3 DEF LimiterInv, LimiterTypeOK
      <4> QED BY <3>1, <3>3, <4>1 DEF ClientInv, Spaced, Continues
    <3> QED BY <3>2, <3>3
  <2>3. ClientsCapped'
    BY <1>1 DEF ClockMoves, LimiterInv, ClientsCapped, Tracked
  <2> QED BY <2>1, <2>2, <2>3 DEF LimiterInv
<1>2. CASE UNCHANGED limiterVars
  BY <1>2 DEF limiterVars, LimiterInv, LimiterTypeOK, ClientInv, Spaced, Continues,
              ClientsCapped, Tracked
<1> QED BY <1>1, <1>2, CheckInv DEF LimiterNext

\* The limiter keeps its types, whatever its clients, budget, window and cap are.
THEOREM LimiterTypeCorrect == LimiterSpec => []LimiterTypeOK
<1>1. LimiterInv => LimiterTypeOK
  BY DEF LimiterInv
<1> QED BY <1>1, LimiterInitInv, LimiterNextInv, PTL DEF LimiterSpec

\* No client the limiter tracks gets more than two budgets in any stretch of time as
\* long as a window, and no flood of addresses makes it track more than MAX_BUCKETS:
\* for every set of clients, budget, window, cap, purge threshold and interval, and
\* without a bound on the clock (check_with, in protect.rs).
THEOREM LimiterHolds == LimiterSpec => []LimitsHold
<1>1. LimiterInv => LimitsHold
  <2> SUFFICES ASSUME LimiterInv PROVE LimitsHold
    OBVIOUS
  <2>1. ASSUME NEW c \in Clients, NEW i \in DOMAIN admitted[c],
               i + 2 * Budget \in DOMAIN admitted[c]
        PROVE  admitted[c][i + 2 * Budget].at - admitted[c][i].at >= Window
    <3> DEFINE A == admitted[c]
    <3>1. A \in Seq(Admissions) /\ Spaced(A)
      BY DEF LimiterInv, LimiterTypeOK, ClientInv
    <3> HIDE DEF A
    <3>2. Len(A) \in Nat /\ i \in 1..Len(A) /\ i + 2 * Budget \in 1..Len(A)
      BY <2>1, <3>1 DEF A
    <3>3. Budget \in Nat /\ Window \in Nat \ {0}
      BY LimiterConstants
    <3>4. /\ i + Budget \in 1..Len(A)
          /\ i \in 1..(Len(A) - Budget) /\ i + Budget \in 1..(Len(A) - Budget)
          /\ (i + Budget) + Budget = i + 2 * Budget
      BY <3>2, <3>3
    <3>5. \A k \in 1..Len(A) : A[k].window \in Nat /\ A[k].at \in Nat
      BY <3>1, AdmissionTypes
    <3>6. /\ A[i].window + Window <= A[i + Budget].window
          /\ A[i + Budget].window + Window <= A[i + 2 * Budget].window
          /\ A[i].at < A[i].window + Window
          /\ A[i + 2 * Budget].window <= A[i + 2 * Budget].at
      BY <3>1, <3>2, <3>4 DEF Spaced
    <3>7. A[i + 2 * Budget].at - A[i].at >= Window
      <4> DEFINE x == A[i + 2 * Budget]
                 y == A[i + Budget]
      <4>1. /\ x.at \in Nat /\ x.window \in Nat /\ y.window \in Nat
            /\ A[i].window \in Nat /\ A[i].at \in Nat
        BY <3>2, <3>4, <3>5
      <4> HIDE DEF x, y
      <4>2. /\ A[i].window + Window <= y.window /\ y.window + Window <= x.window
            /\ A[i].at < A[i].window + Window /\ x.window <= x.at
        BY <3>6 DEF x, y
      <4>3. x.at - A[i].at >= Window
        BY <3>3, <4>1, <4>2
      <4> QED BY <4>3 DEF x
    <3> QED BY <3>7 DEF A
  <2>2. ClientsCapped
    BY DEF LimiterInv
  <2> QED BY <2>1, <2>2 DEF LimitsHold, AtMostTwoBudgets
<1> QED BY <1>1, LimiterInitInv, LimiterNextInv, PTL DEF LimiterSpec

-----------------------------------------------------------------------------
(* The start of a bundled executable.                                      *)
(*                                                                         *)
(* A staging directory is what its own start has unpacked so far, or the   *)
(* finished directory of its build is there already: only a start that has *)
(* published sweeps others, and rename() replaces nothing that is not      *)
(* empty.  So whatever is renamed is whole, and what is published stays.   *)

BundleDirs ==
  [kind : {"root", "staging", "private"}, build : Builds, by : Starts \cup {"all"}, n : Nat]
BundleSteps ==
  {"off", "failed", "mkdir", "unpack", "mark", "rename", "list", "remove", "open", "running"}

StartRecords ==
  [step : BundleSteps, build : Builds \cup {"none"}, cached : BOOLEAN,
   dir : BundleDirs \cup {"none"}, entry : Nat, victims : SUBSET BundleDirs, launches : Nat]

BundleTypeOK ==
  /\ DOMAIN disk \subseteq BundleDirs
  /\ starts \in [Starts -> StartRecords]

\* A build's archive, and what the entries before the k-th of it are.
Complete(b) == ToSet(ArchiveOf[b])
Unpacked(b, k) == {ArchiveOf[b][i] : i \in 1..(k - 1)}

\* What a start has put into its own directory.
Filled(me) ==
  IF me.step = "unpack" THEN Unpacked(me.build, me.entry)
  ELSE Complete(me.build) \cup (IF me.step = "rename" THEN {Marker} ELSE {})
Intact(me) == me.dir \in DOMAIN disk /\ disk[me.dir] = Filled(me)
Published(b) == Root(b) \in DOMAIN disk

StartInv(p) ==
  LET me == starts[p] IN
  /\ me.step = "mkdir" => me.build \in Builds
  /\ me.step \in {"unpack", "mark", "rename"} =>
       /\ me.build \in Builds /\ me.dir = FreshDir(p)
       /\ Intact(me) \/ (me.cached /\ Published(me.build))
  /\ me.step = "unpack" =>
       me.entry \in 1..Len(ArchiveOf[me.build]) /\ Outside \notin Unpacked(me.build, me.entry)
  /\ me.step \in {"mark", "rename"} => me.cached /\ Outside \notin Complete(me.build)
  /\ me.step \in {"list", "remove"} =>
       me.cached /\ me.build \in Builds /\ me.dir = Root(me.build) /\ Published(me.build)
  /\ me.step = "remove" => \A d \in me.victims : d.kind = "staging" /\ d.build = me.build
  /\ me.step \in {"open", "running"} =>
       /\ me.build \in Builds /\ Outside \notin Complete(me.build)
       /\ me.cached => me.dir = Root(me.build) /\ Published(me.build)
       /\ ~me.cached => me.dir = FreshDir(p) /\ Intact(me)

RootsAreWhole ==
  \A d \in DOMAIN disk : d.kind = "root" =>
    /\ d = Root(d.build) /\ Outside \notin Complete(d.build)
    /\ disk[d] = Complete(d.build) \cup {Marker}

BundleInv ==
  /\ BundleTypeOK
  /\ RootsAreWhole
  /\ \A p \in Starts : StartInv(p)

\* What a start relies on is safe from a step of another one that removes no published
\* directory, and touches a directory of another start only once its build is published.
LEMMA OthersKeep ==
  ASSUME NEW q \in Starts, StartInv(q), starts'[q] = starts[q],
         \A b \in Builds : Published(b) => Published(b)',
         FreshDir(q) \in DOMAIN disk =>
           \/ starts[q].cached /\ Root(starts[q].build) \in DOMAIN disk'
           \/ FreshDir(q) \in DOMAIN disk' /\ disk'[FreshDir(q)] = disk[FreshDir(q)]
  PROVE  StartInv(q)'
<1> DEFINE me == starts[q]
<1>1. FreshDir(q)' = FreshDir(q) /\ starts'[q] = me
  BY DEF FreshDir
<1>2. me.step \in {"unpack", "mark", "rename"} =>
        Intact(me)' \/ (me.cached /\ Published(me.build)')
  BY <1>1 DEF StartInv, Intact, Filled, Published
<1>3. me.step \in {"open", "running"} /\ ~me.cached => Intact(me)'
  BY <1>1 DEF StartInv, Intact, Filled
<1> QED BY <1>1, <1>2, <1>3 DEF StartInv, Intact, Filled

\* A step of one start, put together from its parts.
LEMMA StartStep ==
  ASSUME BundleInv, NEW p \in Starts, BundleTypeOK', RootsAreWhole', StartInv(p)',
         \A q \in Starts \ {p} : starts'[q] = starts[q],
         \A b \in Builds : Published(b) => Published(b)',
         \A q \in Starts \ {p} : FreshDir(q) \in DOMAIN disk =>
           \/ starts[q].cached /\ Root(starts[q].build) \in DOMAIN disk'
           \/ FreshDir(q) \in DOMAIN disk' /\ disk'[FreshDir(q)] = disk[FreshDir(q)]
  PROVE  BundleInv'
<1>1. ASSUME NEW q \in Starts, q # p PROVE StartInv(q)'
  BY <1>1, OthersKeep DEF BundleInv
<1> QED BY <1>1 DEF BundleInv

\* A step that leaves the disk alone.
LEMMA DiskUnchanged ==
  ASSUME BundleInv, NEW p \in Starts, UNCHANGED disk, BundleTypeOK', StartInv(p)',
         \A q \in Starts \ {p} : starts'[q] = starts[q]
  PROVE  BundleInv'
<1>1. RootsAreWhole' /\ \A b \in Builds : Published(b) => Published(b)'
  BY DEF BundleInv, RootsAreWhole, Published
<1> QED BY <1>1, StartStep

\* The updates a step makes to its record.
LEMMA StepTypes ==
  ASSUME NEW r \in StartRecords, NEW s \in BundleSteps
  PROVE  [r EXCEPT !.step = s] \in StartRecords
<1> QED BY DEF StartRecords

LEMMA DirTypes ==
  ASSUME NEW r \in StartRecords, NEW d \in BundleDirs
  PROVE  [r EXCEPT !.dir = d] \in StartRecords
<1> QED BY DEF StartRecords

LEMMA EntryTypes ==
  ASSUME NEW r \in StartRecords, NEW k \in Nat
  PROVE  [r EXCEPT !.entry = k] \in StartRecords
<1> QED BY DEF StartRecords

LEMMA VictimTypes ==
  ASSUME NEW r \in StartRecords, NEW V \in SUBSET BundleDirs
  PROVE  [r EXCEPT !.victims = V] \in StartRecords
<1> QED BY DEF StartRecords

LEMMA FreshDirType ==
  ASSUME BundleTypeOK, NEW p \in Starts, starts[p].build \in Builds
  PROVE  /\ FreshDir(p) \in BundleDirs
         /\ FreshDir(p).kind = (IF starts[p].cached THEN "staging" ELSE "private")
         /\ FreshDir(p).build = starts[p].build /\ FreshDir(p).by = p
<1>1. starts[p].launches \in Nat
  BY DEF BundleTypeOK, StartRecords
<1> QED BY <1>1 DEF FreshDir, BundleDirs

LEMMA RootType ==
  ASSUME NEW b \in Builds
  PROVE  Root(b) \in BundleDirs /\ Root(b).kind = "root" /\ Root(b).build = b
<1> QED BY DEF Root, BundleDirs

LEMMA UnpackedNext ==
  ASSUME NEW b \in Builds, NEW k \in 1..Len(ArchiveOf[b])
  PROVE  /\ Unpacked(b, k) \cup {ArchiveOf[b][k]} = Unpacked(b, k + 1)
         /\ Unpacked(b, Len(ArchiveOf[b]) + 1) = Complete(b)
         /\ Unpacked(b, 1) = {}
         /\ Len(ArchiveOf[b]) \in Nat
<1>1. ArchiveOf[b] \in Seq(STRING)
  BY ArchivesAreLists
<1> QED BY <1>1 DEF Unpacked, Complete, ToSet

LEMMA BundleInitInv == BundleInit => BundleInv
<1> QED BY DEF BundleInit, BundleInv, BundleTypeOK, RootsAreWhole, StartInv, NotRunning, BundleSteps, StartRecords

LEMMA LaunchInv ==
  ASSUME BundleInv, NEW p \in Starts, NEW b \in Builds, NEW cached \in BOOLEAN, Launch(p, b, cached)
  PROVE  BundleInv'
<1>1. /\ starts' = [starts EXCEPT ![p] =
            [NotRunning(starts[p].launches + 1) EXCEPT !.build = b, !.cached = cached, !.dir = Root(b),
               !.step = IF cached /\ Finished(b) THEN "open" ELSE "mkdir"]]
      /\ disk' = disk
  BY DEF Launch
<1>2. starts[p].launches + 1 \in Nat /\ BundleTypeOK
  BY DEF BundleInv, BundleTypeOK, StartRecords
<1> DEFINE me == starts'[p]
<1>3. /\ me = [step |-> IF cached /\ Finished(b) THEN "open" ELSE "mkdir", build |-> b, cached |-> cached,
               dir |-> Root(b), entry |-> 0, victims |-> {}, launches |-> starts[p].launches + 1]
  BY <1>1, <1>2 DEF NotRunning, BundleTypeOK
<1>4. BundleTypeOK'
  <2>1. me \in StartRecords
    BY <1>2, <1>3, RootType DEF StartRecords, BundleSteps
  <2> QED BY <1>1, <1>2, <2>1 DEF BundleTypeOK
<1>5. me.step = "open" => cached /\ Published(b)' /\ Outside \notin Complete(b)
  BY <1>1, <1>3, RootType DEF Finished, Published, BundleInv, RootsAreWhole
<1>6. StartInv(p)'
  BY <1>3, <1>5 DEF StartInv
<1>7. \A q \in Starts \ {p} : starts'[q] = starts[q]
  BY <1>1, <1>2 DEF BundleTypeOK
<1> QED BY <1>1, <1>4, <1>6, <1>7, DiskUnchanged

LEMMA MakeDirInv ==
  ASSUME BundleInv, NEW p \in Starts, MakeDir(p)
  PROVE  BundleInv'
<1> DEFINE d == FreshDir(p)
<1>1. /\ starts[p].build \in Builds /\ starts[p].step = "mkdir"
      /\ starts' = [starts EXCEPT ![p].step = "unpack", ![p].entry = 1, ![p].dir = d]
      /\ disk' = [x \in DOMAIN disk \cup {d} |-> IF x = d THEN {} ELSE disk[x]]
  BY DEF MakeDir, Mkdir, BundleInv, StartInv
<1>2. d \in BundleDirs /\ d.kind # "root" /\ d.by = p /\ BundleTypeOK
  BY <1>1, FreshDirType DEF BundleInv
<1>3. /\ starts'[p].step = "unpack" /\ starts'[p].entry = 1 /\ starts'[p].dir = d
      /\ starts'[p].build = starts[p].build
      /\ FreshDir(p)' = d
  BY <1>1, <1>2 DEF BundleTypeOK, StartRecords, FreshDir
<1> HIDE DEF d
<1>4. BundleTypeOK'
  <2>1. starts[p] \in StartRecords /\ starts'[p] = [starts[p] EXCEPT !.step = "unpack", !.entry = 1, !.dir = d]
    BY <1>1, <1>2 DEF BundleTypeOK
  <2>2. starts'[p] \in StartRecords
    <3>1. "unpack" \in BundleSteps /\ d \in BundleDirs
      BY <1>2 DEF BundleSteps
    <3>2. [starts[p] EXCEPT !.step = "unpack"] \in StartRecords
      BY <2>1, <3>1, StepTypes
    <3>3. [[starts[p] EXCEPT !.step = "unpack"] EXCEPT !.entry = 1] \in StartRecords
      BY <3>2, EntryTypes
    <3>4. [[[starts[p] EXCEPT !.step = "unpack"] EXCEPT !.entry = 1] EXCEPT !.dir = d] \in StartRecords
      BY <3>1, <3>3, DirTypes
    <3> QED BY <2>1, <3>4
  <2> QED BY <1>1, <1>2, <2>2 DEF BundleTypeOK
<1>5. RootsAreWhole'
  BY <1>1, <1>2 DEF BundleInv, RootsAreWhole
<1>6. StartInv(p)'
  <2>1. 1 \in 1..Len(ArchiveOf[starts[p].build]) /\ Unpacked(starts[p].build, 1) = {}
    BY <1>1, ArchivesAreLists DEF Unpacked
  <2>2. Filled(starts[p])' = {}
    BY <1>3, <2>1 DEF Filled
  <2>3. Intact(starts[p])'
    <3>1. d \in DOMAIN disk' /\ disk'[d] = {}
      BY <1>1
    <3> QED BY <1>3, <2>2, <3>1 DEF Intact, Filled
  <2> QED BY <1>1, <1>3, <2>1, <2>3 DEF StartInv
<1>7. \A q \in Starts \ {p} : starts'[q] = starts[q]
  BY <1>1, <1>2 DEF BundleTypeOK
<1>8. \A b \in Builds : Published(b) => Published(b)'
  BY <1>1 DEF Published
<1>9. ASSUME NEW q \in Starts \ {p}, FreshDir(q) \in DOMAIN disk
      PROVE  FreshDir(q) \in DOMAIN disk' /\ disk'[FreshDir(q)] = disk[FreshDir(q)]
  <2>1. FreshDir(q) # d
    BY <1>2 DEF FreshDir
  <2> QED BY <1>1, <1>9, <2>1
<1> QED BY <1>4, <1>5, <1>6, <1>7, <1>8, <1>9, StartStep

\* A step that only moves a start on.
LEMMA GoesOn ==
  ASSUME BundleTypeOK, NEW p \in Starts, NEW s \in BundleSteps, Goes(p, s),
         DOMAIN disk' \subseteq BundleDirs
  PROVE  /\ BundleTypeOK'
         /\ \A q \in Starts \ {p} : starts'[q] = starts[q]
         /\ starts'[p] = [starts[p] EXCEPT !.step = s]
         /\ starts'[p].step = s /\ starts'[p].build = starts[p].build
         /\ starts'[p].cached = starts[p].cached /\ starts'[p].dir = starts[p].dir
         /\ starts'[p].entry = starts[p].entry /\ starts'[p].victims = starts[p].victims
         /\ FreshDir(p)' = FreshDir(p)
<1>1. /\ starts[p] \in StartRecords /\ starts'[p] = [starts[p] EXCEPT !.step = s]
      /\ \A q \in Starts \ {p} : starts'[q] = starts[q]
  BY DEF Goes, BundleTypeOK
<1>2. starts'[p] \in StartRecords
  BY <1>1, StepTypes
<1>3. BundleTypeOK'
  BY <1>2 DEF Goes, BundleTypeOK
<1>4. /\ starts'[p].step = s /\ starts'[p].build = starts[p].build
      /\ starts'[p].cached = starts[p].cached /\ starts'[p].dir = starts[p].dir
      /\ starts'[p].entry = starts[p].entry /\ starts'[p].victims = starts[p].victims
      /\ starts'[p].launches = starts[p].launches
  BY <1>1 DEF StartRecords
<1>5. FreshDir(p)' = FreshDir(p)
  BY <1>4 DEF FreshDir
<1> QED BY <1>1, <1>3, <1>4, <1>5

LEMMA FailsInv ==
  ASSUME BundleInv, NEW p \in Starts, Fails(p)
  PROVE  BundleInv'
<1>1. "failed" \in BundleSteps /\ Goes(p, "failed") /\ disk' = disk
  BY DEF BundleSteps, Fails
<1>2. /\ BundleTypeOK' /\ starts'[p].step = "failed"
      /\ \A q \in Starts \ {p} : starts'[q] = starts[q]
  BY <1>1, GoesOn DEF BundleInv, BundleTypeOK
<1>3. StartInv(p)'
  BY <1>2 DEF StartInv
<1> QED BY <1>1, <1>2, <1>3, DiskUnchanged

\* A start writes into its own directory; nobody else's changes.
LEMMA OwnDirectory ==
  ASSUME BundleInv, NEW p \in Starts, starts[p].build \in Builds, NEW names,
         disk' = Holding(FreshDir(p), names)
  PROVE  /\ DOMAIN disk' \subseteq BundleDirs /\ RootsAreWhole'
         /\ disk'[FreshDir(p)] = names /\ FreshDir(p) \in DOMAIN disk'
         /\ \A b \in Builds : Published(b) => Published(b)'
         /\ \A q \in Starts \ {p} : FreshDir(q) \in DOMAIN disk =>
              FreshDir(q) \in DOMAIN disk' /\ disk'[FreshDir(q)] = disk[FreshDir(q)]
<1> DEFINE d == FreshDir(p)
<1>1. d \in BundleDirs /\ d.kind # "root" /\ d.by = p /\ BundleTypeOK
  BY FreshDirType DEF BundleInv
<1>2. \A q \in Starts \ {p} : FreshDir(q) # d
  BY <1>1 DEF FreshDir
<1>3. disk' = [x \in DOMAIN disk \cup {d} |-> IF x = d THEN names ELSE disk[x]]
  BY DEF Holding
<1> HIDE DEF d
<1>4. DOMAIN disk' \subseteq BundleDirs
  BY <1>1, <1>3 DEF BundleTypeOK
<1>5. RootsAreWhole'
  BY <1>1, <1>3 DEF BundleInv, RootsAreWhole
<1>6. \A b \in Builds : Published(b) => Published(b)'
  BY <1>3 DEF Published
<1>7. disk'[d] = names /\ d \in DOMAIN disk'
  BY <1>3
<1>8. \A q \in Starts \ {p} : FreshDir(q) \in DOMAIN disk =>
        FreshDir(q) \in DOMAIN disk' /\ disk'[FreshDir(q)] = disk[FreshDir(q)]
  BY <1>2, <1>3
<1> QED BY <1>4, <1>5, <1>6, <1>7, <1>8 DEF d

LEMMA UnpackInv ==
  ASSUME BundleInv, NEW p \in Starts, Unpack(p)
  PROVE  BundleInv'
<1> DEFINE me == starts[p]
           b == me.build
           k == me.entry
           e == ArchiveOf[b][k]
           last == k = Len(ArchiveOf[b])
           next == IF ~last THEN "unpack" ELSE IF me.cached THEN "mark" ELSE "open"
<1>1. me.step = "unpack" /\ StartInv(p) /\ BundleTypeOK /\ me \in StartRecords
  BY DEF Unpack, BundleInv, BundleTypeOK
<1>2. /\ b \in Builds /\ k \in 1..Len(ArchiveOf[b]) /\ me.dir = FreshDir(p)
      /\ Outside \notin Unpacked(b, k)
      /\ Intact(me) \/ (me.cached /\ Published(b))
  BY <1>1 DEF StartInv
<1>3. CASE Fails(p)
  BY <1>3, FailsInv
<1>4. CASE /\ e # Outside
           /\ disk' = Holding(me.dir, {e} \cup IF me.dir \in DOMAIN disk THEN disk[me.dir] ELSE {})
           /\ starts' = [starts EXCEPT ![p].entry = @ + 1, ![p].step = next]
  <2> DEFINE names == {e} \cup IF me.dir \in DOMAIN disk THEN disk[me.dir] ELSE {}
  <2>1. disk' = Holding(FreshDir(p), names)
    BY <1>2, <1>4
  <2> HIDE DEF names
  <2>2. /\ DOMAIN disk' \subseteq BundleDirs /\ RootsAreWhole'
        /\ disk'[FreshDir(p)] = names /\ FreshDir(p) \in DOMAIN disk'
        /\ \A c \in Builds : Published(c) => Published(c)'
        /\ \A q \in Starts \ {p} : FreshDir(q) \in DOMAIN disk =>
             FreshDir(q) \in DOMAIN disk' /\ disk'[FreshDir(q)] = disk[FreshDir(q)]
    BY <1>2, <2>1, OwnDirectory
  <2>3. k \in Nat /\ k + 1 \in Nat /\ next \in BundleSteps /\ next \in {"unpack", "mark", "open"}
    BY <1>1 DEF StartRecords, BundleSteps
  <2> HIDE DEF next
  <2>4. starts'[p] = [[me EXCEPT !.entry = k + 1] EXCEPT !.step = next]
    BY <1>1, <1>4 DEF BundleTypeOK
  <2>5. starts'[p] \in StartRecords
    <3>1. [me EXCEPT !.entry = k + 1] \in StartRecords
      BY <1>1, <2>3, EntryTypes
    <3> QED BY <2>3, <2>4, <3>1, StepTypes
  <2>6. \A q \in Starts \ {p} : starts'[q] = starts[q]
    BY <1>1, <1>4 DEF BundleTypeOK
  <2>7. BundleTypeOK'
    BY <1>1, <1>4, <2>2, <2>5 DEF BundleTypeOK
  <2>8. /\ starts'[p].step = next /\ starts'[p].entry = k + 1 /\ starts'[p].build = b
        /\ starts'[p].cached = me.cached /\ starts'[p].dir = me.dir
        /\ starts'[p].launches = me.launches
    BY <1>1, <2>4 DEF StartRecords
  <2>9. FreshDir(p)' = FreshDir(p)
    BY <2>8 DEF FreshDir
  <2>10. /\ Unpacked(b, k) \cup {e} = Unpacked(b, k + 1)
         /\ Unpacked(b, Len(ArchiveOf[b]) + 1) = Complete(b)
         /\ Len(ArchiveOf[b]) \in Nat
    BY <1>2, UnpackedNext
  <2>11. Outside \notin Unpacked(b, k + 1)
    BY <1>2, <1>4, <2>10
  <2>12. Intact(me) => names = Unpacked(b, k + 1)
    BY <1>1, <2>10 DEF names, Intact, Filled
  <2>13. /\ next = "unpack" => k + 1 \in 1..Len(ArchiveOf[b])
         /\ next # "unpack" => Unpacked(b, k + 1) = Complete(b)
         /\ next = "mark" => me.cached
         /\ next = "open" => ~me.cached
    BY <1>2, <2>10, <2>3 DEF next
  <2>14. Filled(starts[p])' = Unpacked(b, k + 1)
    BY <2>3, <2>8, <2>13 DEF Filled
  <2>15. Intact(me) => Intact(starts[p])'
    <3>1. starts'[p].dir = FreshDir(p)
      BY <1>2, <2>8
    <3>2. Intact(starts[p])' <=> /\ starts'[p].dir \in DOMAIN disk'
                                 /\ disk'[starts'[p].dir] = Filled(starts[p])'
      BY DEF Intact
    <3> QED BY <2>2, <2>12, <2>14, <3>1, <3>2
  <2>16. StartInv(p)'
    <3>1. Intact(starts[p])' \/ (me.cached /\ Published(b)')
      <4>1. Published(b) => Published(b)'
        BY <1>2, <2>2, <2>8 DEF Published
      <4> QED BY <1>2, <2>15, <4>1
    <3>2. CASE next = "unpack"
      BY <1>2, <2>8, <2>9, <2>11, <2>13, <3>1, <3>2 DEF StartInv
    <3>3. CASE next = "mark"
      BY <1>2, <2>8, <2>9, <2>11, <2>13, <3>1, <3>3 DEF StartInv
    <3>4. CASE next = "open"
      BY <1>2, <2>8, <2>9, <2>11, <2>13, <3>1, <3>4 DEF StartInv
    <3> QED BY <2>3, <3>2, <3>3, <3>4
  <2> QED BY <2>2, <2>6, <2>7, <2>16, StartStep
<1> QED BY <1>3, <1>4 DEF Unpack, Allowed

LEMMA MarkInv ==
  ASSUME BundleInv, NEW p \in Starts, Mark(p)
  PROVE  BundleInv'
<1> DEFINE me == starts[p]
           b == me.build
<1>1. /\ me.step = "mark" /\ b \in Builds /\ me.dir = FreshDir(p) /\ me.cached
      /\ Outside \notin Complete(b)
      /\ Intact(me) \/ Published(b)
      /\ BundleTypeOK
  BY DEF Mark, BundleInv, StartInv
<1>2. CASE Fails(p)
  BY <1>2, FailsInv
<1>3. CASE ~Fails(p)
  <2>1. /\ me.dir \in DOMAIN disk /\ Goes(p, "rename") /\ "rename" \in BundleSteps
        /\ disk' = Holding(FreshDir(p), disk[me.dir] \cup {Marker})
    BY <1>1, <1>3 DEF Mark, BundleSteps
  <2>2. /\ DOMAIN disk' \subseteq BundleDirs /\ RootsAreWhole'
        /\ disk'[FreshDir(p)] = disk[me.dir] \cup {Marker} /\ FreshDir(p) \in DOMAIN disk'
        /\ \A c \in Builds : Published(c) => Published(c)'
        /\ \A q \in Starts \ {p} : FreshDir(q) \in DOMAIN disk =>
             FreshDir(q) \in DOMAIN disk' /\ disk'[FreshDir(q)] = disk[FreshDir(q)]
    BY <1>1, <2>1, OwnDirectory
  <2>3. /\ BundleTypeOK' /\ FreshDir(p)' = FreshDir(p)
        /\ \A q \in Starts \ {p} : starts'[q] = starts[q]
        /\ starts'[p].step = "rename" /\ starts'[p].build = b
        /\ starts'[p].cached = me.cached /\ starts'[p].dir = me.dir
    BY <1>1, <2>1, <2>2, GoesOn
  <2>4. Intact(me) => Intact(starts[p])'
    <3>1. Filled(starts[p])' = Complete(b) \cup {Marker}
      BY <2>3 DEF Filled
    <3>2. Intact(starts[p])' <=> /\ starts'[p].dir \in DOMAIN disk'
                                 /\ disk'[starts'[p].dir] = Filled(starts[p])'
      BY DEF Intact
    <3>3. Intact(me) => disk[me.dir] = Complete(b)
      BY <1>1 DEF Intact, Filled
    <3> QED BY <1>1, <2>2, <2>3, <3>1, <3>2, <3>3
  <2>5. Published(b) => Published(starts[p].build)'
    <3>1. Published(b) => Root(b) \in DOMAIN disk'
      BY <1>1, <2>2 DEF Published
    <3> QED BY <2>3, <3>1 DEF Published
  <2>6. Intact(starts[p])' \/ (starts[p].cached /\ Published(starts[p].build))'
    BY <1>1, <2>3, <2>4, <2>5
  <2>7. StartInv(p)'
    BY <1>1, <2>3, <2>6 DEF StartInv
  <2> QED BY <2>2, <2>3, <2>7, StartStep
<1> QED BY <1>2, <1>3

\* What is renamed is whole: had it been swept, its build would be published, and
\* rename() refuses then.
LEMMA PublishInv ==
  ASSUME BundleInv, NEW p \in Starts, Publish(p)
  PROVE  BundleInv'
<1> DEFINE me == starts[p]
           b == me.build
           root == Root(b)
<1>1. /\ me.step = "rename" /\ b \in Builds /\ me.dir = FreshDir(p) /\ me.cached
      /\ Outside \notin Complete(b)
      /\ Intact(me) \/ Published(b)
      /\ BundleTypeOK /\ me \in StartRecords
  BY DEF Publish, BundleInv, StartInv, BundleTypeOK
<1>2. /\ root \in BundleDirs /\ root.kind = "root" /\ root.build = b
      /\ me.dir \in BundleDirs /\ me.dir.kind = "staging" /\ me.dir.build = b
  BY <1>1, RootType, FreshDirType
<1>3. CASE Fails(p)
  BY <1>3, FailsInv
<1>4. CASE /\ Renames(p)
           /\ disk' = [x \in (DOMAIN disk \cup {root}) \ {me.dir} |->
                         IF x = root THEN disk[me.dir] ELSE disk[x]]
           /\ starts' = [starts EXCEPT ![p].step = "list", ![p].dir = root]
  <2>1. root \notin DOMAIN disk /\ me.dir \in DOMAIN disk
    <3>1. root \in DOMAIN disk => Marker \in disk[root]
      BY <1>2 DEF BundleInv, RootsAreWhole
    <3> QED BY <1>4, <3>1 DEF Renames
  <2>2. disk[me.dir] = Complete(b) \cup {Marker}
    BY <1>1, <2>1 DEF Published, Intact, Filled
  <2> HIDE DEF root
  <2>3. /\ DOMAIN disk' = (DOMAIN disk \cup {root}) \ {me.dir}
        /\ root # me.dir /\ root \in DOMAIN disk' /\ disk'[root] = Complete(b) \cup {Marker}
        /\ \A x \in DOMAIN disk \ {me.dir} : x \in DOMAIN disk' /\ disk'[x] = disk[x]
    BY <1>2, <1>4, <2>1, <2>2
  <2>4. RootsAreWhole'
    <3>1. ASSUME NEW d \in DOMAIN disk', d.kind = "root"
          PROVE  /\ d = Root(d.build) /\ Outside \notin Complete(d.build)
                 /\ disk'[d] = Complete(d.build) \cup {Marker}
      <4>1. CASE d = root
        BY <1>1, <1>2, <2>3, <4>1 DEF root
      <4>2. CASE d # root
        BY <2>3, <3>1, <4>2 DEF BundleInv, RootsAreWhole
      <4> QED BY <4>1, <4>2
    <3> QED BY <3>1 DEF RootsAreWhole
  <2>5. \A c \in Builds : Published(c) => Published(c)'
    <3>1. \A c \in Builds : Root(c) # me.dir
      BY <1>2, RootType
    <3> QED BY <2>3, <3>1 DEF Published
  <2>6. starts'[p] = [[me EXCEPT !.step = "list"] EXCEPT !.dir = root]
    BY <1>1, <1>4 DEF BundleTypeOK
  <2>7. starts'[p] \in StartRecords
    <3>1. [me EXCEPT !.step = "list"] \in StartRecords
      BY <1>1, StepTypes DEF BundleSteps
    <3> QED BY <1>2, <2>6, <3>1, DirTypes
  <2>8. /\ BundleTypeOK'
        /\ \A q \in Starts \ {p} : starts'[q] = starts[q]
    BY <1>1, <1>2, <1>4, <2>3, <2>7 DEF BundleTypeOK
  <2>9. /\ starts'[p].step = "list" /\ starts'[p].build = b /\ starts'[p].cached = me.cached
        /\ starts'[p].dir = root
    BY <1>1, <2>6 DEF StartRecords
  <2>10. StartInv(p)'
    BY <1>1, <2>3, <2>9 DEF StartInv, Published, root
  <2>11. \A q \in Starts \ {p} : FreshDir(q) # me.dir
    BY <1>1, FreshDirType DEF FreshDir
  <2>12. \A q \in Starts \ {p} : FreshDir(q) \in DOMAIN disk =>
           FreshDir(q) \in DOMAIN disk' /\ disk'[FreshDir(q)] = disk[FreshDir(q)]
    BY <2>3, <2>11
  <2> QED BY <2>4, <2>5, <2>8, <2>10, <2>12, StartStep
<1>5. CASE /\ Finished(b)
           /\ starts' = [starts EXCEPT ![p].step = "remove", ![p].victims = {me.dir}, ![p].dir = root]
           /\ UNCHANGED disk
  <2>1. starts'[p] = [[[me EXCEPT !.step = "remove"] EXCEPT !.victims = {me.dir}] EXCEPT !.dir = root]
    BY <1>1, <1>5 DEF BundleTypeOK
  <2>2. starts'[p] \in StartRecords
    <3>1. [me EXCEPT !.step = "remove"] \in StartRecords
      BY <1>1, StepTypes DEF BundleSteps
    <3>2. [[me EXCEPT !.step = "remove"] EXCEPT !.victims = {me.dir}] \in StartRecords
      BY <1>2, <3>1, VictimTypes
    <3> QED BY <1>2, <2>1, <3>2, DirTypes
  <2>3. /\ BundleTypeOK'
        /\ \A q \in Starts \ {p} : starts'[q] = starts[q]
    BY <1>1, <1>5, <2>2 DEF BundleTypeOK
  <2>4. /\ starts'[p].step = "remove" /\ starts'[p].build = b /\ starts'[p].cached = me.cached
        /\ starts'[p].dir = root /\ starts'[p].victims = {me.dir}
    BY <1>1, <2>1 DEF StartRecords
  <2>5. StartInv(p)'
    BY <1>1, <1>2, <1>5, <2>4 DEF StartInv, Published, Finished
  <2> QED BY <1>5, <2>3, <2>5, DiskUnchanged
<1> QED BY <1>3, <1>4, <1>5 DEF Publish

LEMMA ListStaleInv ==
  ASSUME BundleInv, NEW p \in Starts, ListStale(p)
  PROVE  BundleInv'
<1> DEFINE me == starts[p]
           V == Swept(me.build)
<1>1. /\ me.step = "list" /\ me.build \in Builds /\ me.cached
      /\ me.dir = Root(me.build) /\ Published(me.build)
      /\ BundleTypeOK /\ me \in StartRecords /\ UNCHANGED disk
      /\ starts' = [starts EXCEPT ![p].step = "remove", ![p].victims = V]
  BY DEF ListStale, BundleInv, StartInv, BundleTypeOK
<1>2. V \in SUBSET BundleDirs /\ \A d \in V : d.kind = "staging" /\ d.build = me.build
  BY <1>1 DEF Swept, BundleTypeOK
<1> HIDE DEF V
<1>3. starts'[p] = [[me EXCEPT !.step = "remove"] EXCEPT !.victims = V]
  BY <1>1 DEF BundleTypeOK
<1>4. starts'[p] \in StartRecords
  <2>1. [me EXCEPT !.step = "remove"] \in StartRecords
    BY <1>1, StepTypes DEF BundleSteps
  <2> QED BY <1>2, <1>3, <2>1, VictimTypes
<1>5. /\ BundleTypeOK'
      /\ \A q \in Starts \ {p} : starts'[q] = starts[q]
  BY <1>1, <1>4 DEF BundleTypeOK
<1>6. /\ starts'[p].step = "remove" /\ starts'[p].build = me.build /\ starts'[p].cached = me.cached
      /\ starts'[p].dir = me.dir /\ starts'[p].victims = V
  <2> DEFINE middle == [me EXCEPT !.step = "remove"]
  <2>1. /\ middle \in StartRecords
        /\ middle.step = "remove" /\ middle.build = me.build /\ middle.cached = me.cached
        /\ middle.dir = me.dir
    <3>1. middle \in StartRecords
      BY <1>1, StepTypes DEF BundleSteps
    <3>2. me \in StartRecords
      BY <1>1
    <3> HIDE DEF me
    <3> QED BY <3>1, <3>2 DEF StartRecords
  <2>2. starts'[p] = [middle EXCEPT !.victims = V]
    BY <1>3
  <2> HIDE DEF middle
  <2> QED BY <2>1, <2>2 DEF StartRecords
<1>7. StartInv(p)'
  BY <1>1, <1>2, <1>6 DEF StartInv, Published
<1> QED BY <1>1, <1>5, <1>7, DiskUnchanged

\* Sweeping touches staging directories of a published build only.
LEMMA SweepKeeps ==
  ASSUME BundleInv, NEW p \in Starts, starts[p].step = "remove", NEW d \in starts[p].victims,
         \A x \in DOMAIN disk \ {d} : x \in DOMAIN disk' /\ disk'[x] = disk[x],
         DOMAIN disk' \subseteq DOMAIN disk
  PROVE  /\ DOMAIN disk' \subseteq BundleDirs /\ RootsAreWhole'
         /\ \A c \in Builds : Published(c) => Published(c)'
         /\ \A q \in Starts : FreshDir(q) \in DOMAIN disk =>
              \/ starts[q].cached /\ Root(starts[q].build) \in DOMAIN disk'
              \/ FreshDir(q) \in DOMAIN disk' /\ disk'[FreshDir(q)] = disk[FreshDir(q)]
<1>1. /\ d.kind = "staging" /\ d.build = starts[p].build /\ starts[p].build \in Builds
      /\ Published(starts[p].build) /\ BundleTypeOK
  BY DEF BundleInv, StartInv
<1>2. \A c \in Builds : Root(c) # d
  BY <1>1, RootType
<1>3. \A c \in Builds : Published(c) => Published(c)'
  BY <1>2 DEF Published
<1>4. RootsAreWhole'
  BY <1>1 DEF BundleInv, RootsAreWhole
<1>5. ASSUME NEW q \in Starts, FreshDir(q) \in DOMAIN disk, FreshDir(q) = d
      PROVE  starts[q].cached /\ starts[q].build = starts[p].build
  BY <1>1, <1>5 DEF FreshDir
<1>6. Root(starts[p].build) \in DOMAIN disk'
  BY <1>1, <1>2 DEF Published
<1> QED BY <1>1, <1>3, <1>4, <1>5, <1>6 DEF BundleTypeOK, Published

LEMMA RemoveFileInv ==
  ASSUME BundleInv, NEW p \in Starts, RemoveFile(p)
  PROVE  BundleInv'
<1>1. PICK d \in starts[p].victims \cap DOMAIN disk : \E name \in disk[d] : disk' = Holding(d, disk[d] \ {name})
  BY DEF RemoveFile
<1>2. /\ starts[p].step = "remove" /\ starts' = starts
      /\ \A x \in DOMAIN disk \ {d} : x \in DOMAIN disk' /\ disk'[x] = disk[x]
      /\ DOMAIN disk' \subseteq DOMAIN disk
  BY <1>1 DEF RemoveFile, Holding
<1>3. /\ DOMAIN disk' \subseteq BundleDirs /\ RootsAreWhole'
      /\ \A c \in Builds : Published(c) => Published(c)'
      /\ \A q \in Starts : FreshDir(q) \in DOMAIN disk =>
           \/ starts[q].cached /\ Root(starts[q].build) \in DOMAIN disk'
           \/ FreshDir(q) \in DOMAIN disk' /\ disk'[FreshDir(q)] = disk[FreshDir(q)]
  BY <1>1, <1>2, SweepKeeps
<1>4. ASSUME NEW q \in Starts PROVE StartInv(q)'
  BY <1>2, <1>3, OthersKeep DEF BundleInv
<1> QED BY <1>2, <1>3, <1>4 DEF BundleInv, BundleTypeOK

LEMMA RemoveDirInv ==
  ASSUME BundleInv, NEW p \in Starts, RemoveDir(p)
  PROVE  BundleInv'
<1> DEFINE me == starts[p]
<1>1. PICK d \in me.victims :
        /\ starts' = [starts EXCEPT ![p].victims = @ \ {d}]
        /\ IF d \in DOMAIN disk /\ disk[d] = {} THEN disk' = Rmdir(d) ELSE UNCHANGED disk
  BY DEF RemoveDir
<1>2. /\ me.step = "remove" /\ StartInv(p) /\ BundleTypeOK /\ me \in StartRecords
      /\ \A x \in DOMAIN disk \ {d} : x \in DOMAIN disk' /\ disk'[x] = disk[x]
      /\ DOMAIN disk' \subseteq DOMAIN disk
  BY <1>1 DEF RemoveDir, Rmdir, BundleInv, BundleTypeOK
<1>3. /\ DOMAIN disk' \subseteq BundleDirs /\ RootsAreWhole'
      /\ \A c \in Builds : Published(c) => Published(c)'
      /\ \A q \in Starts : FreshDir(q) \in DOMAIN disk =>
           \/ starts[q].cached /\ Root(starts[q].build) \in DOMAIN disk'
           \/ FreshDir(q) \in DOMAIN disk' /\ disk'[FreshDir(q)] = disk[FreshDir(q)]
  BY <1>1, <1>2, SweepKeeps
<1> DEFINE V == me.victims \ {d}
<1>4. starts'[p] = [me EXCEPT !.victims = V] /\ V \in SUBSET BundleDirs
  BY <1>1, <1>2 DEF BundleTypeOK, StartRecords
<1>5. starts'[p] \in StartRecords
  BY <1>2, <1>4, VictimTypes
<1>6. /\ BundleTypeOK'
      /\ \A q \in Starts \ {p} : starts'[q] = starts[q]
  BY <1>1, <1>2, <1>3, <1>5 DEF BundleTypeOK
<1>7. /\ starts'[p].step = "remove" /\ starts'[p].build = me.build /\ starts'[p].cached = me.cached
      /\ starts'[p].dir = me.dir /\ starts'[p].victims = V
  BY <1>2, <1>4 DEF StartRecords
<1>8. StartInv(p)'
  BY <1>2, <1>3, <1>7 DEF StartInv, Published
<1> QED BY <1>3, <1>6, <1>8, StartStep

LEMMA RemovedInv ==
  ASSUME BundleInv, NEW p \in Starts, Removed(p)
  PROVE  BundleInv'
<1>1. /\ "open" \in BundleSteps /\ Goes(p, "open") /\ disk' = disk
      /\ starts[p].step = "remove" /\ StartInv(p) /\ BundleTypeOK
  BY DEF BundleSteps, Removed, BundleInv
<1>2. /\ BundleTypeOK' /\ starts'[p].step = "open"
      /\ \A q \in Starts \ {p} : starts'[q] = starts[q]
      /\ starts'[p].build = starts[p].build
      /\ starts'[p].cached = starts[p].cached /\ starts'[p].dir = starts[p].dir
  BY <1>1, GoesOn DEF BundleTypeOK
<1>3. Outside \notin Complete(starts[p].build)
  BY <1>1, RootType DEF StartInv, BundleInv, RootsAreWhole, Published
<1>4. StartInv(p)'
  BY <1>1, <1>2, <1>3 DEF StartInv, Published
<1> QED BY <1>1, <1>2, <1>4, DiskUnchanged

LEMMA OpenInv ==
  ASSUME BundleInv, NEW p \in Starts, Open(p)
  PROVE  BundleInv'
<1>1. CASE Fails(p)
  BY <1>1, FailsInv
<1>2. CASE ~Fails(p)
  <2>1. /\ "running" \in BundleSteps /\ Goes(p, "running") /\ disk' = disk
        /\ starts[p].step = "open" /\ StartInv(p) /\ BundleTypeOK
    BY <1>2 DEF BundleSteps, Open, BundleInv
  <2>2. /\ BundleTypeOK' /\ starts'[p].step = "running" /\ FreshDir(p)' = FreshDir(p)
        /\ \A q \in Starts \ {p} : starts'[q] = starts[q]
        /\ starts'[p].build = starts[p].build
        /\ starts'[p].cached = starts[p].cached /\ starts'[p].dir = starts[p].dir
    BY <2>1, GoesOn DEF BundleTypeOK
  <2>3. Intact(starts[p]) => Intact(starts[p])'
    BY <2>1, <2>2 DEF Intact, Filled
  <2>4. StartInv(p)'
    BY <2>1, <2>2, <2>3 DEF StartInv, Published
  <2> QED BY <2>1, <2>2, <2>4, DiskUnchanged
<1> QED BY <1>1, <1>2

LEMMA CrashInv ==
  ASSUME BundleInv, NEW p \in Starts, Crash(p)
  PROVE  BundleInv'
<1>1. /\ starts' = [starts EXCEPT ![p] = NotRunning(starts[p].launches)] /\ disk' = disk
      /\ BundleTypeOK /\ starts[p].launches \in Nat
  BY DEF Crash, BundleInv, BundleTypeOK, StartRecords
<1>2. NotRunning(starts[p].launches) \in StartRecords /\ NotRunning(starts[p].launches).step = "off"
  BY <1>1 DEF NotRunning, StartRecords, BundleSteps
<1>3. /\ BundleTypeOK' /\ starts'[p].step = "off"
      /\ \A q \in Starts \ {p} : starts'[q] = starts[q]
  BY <1>1, <1>2 DEF BundleTypeOK
<1>4. StartInv(p)'
  BY <1>3 DEF StartInv
<1> QED BY <1>1, <1>3, <1>4, DiskUnchanged

LEMMA BundleNextInv == BundleInv /\ [BundleNext]_bundleVars => BundleInv'
<1> SUFFICES ASSUME BundleInv, [BundleNext]_bundleVars PROVE BundleInv'
  OBVIOUS
<1>1. CASE UNCHANGED bundleVars
  BY <1>1 DEF bundleVars, BundleInv, BundleTypeOK, RootsAreWhole, StartInv, Intact, Filled,
              Published, FreshDir
<1>2. CASE BundleNext
  BY <1>2, LaunchInv, MakeDirInv, UnpackInv, MarkInv, PublishInv, ListStaleInv, RemoveFileInv,
     RemoveDirInv, RemovedInv, OpenInv, CrashInv DEF BundleNext
<1> QED BY <1>1, <1>2

\* A bundle's state keeps its types, for any builds, archives and processes.
THEOREM BundleTypeCorrect == BundleSpec => []BundleTypeOK
<1>1. BundleInv => BundleTypeOK
  BY DEF BundleInv
<1> QED BY <1>1, BundleInitInv, BundleNextInv, PTL DEF BundleSpec

\* For any number of processes, builds, archives and starts, with a crash at any step:
\* a finished directory holds its whole archive, a server that runs from a directory has
\* all of its application there for as long as it runs, and an archive with an entry
\* that is refused never runs (load, extract, sweep_stale_staging in bundle.rs).
THEOREM BundlesStayWhole == BundleSpec => []BundlesAreWhole
<1>1. BundleInv => BundlesAreWhole
  <2> SUFFICES ASSUME BundleInv PROVE BundlesAreWhole
    OBVIOUS
  <2>1. ASSUME NEW d \in DOMAIN disk, d.kind = "root"
        PROVE  disk[d] = ToSet(ArchiveOf[d.build]) \cup {Marker}
    BY <2>1 DEF BundleInv, RootsAreWhole, Complete
  <2>2. ASSUME NEW p \in Starts, starts[p].step = "running"
        PROVE  /\ starts[p].dir \in DOMAIN disk
               /\ ToSet(ArchiveOf[starts[p].build]) \subseteq disk[starts[p].dir]
               /\ Outside \notin disk[starts[p].dir]
    <3> DEFINE me == starts[p]
    <3>1. /\ me.build \in Builds /\ Outside \notin Complete(me.build)
          /\ me.cached => me.dir = Root(me.build) /\ Published(me.build)
          /\ ~me.cached => me.dir = FreshDir(p) /\ Intact(me)
      BY <2>2 DEF BundleInv, StartInv
    <3>2. CASE me.cached
      <4>1. me.dir \in DOMAIN disk /\ disk[me.dir] = Complete(me.build) \cup {Marker}
        BY <3>1, <3>2, RootType DEF BundleInv, RootsAreWhole, Published
      <4> QED BY <3>1, <4>1 DEF Complete, Outside, Marker
    <3>3. CASE ~me.cached
      <4>1. me.dir \in DOMAIN disk /\ disk[me.dir] = Complete(me.build)
        BY <2>2, <3>1, <3>3 DEF Intact, Filled
      <4> QED BY <3>1, <4>1 DEF Complete
    <3> QED BY <3>2, <3>3
  <2> QED BY <2>1, <2>2 DEF BundlesAreWhole
<1> QED BY <1>1, BundleInitInv, BundleNextInv, PTL DEF BundleSpec

-----------------------------------------------------------------------------
(* The session that reruns on saves.                                       *)
(*                                                                         *)
(* What was heard is covered, or still on its way: as a run asked for, a   *)
(* burst or an event.  And what is on its way is paid for by saves: an     *)
(* event is raised by a save of an input and by nothing a run writes.      *)

WatchTypeOK ==
  /\ setup \in Setups /\ thread \in {"registering", "idle", "burst", "ended"}
  /\ events \in Nat /\ wanted \in {0, 1} /\ covered \in Nat /\ heard \in Nat /\ runs \in Nat
  /\ saves.inputs \in Nat /\ heard <= saves.inputs

\* What the thread was told and the session was not.
OnItsWay == wanted = 1 \/ events > 0 \/ thread = "burst"

\* The runs had, and the ones that what is on its way can cause.
RunsInSight == runs + wanted + events + (IF thread = "burst" THEN 1 ELSE 0)

WatchInv ==
  /\ WatchTypeOK
  /\ session \in {"running", "waiting"} => ~Refused(setup)
  /\ thread # "ended" => covered >= heard \/ OnItsWay
  /\ ReportInNewFolder \/ DatabaseIsInput \/ RunsInSight <= 1 + saves.inputs

Dirs(s) == {s.handler, s.config, s.templates, s.tests} \ {NoPath}

LEMMA PrefixByName ==
  ASSUME NEW d \in Paths, NEW p \in Paths
  PROVE  IsPrefix(d, p) <=> Len(d) <= Len(p) /\ \A i \in 1..Len(d) : d[i] = p[i]
<1>1. ASSUME IsPrefix(d, p), NEW i \in 1..Len(d) PROVE d[i] = p[i]
  <2>1. SubSeq(d, 1, Len(d))[i] = d[i]
    BY <1>1 DEF Paths
  <2>2. SubSeq(p, 1, Len(d))[i] = p[i]
    BY <1>1 DEF Paths, IsPrefix
  <2> QED BY <1>1, <2>1, <2>2 DEF IsPrefix
<1>2. ASSUME Len(d) <= Len(p), \A i \in 1..Len(d) : d[i] = p[i] PROVE IsPrefix(d, p)
  <2> DEFINE a == SubSeq(d, 1, Len(d))
             b == SubSeq(p, 1, Len(d))
  <2>1. a \in Seq(STRING) /\ b \in Seq(STRING) /\ Len(a) = Len(d) /\ Len(b) = Len(d)
    BY <1>2 DEF Paths
  <2>2. \A i \in 1..Len(d) : a[i] = b[i]
    BY <1>2 DEF Paths
  <2>3. a = b
    BY <2>1, <2>2, SeqEqual
  <2> QED BY <1>2, <2>3 DEF IsPrefix
<1> QED BY <1>1, <1>2 DEF IsPrefix

LEMMA PrefixTransitive ==
  ASSUME NEW a \in Paths, NEW b \in Paths, NEW c \in Paths, IsPrefix(a, b), IsPrefix(b, c)
  PROVE  IsPrefix(a, c)
<1>1. Len(a) \in Nat /\ Len(b) \in Nat /\ Len(c) \in Nat
  BY DEF Paths
<1>2. Len(a) <= Len(b) /\ \A i \in 1..Len(a) : a[i] = b[i]
  BY PrefixByName
<1>3. Len(b) <= Len(c) /\ \A i \in 1..Len(b) : b[i] = c[i]
  BY PrefixByName
<1>4. \A i \in 1..Len(a) : a[i] = c[i]
  BY <1>1, <1>2, <1>3
<1> QED BY <1>1, <1>2, <1>3, <1>4, PrefixByName

\* What is under another directory is in a directory under it.
LEMMA PrefixOfFront ==
  ASSUME NEW d \in Paths, NEW p \in Paths \ {NoPath}, IsPrefix(d, p), d # p
  PROVE  Front(p) \in Paths /\ IsPrefix(d, Front(p))
<1>1. Len(d) \in Nat /\ Len(p) \in Nat /\ Len(p) > 0
  BY DEF Paths, NoPath
<1>2. Front(p) \in Paths /\ Len(Front(p)) = Len(p) - 1 /\ \A i \in 1..(Len(p) - 1) : Front(p)[i] = p[i]
  <2>1. Len(p) - 1 \in Nat /\ Len(p) - 1 <= Len(p)
    BY <1>1
  <2>2. Front(p) \in Seq(STRING)
    BY <2>1 DEF Front, Paths
  <2>3. Len(Front(p)) = Len(p) - 1
    <3>1. ASSUME NEW n \in Nat, n <= Len(p) PROVE Len(SubSeq(p, 1, n)) = n
      BY <3>1 DEF Paths
    <3> QED BY <2>1, <3>1 DEF Front
  <2>4. ASSUME NEW i \in 1..(Len(p) - 1) PROVE Front(p)[i] = p[i]
    BY <2>1, <2>4 DEF Front, Paths
  <2> QED BY <2>2, <2>3, <2>4 DEF Paths
<1>3. Len(d) <= Len(p) /\ \A i \in 1..Len(d) : d[i] = p[i]
  BY PrefixByName
<1>4. Len(d) # Len(p)
  <2> SUFFICES ASSUME Len(d) = Len(p) PROVE FALSE
    OBVIOUS
  <2> QED BY <1>3, SeqEqual DEF Paths
<1>5. Len(d) <= Len(Front(p)) /\ \A i \in 1..Len(d) : d[i] = Front(p)[i]
  BY <1>1, <1>2, <1>3, <1>4
<1> QED BY <1>2, <1>5, PrefixByName

\* A directory that one that exists is under exists.
LEMMA PrefixExists ==
  ASSUME NEW d \in Paths \ {NoPath}, NEW e \in Existing, IsPrefix(d, e)
  PROVE  d \in Existing
<1>1. e \in Paths /\ Len(d) \in Nat /\ Len(d) > 0
  BY ExistingIsATree DEF Paths, NoPath
<1>2. Len(d) \in 1..Len(e) /\ SubSeq(d, 1, Len(d)) = SubSeq(e, 1, Len(d))
  BY <1>1 DEF IsPrefix, Paths
<1>3. SubSeq(d, 1, Len(d)) = d
  BY <1>1, SubSeqFull DEF Paths
<1> QED BY <1>1, <1>2, <1>3, ExistingIsATree

\* What watch_roots() has so far: directories of the setup that exist.
RootsInv(roots, dirs) ==
  /\ roots \in Seq(Paths)
  /\ ToSet(roots) \subseteq dirs \cap Existing
  /\ \A d \in dirs \cap Existing : \E r \in ToSet(roots) : IsUnder(d, r)

LEMMA PrefixReflexive == ASSUME NEW d \in Paths PROVE IsPrefix(d, d)
<1> QED BY PrefixByName DEF Paths

LEMMA PushedInv ==
  ASSUME NEW roots, NEW dirs, RootsInv(roots, dirs), NEW dir \in Paths
  PROVE  RootsInv(Pushed(roots, dir), dirs \cup {dir})
<1>1. roots \in Seq(Paths) /\ DOMAIN roots = 1..Len(roots) /\ Len(roots) \in Nat
  BY DEF RootsInv
<1>2. ToSet(roots) = {roots[i] : i \in DOMAIN roots}
  BY DEF ToSet
<1>3. CASE dir \in Existing /\ \A i \in DOMAIN roots : ~IsUnder(dir, roots[i])
  <2> DEFINE more == Append(roots, dir)
  <2>1. Pushed(roots, dir) = more
    BY <1>3 DEF Pushed
  <2>2. more \in Seq(Paths) /\ Len(more) = Len(roots) + 1 /\ DOMAIN more = 1..(Len(roots) + 1)
    BY <1>1
  <2>3. more[Len(roots) + 1] = dir /\ \A i \in 1..Len(roots) : more[i] = roots[i]
    BY <1>1
  <2>4. ToSet(more) = ToSet(roots) \cup {dir}
    <3>1. ToSet(more) = {more[i] : i \in 1..(Len(roots) + 1)}
      BY <2>2 DEF ToSet
    <3> HIDE DEF more
    <3> QED BY <1>1, <1>2, <2>3, <3>1
  <2>5. IsUnder(dir, dir)
    BY PrefixReflexive DEF IsUnder
  <2> QED BY <1>3, <2>1, <2>2, <2>4, <2>5 DEF RootsInv
<1>4. CASE dir \notin Existing
  BY <1>4 DEF RootsInv, Pushed
<1>5. CASE \E i \in DOMAIN roots : IsUnder(dir, roots[i])
  BY <1>2, <1>5 DEF RootsInv, Pushed
<1> QED BY <1>3, <1>4, <1>5

\* The roots are directories of the setup, and what it has of directories is under them.
LEMMA RootsCover ==
  ASSUME NEW s \in Setups
  PROVE  /\ ToSet(WatchRoots(s)) \subseteq Dirs(s) \cap Existing
         /\ \A d \in Dirs(s) \cap Existing : \E r \in ToSet(WatchRoots(s)) : IsUnder(d, r)
<1> DEFINE r1 == Pushed(<<>>, s.handler)
           r2 == Pushed(r1, s.config)
           r3 == Pushed(r2, s.templates)
           r4 == Pushed(r3, s.tests)
<1>1. s.handler \in Paths /\ s.config \in Paths /\ s.templates \in Paths /\ s.tests \in Paths
  BY SetupsAreRecords
<1>2. RootsInv(<<>>, {})
  BY DEF RootsInv, ToSet
<1>3. RootsInv(r1, {} \cup {s.handler})
  BY <1>1, <1>2, PushedInv
<1>4. RootsInv(r2, {} \cup {s.handler} \cup {s.config})
  <2> HIDE DEF r1
  <2> QED BY <1>1, <1>3, PushedInv
<1>5. RootsInv(r3, {} \cup {s.handler} \cup {s.config} \cup {s.templates})
  <2> HIDE DEF r2
  <2> QED BY <1>1, <1>4, PushedInv
<1>6. RootsInv(r4, {} \cup {s.handler} \cup {s.config} \cup {s.templates} \cup {s.tests})
  <2> HIDE DEF r3
  <2> QED BY <1>1, <1>5, PushedInv
<1>7. WatchRoots(s) = r4
  BY DEF WatchRoots
<1>8. ({} \cup {s.handler} \cup {s.config} \cup {s.templates} \cup {s.tests}) \cap Existing = Dirs(s) \cap Existing
  BY ExistingIsATree DEF Dirs
<1> HIDE DEF r4
<1> QED BY <1>6, <1>7, <1>8 DEF RootsInv

LEMMA DirsArePaths == ASSUME NEW s \in Setups PROVE Dirs(s) \subseteq Paths \ {NoPath}
<1> QED BY SetupsAreRecords DEF Dirs

\* An event is raised for an input only ...
LEMMA ToldIsRead ==
  ASSUME NEW s \in Setups, NEW p, Told(s, p)
  PROVE  Reads(s, p)
<1>1. PICK r \in ToSet(WatchRoots(s)) : IsUnder(p, r)
  BY DEF Told
<1>2. r \in Dirs(s)
  BY RootsCover
<1> QED BY <1>1, <1>2 DEF Told, Reads, Relevant, Dirs

\* ... and for every one that is saved, once the roots are registered.
LEMMA ReadIsTold ==
  ASSUME NEW s \in Setups, NEW p \in Savable, Front(p) \in Existing, Reads(s, p),
         thread \in {"idle", "burst"}
  PROVE  Told(s, p)
<1>1. PICK d \in Dirs(s) : IsUnder(p, d)
  BY DEF Reads, Dirs
<1>2. d \in Paths \ {NoPath} /\ p \in Paths \ {NoPath} /\ d # p
  BY DirsArePaths, FilesAreNoDirectories DEF Dirs
<1>3. IsPrefix(d, Front(p))
  BY <1>1, <1>2, PrefixOfFront DEF IsUnder
<1>4. d \in Existing
  BY <1>2, <1>3, PrefixExists
<1>5. PICK r \in ToSet(WatchRoots(s)) : IsUnder(d, r)
  BY <1>4, RootsCover
<1>6. r \in Paths
  BY RootsCover, DirsArePaths
<1>7. IsUnder(p, r)
  BY <1>1, <1>2, <1>5, <1>6, PrefixTransitive DEF IsUnder
<1> QED BY <1>7 DEF Told, Reads, Relevant

\* Nothing a run writes is an input of it, but for the two exceptions.
LEMMA RunsWriteNoInput ==
  ASSUME setup \in Setups, ~Refused(setup), ~ReportInNewFolder, ~DatabaseIsInput,
         NEW p \in {setup.database, setup.output} \ {NoPath}
  PROVE  ~Told(setup, p)
<1> SUFFICES ASSUME Told(setup, p) PROVE FALSE
  OBVIOUS
<1>1. IsLua(p) \/ InTemplates(setup, p)
  BY DEF Told, Relevant
<1>2. p # setup.database
  BY <1>1 DEF DatabaseIsInput
<1>3. p = setup.output /\ p # NoPath /\ p \in Paths /\ setup.templates \in Paths
  BY <1>2, SetupsAreRecords
<1>4. ~IsLua(p) /\ InTemplates(setup, p)
  BY <1>1, <1>3 DEF Refused
<1>5. Front(p) \in Existing
  BY <1>3, <1>4 DEF ReportInNewFolder
<1>6. setup.templates # NoPath /\ IsUnder(p, setup.templates) /\ p # setup.templates
  BY <1>3, <1>4, FilesAreNoDirectories DEF InTemplates
<1>7. IsUnder(Front(p), setup.templates)
  BY <1>3, <1>6, PrefixOfFront DEF IsUnder
<1>8. setup.templates \in Existing
  BY <1>3, <1>5, <1>6, <1>7, PrefixExists DEF IsUnder
<1> QED BY <1>3, <1>5, <1>7, <1>8 DEF Refused

LEMMA WatchInitInv == WatchInit => WatchInv
<1> SUFFICES ASSUME WatchInit PROVE WatchInv
  OBVIOUS
<1>1. WatchTypeOK
  BY DEF WatchInit, WatchTypeOK
<1>2. session \in {"running", "waiting"} => ~Refused(setup)
  BY DEF WatchInit
<1>3. RunsInSight = 1 /\ covered >= heard
  BY DEF WatchInit, RunsInSight
<1> QED BY <1>1, <1>2, <1>3 DEF WatchInv, WatchInit

LEMMA WatchNextInv == WatchInv /\ [WatchNext]_watchVars => WatchInv'
<1> SUFFICES ASSUME WatchInv, [WatchNext]_watchVars PROVE WatchInv'
  OBVIOUS
<1> USE DEF WatchInv
<1> DEFINE Excused == ReportInNewFolder \/ DatabaseIsInput
<1>0. WatchTypeOK
  OBVIOUS
<1>1. setup' = setup
  BY DEF WatchNext, Save, Registered, Receive, Quiet, StopPoll, RunEnds, RunAgain, SessionEnds, watchVars
<1>2. Refused(setup)' = Refused(setup) /\ Excused' = Excused
  BY <1>1 DEF Refused, ReportInNewFolder, DatabaseIsInput, InTemplates, IsUnder, IsLua
<1>3. ASSUME session' \in {"running", "waiting"} PROVE ~Refused(setup)'
  <2>1. session \in {"running", "waiting"}
    BY <1>3 DEF WatchNext, Save, Registered, Receive, Quiet, StopPoll, RunEnds, RunAgain, SessionEnds, watchVars
  <2> QED BY <1>2, <2>1
<1> HIDE DEF Excused
<1> DEFINE Kept ==
      /\ WatchTypeOK'
      /\ thread' # "ended" => (covered >= heard \/ OnItsWay)'
      /\ Excused' \/ (RunsInSight <= 1 + saves.inputs)'
<1>4. SUFFICES Kept
  BY <1>3 DEF Excused
<1>5. Excused \/ RunsInSight <= 1 + saves.inputs
  BY DEF Excused
<1>6. thread # "ended" => covered >= heard \/ OnItsWay
  OBVIOUS
<1> USE DEF WatchTypeOK, OnItsWay, RunsInSight
<1>7. ASSUME NEW p \in Savable, Save(p) PROVE Kept
  <2> DEFINE read == Reads(setup, p)
             listens == thread \in {"idle", "burst"}
  <2>1. Told(setup, p) => read /\ listens
    BY <1>0, ToldIsRead DEF Told
  <2>2. read /\ listens => Told(setup, p)
    BY <1>0, <1>7, ReadIsTold DEF Save
  <2>3. /\ UNCHANGED <<thread, wanted, covered, runs>>
        /\ events' = IF read /\ listens THEN events + 1 ELSE events
        /\ saves'.inputs = saves.inputs + (IF read THEN 1 ELSE 0)
        /\ heard' = IF read /\ listens THEN saves.inputs + 1 ELSE heard
    BY <1>0, <1>7, <2>1, <2>2 DEF Save
  <2> HIDE DEF read, listens
  <2>4. WatchTypeOK'
    BY <1>0, <1>1, <2>3
  <2>5. thread' # "ended" => (covered >= heard \/ OnItsWay)'
    BY <1>0, <1>6, <2>3
  <2>6. Excused' \/ (RunsInSight <= 1 + saves.inputs)'
    BY <1>0, <1>2, <1>5, <2>3
  <2> QED BY <2>4, <2>5, <2>6
<1>8. CASE \E n \in {"idle", "ended"} : Registered(n)
  BY <1>0, <1>1, <1>2, <1>5, <1>6, <1>8 DEF Registered
<1>9. CASE Receive
  BY <1>0, <1>1, <1>2, <1>5, <1>6, <1>9 DEF Receive
<1>10. CASE Quiet
  BY <1>0, <1>1, <1>2, <1>5, <1>6, <1>10 DEF Quiet, TrySend
<1>11. CASE StopPoll
  BY <1>0, <1>1, <1>2, <1>5, <1>6, <1>11 DEF StopPoll
<1>12. CASE RunEnds
  <2> DEFINE written == {p \in {setup.database, setup.output} \ {NoPath} : Told(setup, p)}
  <2>1. Cardinality(written) \in Nat
    <3>1. IsFiniteSet({setup.database, setup.output})
      <4>1. {setup.database, setup.output} = {setup.database} \cup {setup.output}
        OBVIOUS
      <4>2. IsFiniteSet({setup.database})
        BY FS_Singleton
      <4>3. IsFiniteSet({setup.database} \cup {setup.output})
        BY <4>2, FS_AddElement
      <4> QED BY <4>1, <4>3, Zenon
    <3>2. written \subseteq {setup.database, setup.output}
      OBVIOUS
    <3> HIDE DEF written
    <3> QED BY <3>1, <3>2, FS_Subset, FS_CardinalityType
  <2>2. ~Excused => Cardinality(written) = 0
    <3> SUFFICES ASSUME ~Excused PROVE written = {}
      BY FS_EmptySet
    <3> QED BY <1>0, <1>12, RunsWriteNoInput DEF RunEnds, Excused
  <2>3. events' = events + Cardinality(written) /\ UNCHANGED <<thread, wanted, saves, covered, heard, runs>>
    BY <1>12 DEF RunEnds
  <2> HIDE DEF written
  <2> QED BY <1>0, <1>1, <1>2, <1>5, <1>6, <2>1, <2>2, <2>3
<1>13. CASE RunAgain
  BY <1>0, <1>1, <1>2, <1>5, <1>6, <1>13 DEF RunAgain
<1>14. CASE SessionEnds
  BY <1>0, <1>1, <1>2, <1>5, <1>6, <1>14 DEF SessionEnds
<1>15. CASE UNCHANGED watchVars
  BY <1>0, <1>1, <1>2, <1>5, <1>6, <1>15 DEF watchVars
<1> QED BY <1>7, <1>8, <1>9, <1>10, <1>11, <1>12, <1>13, <1>14, <1>15 DEF WatchNext

\* A save the watcher was told of is followed by a run that began after it, for any
\* setup, tree of directories and order of saves, bursts and runs; and a run causes
\* another only through the two files nothing refuses (spawn in watch.rs, watch_loop and
\* refuse_watched_output in cmd/test/mod.rs).
THEOREM SavesAreFollowed == WatchSpec => []SavesAreRun
<1>1. WatchInv => SavesAreRun
  <2> SUFFICES ASSUME WatchInv PROVE SavesAreRun
    OBVIOUS
  <2>1. (session = "waiting" /\ thread = "idle" /\ events = 0 /\ wanted = 0) => covered >= heard
    BY DEF WatchInv, WatchTypeOK, OnItsWay
  <2>2. ReportInNewFolder \/ DatabaseIsInput \/ runs <= 1 + saves.inputs
    BY DEF WatchInv, WatchTypeOK, RunsInSight
  <2> QED BY <2>1, <2>2 DEF SavesAreRun
<1> QED BY <1>1, WatchInitInv, WatchNextInv, PTL DEF WatchSpec

-----------------------------------------------------------------------------
(* Induction over the naturals, for sets.                                  *)

\* Every set of naturals that is not empty has a least element.
LEMMA LeastNatural ==
  ASSUME NEW T \in SUBSET Nat, T # {}
  PROVE  \E n \in T : \A m \in T : n <= m
<1> DEFINE R == {p \in Nat \X Nat : p[1] < p[2]}
<1>1. R = OpToRel(<, Nat)
  BY DEF OpToRel
<1>2. IsWellFoundedOn(R, Nat)
  BY <1>1, NatLessThanWellFounded
<1> HIDE DEF R
<1>3. PICK n \in T : \A m \in T : ~(<<m, n>> \in R)
  BY <1>2, WFMin
<1>4. \A m \in T : ~(m < n)
  BY <1>3 DEF R
<1> QED BY <1>4

LEMMA SetInduction ==
  ASSUME NEW S, 0 \in S, \A n \in Nat : n \in S => n + 1 \in S
  PROVE  \A n \in Nat : n \in S
<1> SUFFICES ASSUME Nat \ S # {} PROVE FALSE
  OBVIOUS
<1>1. PICK n \in Nat \ S : \A m \in Nat \ S : n <= m
  BY LeastNatural
<1> QED BY <1>1, n - 1 \in Nat

-----------------------------------------------------------------------------
(* What entries cost together.                                             *)

First(s) == CHOOSE k \in s : TRUE

CostOf(es, S) == MapThenSumSet(LAMBDA k : es[k].cost, S)

\* t adds up the costs in es, element by element.
AddsUp(t, es, D) ==
  /\ DOMAIN t = D
  /\ \A s \in D : t[s] = IF s = {} THEN 0 ELSE es[First(s)].cost + t[s \ {First(s)}]

Priced(es, S) == IsFiniteSet(S) /\ \A k \in S : es[k].cost \in Nat

UpTo(S, n) == {s \in SUBSET S : Cardinality(s) <= n}

LEMMA SubsetFacts ==
  ASSUME NEW S, IsFiniteSet(S), NEW s \in SUBSET S
  PROVE  /\ IsFiniteSet(s) /\ Cardinality(s) \in Nat /\ Cardinality(s) <= Cardinality(S)
         /\ s = {} <=> Cardinality(s) = 0
         /\ \A k \in s : s \ {k} \in SUBSET S /\ Cardinality(s \ {k}) = Cardinality(s) - 1
         /\ s # {} => First(s) \in s
<1>1. IsFiniteSet(s) /\ Cardinality(s) <= Cardinality(S)
  BY FS_Subset
<1>2. Cardinality(s) \in Nat /\ (s = {} <=> Cardinality(s) = 0)
  BY <1>1, FS_CardinalityType, FS_EmptySet
<1>3. \A k \in s : Cardinality(s \ {k}) = Cardinality(s) - 1
  BY <1>1, FS_RemoveElement
<1> QED BY <1>1, <1>2, <1>3 DEF First

LEMMA SumExists ==
  ASSUME NEW es, NEW S, Priced(es, S)
  PROVE  \E t \in [SUBSET S -> Nat] : AddsUp(t, es, SUBSET S)
<1> DEFINE Good == {n \in Nat : \E t \in [UpTo(S, n) -> Nat] : AddsUp(t, es, UpTo(S, n))}
<1>0. IsFiniteSet(S) /\ Cardinality(S) \in Nat
  BY FS_CardinalityType DEF Priced
<1>1. 0 \in Good
  <2>1. UpTo(S, 0) = {{}}
    BY <1>0, SubsetFacts DEF UpTo
  <2> DEFINE t == [s \in {{}} |-> 0]
  <2>2. t \in [{{}} -> Nat] /\ AddsUp(t, es, {{}})
    BY DEF AddsUp
  <2> QED BY <2>1, <2>2
<1>2. ASSUME NEW n \in Nat, n \in Good PROVE n + 1 \in Good
  <2>1. PICK t \in [UpTo(S, n) -> Nat] : AddsUp(t, es, UpTo(S, n))
    BY <1>2
  <2> DEFINE u == [s \in UpTo(S, n + 1) |-> IF s = {} THEN 0 ELSE es[First(s)].cost + t[s \ {First(s)}]]
  <2>2. \A s \in UpTo(S, n + 1) : s # {} => /\ First(s) \in S /\ s \ {First(s)} \in UpTo(S, n)
                                            /\ es[First(s)].cost \in Nat
    BY <1>0, SubsetFacts DEF UpTo, Priced
  <2>3. u \in [UpTo(S, n + 1) -> Nat]
    BY <2>2
  <2>4. UpTo(S, n) \subseteq UpTo(S, n + 1)
    BY <1>0, SubsetFacts DEF UpTo
  <2>5. \A s \in UpTo(S, n) : u[s] = t[s]
    BY <2>1, <2>4 DEF AddsUp
  <2>6. AddsUp(u, es, UpTo(S, n + 1))
    BY <2>2, <2>5 DEF AddsUp
  <2> HIDE DEF u
  <2> QED BY <2>3, <2>6
<1> HIDE DEF Good
<1>3. Cardinality(S) \in Good
  BY <1>0, <1>1, <1>2, SetInduction
<1>4. UpTo(S, Cardinality(S)) = SUBSET S
  BY <1>0, SubsetFacts DEF UpTo
<1> QED BY <1>3, <1>4 DEF Good

LEMMA SumIsUnique ==
  ASSUME NEW S, IsFiniteSet(S), NEW t, NEW u, NEW es, NEW fs, NEW R,
         AddsUp(t, es, SUBSET S), AddsUp(u, fs, SUBSET R), S \subseteq R, \A k \in S : es[k].cost = fs[k].cost
  PROVE  t[S] = u[S]
<1> DEFINE Good == {n \in Nat : \A s \in SUBSET S : Cardinality(s) = n => t[s] = u[s]}
<1>1. 0 \in Good
  BY SubsetFacts DEF AddsUp
<1>2. ASSUME NEW n \in Nat, n \in Good PROVE n + 1 \in Good
  <2> SUFFICES ASSUME NEW s \in SUBSET S, Cardinality(s) = n + 1 PROVE t[s] = u[s]
    OBVIOUS
  <2>1. s # {} /\ First(s) \in S /\ s \ {First(s)} \in SUBSET S /\ Cardinality(s \ {First(s)}) = n
    <3>1. s # {} /\ First(s) \in s
      BY SubsetFacts
    <3> QED BY <3>1, SubsetFacts
  <2>2. t[s \ {First(s)}] = u[s \ {First(s)}]
    BY <1>2, <2>1
  <2> QED BY <2>1, <2>2 DEF AddsUp
<1> HIDE DEF Good
<1>3. Cardinality(S) \in Nat
  BY FS_CardinalityType
<1>4. Cardinality(S) \in Good
  BY <1>1, <1>2, <1>3, SetInduction
<1> QED BY <1>4 DEF Good

\* The sum in the words of the fold.
LEMMA CostIsSum ==
  ASSUME NEW es, NEW S, Priced(es, S), NEW t, AddsUp(t, es, SUBSET S)
  PROVE  CostOf(es, S) = t[S]
<1> DEFINE F(g) == g = [s \in SUBSET S |-> IF s = {} THEN 0 ELSE es[CHOOSE k \in s : TRUE].cost + g[s \ {CHOOSE k \in s : TRUE}]]
           c == CHOOSE g : F(g)
<1>1. CostOf(es, S) = c[S]
  BY DEF CostOf, MapThenSumSet, MapThenFoldSet
<1>2. PICK g \in [SUBSET S -> Nat] : AddsUp(g, es, SUBSET S)
  BY SumExists
<1>3. F(g)
  BY <1>2 DEF AddsUp, First
<1>4. F(c)
  <2> HIDE DEF F
  <2> QED BY <1>3
<1>5. AddsUp(c, es, SUBSET S)
  <2> HIDE DEF c
  <2> QED BY <1>4 DEF AddsUp, First
<1> HIDE DEF c
<1>6. IsFiniteSet(S)
  BY DEF Priced
<1> QED BY <1>1, <1>5, <1>6, SumIsUnique

LEMMA CostOfNothing == ASSUME NEW es PROVE CostOf(es, {}) = 0
<1> DEFINE t == [s \in SUBSET {} |-> 0]
<1>1. AddsUp(t, es, SUBSET {})
  BY DEF AddsUp
<1>2. Priced(es, {})
  BY FS_EmptySet DEF Priced
<1> QED BY <1>1, <1>2, CostIsSum

LEMMA SameCost ==
  ASSUME NEW es, NEW fs, NEW S, Priced(es, S), \A k \in S : es[k].cost = fs[k].cost
  PROVE  CostOf(es, S) = CostOf(fs, S) /\ CostOf(es, S) \in Nat
<1>1. Priced(fs, S) /\ IsFiniteSet(S)
  BY DEF Priced
<1>2. PICK t \in [SUBSET S -> Nat] : AddsUp(t, es, SUBSET S)
  BY SumExists
<1>3. PICK u \in [SUBSET S -> Nat] : AddsUp(u, fs, SUBSET S)
  BY <1>1, SumExists
<1>4. t[S] = u[S]
  BY <1>1, <1>2, <1>3, SumIsUnique
<1> QED BY <1>1, <1>2, <1>3, <1>4, CostIsSum

\* Any entry may be taken out first.
LEMMA CostWithout ==
  ASSUME NEW es, NEW S, Priced(es, S), NEW x \in S
  PROVE  CostOf(es, S) = es[x].cost + CostOf(es, S \ {x}) /\ CostOf(es, S \ {x}) \in Nat
<1>0. IsFiniteSet(S) /\ Cardinality(S) \in Nat
  BY FS_CardinalityType DEF Priced
<1>1. PICK t \in [SUBSET S -> Nat] : AddsUp(t, es, SUBSET S)
  BY SumExists
<1> DEFINE Good == {n \in Nat : \A s \in SUBSET S : Cardinality(s) = n => \A k \in s : t[s] = es[k].cost + t[s \ {k}]}
<1>2. 0 \in Good
  BY <1>0, SubsetFacts
<1>3. ASSUME NEW n \in Nat, n \in Good PROVE n + 1 \in Good
  <2> SUFFICES ASSUME NEW s \in SUBSET S, Cardinality(s) = n + 1, NEW k \in s
               PROVE  t[s] = es[k].cost + t[s \ {k}]
    OBVIOUS
  <2> DEFINE f == First(s)
  <2>1. f \in s /\ s \ {f} \in SUBSET S /\ s \ {k} \in SUBSET S /\ Cardinality(s \ {f}) = n /\ Cardinality(s \ {k}) = n
    BY <1>0, SubsetFacts
  <2>2. t[s] = es[f].cost + t[s \ {f}]
    BY <1>1, <2>1 DEF AddsUp
  <2> HIDE DEF f
  <2>3. CASE k = f
    BY <2>2, <2>3
  <2>4. CASE k # f
    <3>1. t[s \ {f}] = es[k].cost + t[(s \ {f}) \ {k}]
      BY <1>3, <2>1, <2>4
    <3>2. t[s \ {k}] = es[f].cost + t[(s \ {k}) \ {f}]
      BY <1>3, <2>1, <2>4
    <3>3. (s \ {f}) \ {k} = (s \ {k}) \ {f}
      OBVIOUS
    <3>4. es[k].cost \in Nat /\ es[f].cost \in Nat /\ t[(s \ {k}) \ {f}] \in Nat
      BY <1>1, <2>1 DEF Priced
    <3> DEFINE rest == t[(s \ {k}) \ {f}]
    <3>5. t[s] = es[f].cost + (es[k].cost + rest) /\ t[s \ {k}] = es[f].cost + rest /\ rest \in Nat
      BY <2>2, <3>1, <3>2, <3>3, <3>4
    <3> HIDE DEF rest
    <3> QED BY <3>4, <3>5
  <2> QED BY <2>3, <2>4
<1> HIDE DEF Good
<1>4. Cardinality(S) \in Good
  BY <1>0, <1>2, <1>3, SetInduction
<1>5. t[S] = es[x].cost + t[S \ {x}]
  BY <1>4 DEF Good
<1>6. Priced(es, S \ {x})
  BY <1>0, FS_RemoveElement DEF Priced
<1>7. PICK u \in [SUBSET (S \ {x}) -> Nat] : AddsUp(u, es, SUBSET (S \ {x}))
  BY <1>6, SumExists
<1>8. u[S \ {x}] = t[S \ {x}]
  <2>1. IsFiniteSet(S \ {x}) /\ S \ {x} \subseteq S
    BY <1>6 DEF Priced
  <2> QED BY <1>1, <1>7, <2>1, SumIsUnique
<1>9. CostOf(es, S) = t[S] /\ CostOf(es, S \ {x}) = u[S \ {x}]
  BY <1>1, <1>6, <1>7, CostIsSum
<1>10. u[S \ {x}] \in Nat
  BY <1>7
<1> QED BY <1>5, <1>8, <1>9, <1>10

-----------------------------------------------------------------------------
(* The cache.                                                              *)
(*                                                                         *)
(* A tick is used once, so the entry that takes it is alone in both        *)
(* indexes under it, and a removal finds in each index exactly the line it *)
(* put there.  Each turn of an eviction takes one entry.                   *)

EntryRecs == [cost : Nat, expires : Nat \cup {Never}, touched : Nat, inserted : Nat]

IsInner(in) ==
  in = [entries |-> in.entries, lru |-> in.lru, expiry |-> in.expiry, bytes |-> in.bytes, evictions |-> in.evictions]

DueAt(e) == <<e.expires, e.inserted>>

LruBook(es, P, lru) ==
  /\ lru \in [DOMAIN lru -> P] /\ DOMAIN lru \subseteq Nat
  /\ \A k \in P : es[k].touched \in DOMAIN lru /\ lru[es[k].touched] = k
  /\ \A x \in DOMAIN lru : es[lru[x]].touched = x

ExpiryBook(es, P, expiry) ==
  /\ expiry \in [DOMAIN expiry -> P]
  /\ \A k \in P : es[k].expires # Never => DueAt(es[k]) \in DOMAIN expiry /\ expiry[DueAt(es[k])] = k
  /\ \A x \in DOMAIN expiry : es[expiry[x]].expires # Never /\ DueAt(es[expiry[x]]) = x

Books(in) ==
  /\ IsInner(in) /\ in.evictions \in Nat
  /\ in.entries \in [Keys -> {Absent} \cup EntryRecs]
  /\ IsFiniteSet(Present(in))
  /\ LruBook(in.entries, Present(in), in.lru)
  /\ ExpiryBook(in.entries, Present(in), in.expiry)
  /\ in.bytes = CostOf(in.entries, Present(in))

LEMMA EntryIsThere == ASSUME NEW e \in EntryRecs PROVE e # Absent
<1>1. "cost" \in DOMAIN e /\ DOMAIN Absent = {"absent"}
  BY DEF EntryRecs, Absent
<1> QED BY <1>1

LEMMA PresentFacts ==
  ASSUME NEW in, Books(in)
  PROVE  /\ \A k \in Present(in) : k \in Keys /\ in.entries[k] \in EntryRecs
         /\ Priced(in.entries, Present(in)) /\ in.bytes \in Nat
<1>1. \A k \in Present(in) : k \in Keys /\ in.entries[k] \in EntryRecs
  BY DEF Books, Present
<1>2. Priced(in.entries, Present(in))
  BY <1>1 DEF Priced, Books, EntryRecs
<1> QED BY <1>1, <1>2, SameCost DEF Books

LEMMA RemoveKeeps ==
  ASSUME NEW in, Books(in), NEW k \in Keys
  PROVE  LET out == RemoveEntry(in, k)
         IN  /\ Books(out) /\ Present(out) = Present(in) \ {k} /\ out.evictions = in.evictions
             /\ \A j \in Present(out) : out.entries[j] = in.entries[j]
             /\ out.bytes <= in.bytes
<1> DEFINE out == RemoveEntry(in, k)
           e == in.entries[k]
           P == Present(in)
<1>0. in.bytes \in Nat
  BY PresentFacts
<1>1. CASE e = Absent
  <2>1. out = in /\ k \notin P
    BY <1>1 DEF RemoveEntry, Present
  <2> QED BY <1>0, <2>1
<1>2. CASE e # Absent
  <2>0. k \in P /\ e \in EntryRecs /\ Priced(in.entries, P) /\ \A j \in P : in.entries[j] \in EntryRecs
    BY <1>2, PresentFacts DEF Present
  <2>1. in.bytes = e.cost + CostOf(in.entries, P \ {k}) /\ CostOf(in.entries, P \ {k}) \in Nat
    BY <2>0, CostWithout DEF Books
  <2>2. Max({0, in.bytes - e.cost}) = CostOf(in.entries, P \ {k})
    <3>1. e.cost \in Nat
      BY <2>0 DEF EntryRecs
    <3> DEFINE m == CostOf(in.entries, P \ {k})
    <3>2. in.bytes - e.cost = m /\ m \in Nat
      BY <2>1, <3>1
    <3> HIDE DEF m
    <3>3. Max({0, m}) = m
      BY <3>2 DEF Max
    <3> QED BY <3>2, <3>3 DEF m
  <2>3. /\ IsInner(out) /\ out.entries = [in.entries EXCEPT ![k] = Absent] /\ out.evictions = in.evictions
        /\ out.lru = Without(in.lru, e.touched) /\ out.expiry = Without(in.expiry, DueAt(e))
        /\ out.bytes = CostOf(in.entries, P \ {k})
    <3>1. IsInner(in)
      BY DEF Books
    <3>2. out = [in EXCEPT !.entries[k] = Absent, !.lru = Without(in.lru, e.touched),
                           !.expiry = Without(in.expiry, DueAt(e)), !.bytes = CostOf(in.entries, P \ {k})]
      BY <1>2, <2>2 DEF RemoveEntry, DueAt
    <3> HIDE DEF out, e, P
    <3> QED BY <3>1, <3>2 DEF IsInner
  <2> HIDE DEF out, e
  <2>4. out.entries \in [Keys -> {Absent} \cup EntryRecs] /\ \A j \in Keys \ {k} : out.entries[j] = in.entries[j]
    BY <2>3 DEF Books
  <2>5. Present(out) = P \ {k}
    BY <2>3, <2>4 DEF Present, Books
  <2>6. IsFiniteSet(P \ {k})
    BY FS_RemoveElement DEF Books
  <2>7. LruBook(out.entries, P \ {k}, out.lru)
    <3>0. LruBook(in.entries, P, in.lru) /\ P \subseteq Keys
      BY DEF Books, Present
    <3>1. /\ DOMAIN out.lru = DOMAIN in.lru \ {e.touched} /\ out.lru = [y \in DOMAIN in.lru \ {e.touched} |-> in.lru[y]]
          /\ \A y \in DOMAIN out.lru : out.lru[y] = in.lru[y]
      BY <2>3 DEF Without, Restrict
    <3>2. \A x \in DOMAIN out.lru : in.lru[x] # k /\ in.lru[x] \in P
      BY <3>0, <3>1 DEF LruBook, e
    <3>3. \A j \in P \ {k} : in.entries[j].touched # e.touched
      BY <2>0, <3>0 DEF LruBook, e
    <3> HIDE DEF P
    <3> QED BY <2>4, <3>0, <3>1, <3>2, <3>3 DEF LruBook
  <2>8. ExpiryBook(out.entries, P \ {k}, out.expiry)
    <3>0. ExpiryBook(in.entries, P, in.expiry) /\ P \subseteq Keys
      BY DEF Books, Present
    <3>1. /\ DOMAIN out.expiry = DOMAIN in.expiry \ {DueAt(e)}
          /\ out.expiry = [y \in DOMAIN in.expiry \ {DueAt(e)} |-> in.expiry[y]]
          /\ \A y \in DOMAIN out.expiry : out.expiry[y] = in.expiry[y]
      BY <2>3 DEF Without, Restrict
    <3>2. \A x \in DOMAIN out.expiry : in.expiry[x] # k /\ in.expiry[x] \in P
      BY <3>0, <3>1 DEF ExpiryBook, e
    <3>3. \A j \in P \ {k} : in.entries[j].expires # Never => DueAt(in.entries[j]) # DueAt(e)
      <4> SUFFICES ASSUME NEW j \in P \ {k}, in.entries[j].expires # Never, DueAt(in.entries[j]) = DueAt(e) PROVE FALSE
        OBVIOUS
      <4>1. in.entries[j].expires = e.expires
        BY DEF DueAt
      <4> QED BY <2>0, <3>0, <4>1 DEF ExpiryBook, e
    <3> HIDE DEF P
    <3> QED BY <2>4, <3>0, <3>1, <3>2, <3>3 DEF ExpiryBook
  <2>9. out.bytes = CostOf(out.entries, P \ {k})
    <3>1. Priced(in.entries, P \ {k})
      BY <2>0, <2>6 DEF Priced
    <3>2. \A j \in P \ {k} : in.entries[j].cost = out.entries[j].cost
      BY <2>4 DEF Present
    <3>3. CostOf(in.entries, P \ {k}) = CostOf(out.entries, P \ {k})
      <4> HIDE DEF P
      <4> QED BY <3>1, <3>2, SameCost
    <3> QED BY <2>3, <3>3
  <2>10. out.bytes <= in.bytes /\ \A j \in Present(out) : out.entries[j] = in.entries[j]
    <3>1. e.cost \in Nat
      BY <2>0 DEF EntryRecs
    <3> QED BY <2>1, <2>3, <2>4, <2>5, <3>1 DEF Present
  <2> QED BY <2>3, <2>4, <2>5, <2>6, <2>7, <2>8, <2>9, <2>10 DEF Books, out
<1> QED BY <1>1, <1>2

\* Nothing in the cache has tick t.
Unused(in, t) == \A k \in Present(in) : in.entries[k].touched # t /\ in.entries[k].inserted # t

\* out is in with an entry under k that has its tick from the write.
Grown(out, in, k, tick) ==
  /\ Books(out) /\ Present(out) = Present(in) \cup {k} /\ out.evictions = in.evictions
  /\ \A j \in Present(in) \ {k} : out.entries[j] = in.entries[j]
  /\ out.entries[k].touched = tick /\ out.entries[k].inserted = tick

LEMMA InsertKeeps ==
  ASSUME NEW in, Books(in), NEW k \in Keys, NEW cost \in Nat, NEW expires \in Nat \cup {Never}, NEW tick \in Nat,
         Unused(in, tick)
  PROVE  Grown(InsertEntry(in, k, cost, expires, tick), in, k, tick)
<1> DEFINE old == RemoveEntry(in, k)
           out == InsertEntry(in, k, cost, expires, tick)
           e == [cost |-> cost, expires |-> expires, touched |-> tick, inserted |-> tick]
           P == Present(in) \ {k}
<1>1. /\ Books(old) /\ Present(old) = P /\ old.evictions = in.evictions
      /\ \A j \in P : old.entries[j] = in.entries[j]
  BY RemoveKeeps
<1>2. e \in EntryRecs /\ e.cost = cost /\ e.expires = expires /\ e.touched = tick /\ e.inserted = tick /\ e # Absent
  BY EntryIsThere DEF EntryRecs
<1>3. /\ IsInner(out) /\ out.entries = [old.entries EXCEPT ![k] = e] /\ out.lru = With(old.lru, tick, k)
      /\ out.expiry = IF expires = Never THEN old.expiry ELSE With(old.expiry, <<expires, tick>>, k)
      /\ out.bytes = old.bytes + cost /\ out.evictions = old.evictions
  <2>1. IsInner(old)
    BY <1>1 DEF Books
  <2>2. out = [old EXCEPT !.entries[k] = e, !.lru = With(old.lru, tick, k),
                          !.expiry = IF expires = Never THEN old.expiry ELSE With(old.expiry, <<expires, tick>>, k),
                          !.bytes = old.bytes + cost]
    BY DEF InsertEntry
  <2> HIDE DEF old, out, e
  <2> QED BY <2>1, <2>2 DEF IsInner
<1> HIDE DEF old, out, e
<1>4. old.entries \in [Keys -> {Absent} \cup EntryRecs] /\ P \subseteq Keys /\ k \notin P /\ IsFiniteSet(P)
  BY <1>1 DEF Books, Present
<1>5. /\ out.entries \in [Keys -> {Absent} \cup EntryRecs] /\ out.entries[k] = e
      /\ \A j \in Keys \ {k} : out.entries[j] = old.entries[j]
  BY <1>2, <1>3, <1>4
<1>6. Present(out) = P \cup {k}
  BY <1>1, <1>2, <1>4, <1>5 DEF Present
<1>7. \A j \in P : old.entries[j].touched # tick /\ old.entries[j].inserted # tick
  BY <1>1 DEF Unused
<1>8. LruBook(out.entries, P \cup {k}, out.lru)
  <2>0. LruBook(old.entries, P, old.lru)
    BY <1>1 DEF Books
  <2>1. tick \notin DOMAIN old.lru
    BY <1>7, <2>0 DEF LruBook
  <2>2. /\ DOMAIN out.lru = DOMAIN old.lru \cup {tick} /\ out.lru[tick] = k
        /\ \A y \in DOMAIN old.lru : out.lru[y] = old.lru[y]
        /\ out.lru = [y \in DOMAIN old.lru \cup {tick} |-> IF y = tick THEN k ELSE old.lru[y]]
    BY <1>3, <2>1 DEF With
  <2>3. out.lru \in [DOMAIN out.lru -> P \cup {k}]
    <3>1. \A y \in DOMAIN old.lru : old.lru[y] \in P
      BY <2>0 DEF LruBook
    <3> HIDE DEF P
    <3> QED BY <2>2, <3>1
  <2> HIDE DEF P
  <2> QED BY <1>2, <1>4, <1>5, <1>7, <2>0, <2>1, <2>2, <2>3 DEF LruBook
<1>9. ExpiryBook(out.entries, P \cup {k}, out.expiry)
  <2>0. ExpiryBook(old.entries, P, old.expiry)
    BY <1>1 DEF Books
  <2>1. CASE expires = Never
    <3>1. out.expiry = old.expiry /\ out.entries[k].expires = Never
      BY <1>2, <1>3, <1>5, <2>1
    <3> HIDE DEF P
    <3> QED BY <1>4, <1>5, <2>0, <3>1 DEF ExpiryBook
  <2>2. CASE expires # Never
    <3> DEFINE x == <<expires, tick>>
    <3>0. DueAt(e) = x /\ e.expires # Never
      BY <1>2, <2>2 DEF DueAt
    <3>1. \A j \in P : DueAt(old.entries[j]) # x
      BY <1>7 DEF DueAt
    <3> HIDE DEF x
    <3>2. x \notin DOMAIN old.expiry
      BY <2>0, <3>1 DEF ExpiryBook
    <3>3. /\ DOMAIN out.expiry = DOMAIN old.expiry \cup {x} /\ out.expiry[x] = k
          /\ \A y \in DOMAIN old.expiry : out.expiry[y] = old.expiry[y]
          /\ out.expiry = [y \in DOMAIN old.expiry \cup {x} |-> IF y = x THEN k ELSE old.expiry[y]]
      BY <1>3, <2>2, <3>2 DEF With, x
    <3>4. out.expiry \in [DOMAIN out.expiry -> P \cup {k}]
      <4>1. \A y \in DOMAIN old.expiry : old.expiry[y] \in P
        BY <2>0 DEF ExpiryBook
      <4> HIDE DEF P
      <4> QED BY <3>3, <4>1
    <3> HIDE DEF P
    <3>k. out.entries[k].expires # Never /\ DueAt(out.entries[k]) = x
      BY <1>5, <3>0
    <3>p. \A j \in P : out.entries[j] = old.entries[j]
      BY <1>4, <1>5
    <3>5. \A j \in P \cup {k} : out.entries[j].expires # Never =>
            DueAt(out.entries[j]) \in DOMAIN out.expiry /\ out.expiry[DueAt(out.entries[j])] = j
      <4>1. \A j \in P : out.entries[j].expires # Never =>
              DueAt(out.entries[j]) \in DOMAIN old.expiry /\ old.expiry[DueAt(out.entries[j])] = j
        BY <2>0, <3>p DEF ExpiryBook
      <4>2. x \in DOMAIN out.expiry /\ out.expiry[x] = k
        BY <3>3
      <4> QED BY <3>k, <3>3, <4>1, <4>2
    <3>6. \A y \in DOMAIN out.expiry : out.entries[out.expiry[y]].expires # Never /\ DueAt(out.entries[out.expiry[y]]) = y
      <4> SUFFICES ASSUME NEW y \in DOMAIN out.expiry
                   PROVE  out.entries[out.expiry[y]].expires # Never /\ DueAt(out.entries[out.expiry[y]]) = y
        OBVIOUS
      <4>1. CASE y = x
        BY <3>k, <3>3, <4>1
      <4>2. CASE y \in DOMAIN old.expiry
        <5>1. out.expiry[y] = old.expiry[y] /\ old.expiry[y] \in P
          BY <2>0, <3>3, <4>2 DEF ExpiryBook
        <5>2. old.entries[old.expiry[y]].expires # Never /\ DueAt(old.entries[old.expiry[y]]) = y
          BY <2>0, <4>2 DEF ExpiryBook
        <5> QED BY <3>p, <5>1, <5>2
      <4> QED BY <3>3, <4>1, <4>2
    <3> QED BY <3>4, <3>5, <3>6 DEF ExpiryBook
  <2> QED BY <2>1, <2>2
<1>10. IsFiniteSet(P \cup {k})
  BY <1>4, FS_AddElement
<1>11. out.bytes = CostOf(out.entries, P \cup {k})
  <2>1. Priced(old.entries, P) /\ old.bytes = CostOf(old.entries, P) /\ \A j \in P : old.entries[j] \in EntryRecs
    BY <1>1, PresentFacts DEF Books
  <2>2. \A j \in P : old.entries[j].cost = out.entries[j].cost
    BY <1>4, <1>5
  <2>3. CostOf(old.entries, P) = CostOf(out.entries, P) /\ CostOf(old.entries, P) \in Nat
    <3> HIDE DEF P
    <3> QED BY <2>1, <2>2, SameCost
  <2>4. Priced(out.entries, P \cup {k})
    BY <1>2, <1>5, <1>10, <2>1, <2>2 DEF Priced
  <2>5. (P \cup {k}) \ {k} = P
    BY <1>4
  <2>6. CostOf(out.entries, P \cup {k}) = out.entries[k].cost + CostOf(out.entries, P)
    <3>1. k \in P \cup {k}
      OBVIOUS
    <3> HIDE DEF P
    <3> QED BY <2>4, <2>5, <3>1, CostWithout
  <2> QED BY <1>2, <1>3, <1>5, <2>1, <2>3, <2>6
<1>12. Present(out) = Present(in) \cup {k}
  BY <1>6
<1>13. Books(out)
  BY <1>1, <1>3, <1>5, <1>6, <1>8, <1>9, <1>10, <1>11 DEF Books
<1>14. \A j \in Present(in) \ {k} : out.entries[j] = in.entries[j]
  BY <1>1, <1>4, <1>5
<1>15. Grown(out, in, k, tick)
  BY <1>1, <1>2, <1>3, <1>5, <1>12, <1>13, <1>14 DEF Grown
<1> QED BY <1>15 DEF out

LEMMA TouchKeeps ==
  ASSUME NEW in, Books(in), NEW k \in Present(in), NEW tick \in Nat, Unused(in, tick)
  PROVE  LET out == TouchEntry(in, k, tick)
         IN  /\ Books(out) /\ Present(out) = Present(in) /\ out.evictions = in.evictions /\ out.bytes = in.bytes
             /\ \A j \in Present(in) \ {k} : out.entries[j] = in.entries[j]
             /\ out.entries[k].touched = tick /\ out.entries[k].inserted = in.entries[k].inserted
<1> DEFINE out == TouchEntry(in, k, tick)
           v == in.entries[k]
           e == [v EXCEPT !.touched = tick]
           P == Present(in)
<1>0. v \in EntryRecs /\ P \subseteq Keys /\ k \in Keys
  BY PresentFacts DEF Present
<1>1. /\ LruBook(in.entries, P, in.lru) /\ ExpiryBook(in.entries, P, in.expiry) /\ IsInner(in)
      /\ in.entries \in [Keys -> {Absent} \cup EntryRecs]
  BY DEF Books
<1>2. v.touched \in DOMAIN in.lru /\ in.lru[v.touched] = k
  BY <1>1 DEF LruBook
<1>3. /\ IsInner(out) /\ out.entries = [in.entries EXCEPT ![k] = e] /\ out.lru = With(Without(in.lru, v.touched), tick, k)
      /\ out.expiry = in.expiry /\ out.bytes = in.bytes /\ out.evictions = in.evictions
  <2>1. out = [in EXCEPT !.entries[k].touched = tick, !.lru = With(Without(in.lru, v.touched), tick, k)]
    BY <1>2 DEF TouchEntry
  <2> HIDE DEF out
  <2> QED BY <1>1, <2>1 DEF IsInner
<1> HIDE DEF out
<1>4. e \in EntryRecs /\ e.touched = tick /\ e.inserted = v.inserted /\ e.expires = v.expires /\ e.cost = v.cost /\ e # Absent
  <2>1. e \in EntryRecs /\ e.touched = tick /\ e.inserted = v.inserted /\ e.expires = v.expires /\ e.cost = v.cost
    BY <1>0 DEF EntryRecs
  <2> QED BY <2>1, EntryIsThere
<1> HIDE DEF e
<1>5. /\ out.entries \in [Keys -> {Absent} \cup EntryRecs] /\ out.entries[k] = e
      /\ \A j \in Keys \ {k} : out.entries[j] = in.entries[j]
  BY <1>0, <1>1, <1>3, <1>4
<1>6. Present(out) = P
  BY <1>0, <1>4, <1>5 DEF Present
<1>7. LruBook(out.entries, P, out.lru)
  <2>1. tick \notin DOMAIN in.lru
    BY <1>1 DEF LruBook, Unused
  <2>2. /\ DOMAIN out.lru = (DOMAIN in.lru \ {v.touched}) \cup {tick} /\ out.lru[tick] = k
        /\ \A y \in DOMAIN in.lru \ {v.touched} : out.lru[y] = in.lru[y]
        /\ out.lru = [y \in (DOMAIN in.lru \ {v.touched}) \cup {tick} |-> IF y = tick THEN k ELSE in.lru[y]]
    BY <1>3, <2>1 DEF With, Without, Restrict
  <2>3. \A y \in DOMAIN in.lru \ {v.touched} : in.lru[y] \in P \ {k}
    BY <1>1 DEF LruBook
  <2>4. \A j \in P \ {k} : in.entries[j].touched \in DOMAIN in.lru \ {v.touched}
    BY <1>1, <1>2 DEF LruBook
  <2>5. out.lru \in [DOMAIN out.lru -> P]
    BY <2>2, <2>3
  <2> HIDE DEF P, v
  <2> QED BY <1>0, <1>1, <1>4, <1>5, <2>1, <2>2, <2>3, <2>4, <2>5 DEF LruBook
<1>8. ExpiryBook(out.entries, P, out.expiry)
  <2>1. \A j \in P : DueAt(out.entries[j]) = DueAt(in.entries[j]) /\ out.entries[j].expires = in.entries[j].expires
    BY <1>0, <1>4, <1>5 DEF DueAt
  <2>2. \A x \in DOMAIN in.expiry : in.expiry[x] \in P
    BY <1>1 DEF ExpiryBook
  <2> HIDE DEF P
  <2> QED BY <1>1, <1>3, <2>1, <2>2 DEF ExpiryBook
<1>9. out.bytes = CostOf(out.entries, P)
  <2>1. Priced(in.entries, P) /\ in.bytes = CostOf(in.entries, P)
    BY PresentFacts DEF Books
  <2>2. \A j \in P : in.entries[j].cost = out.entries[j].cost
    BY <1>0, <1>4, <1>5
  <2>3. CostOf(in.entries, P) = CostOf(out.entries, P)
    <3> HIDE DEF P
    <3> QED BY <2>1, <2>2, SameCost
  <2> QED BY <1>3, <2>1, <2>3
<1>10. Books(out)
  BY <1>3, <1>5, <1>6, <1>7, <1>8, <1>9 DEF Books
<1> QED BY <1>0, <1>3, <1>4, <1>5, <1>6, <1>10 DEF out

-----------------------------------------------------------------------------
(* One eviction.                                                           *)

AllAlive(in, now) == \A k \in Present(in) : IsLive(in.entries[k], now)

\* out is in with entries taken out, and a live one only when no other was left.
Shrunk(out, in, now) ==
  /\ Books(out) /\ Present(out) \subseteq Present(in)
  /\ \A k \in Present(out) : out.entries[k] = in.entries[k]
  /\ out.evictions = in.evictions \/ AllAlive(out, now)

\* When an entry has expired, the expiry index has a first one, and it has expired too.
LEMMA TheFirstHasExpired ==
  ASSUME NEW in, Books(in), NEW now \in Nat, Expired(in, now) = {}
  PROVE  AllAlive(in, now)
<1> DEFINE D == DOMAIN in.expiry
           T == {x[1] : x \in D}
<1> SUFFICES ASSUME NEW k \in Present(in), ~IsLive(in.entries[k], now) PROVE FALSE
  BY DEF AllAlive
<1>0. ExpiryBook(in.entries, Present(in), in.expiry) /\ in.entries[k] \in EntryRecs
  BY PresentFacts DEF Books
<1>1. in.entries[k].expires \in Nat /\ in.entries[k].expires <= now /\ in.entries[k].expires # Never
  BY <1>0 DEF EntryRecs, IsLive, Never
<1>2. \A x \in D : x = <<x[1], x[2]>> /\ x[1] \in Nat /\ x[2] \in Nat
  <2> SUFFICES ASSUME NEW x \in D PROVE x = <<x[1], x[2]>> /\ x[1] \in Nat /\ x[2] \in Nat
    OBVIOUS
  <2> DEFINE e == in.entries[in.expiry[x]]
  <2>1. e \in EntryRecs /\ e.expires # Never /\ x = <<e.expires, e.inserted>>
    BY <1>0, PresentFacts DEF ExpiryBook, DueAt
  <2> HIDE DEF e
  <2> QED BY <2>1 DEF EntryRecs
<1>3. DueAt(in.entries[k]) \in D /\ DueAt(in.entries[k])[1] = in.entries[k].expires
  BY <1>0, <1>1 DEF ExpiryBook, DueAt
<1> HIDE DEF D
<1>4. T \in SUBSET Nat /\ T # {}
  BY <1>2, <1>3
<1>5. PICK a \in T : \A m \in T : a <= m
  BY <1>4, LeastNatural
<1> DEFINE U == {x[2] : x \in {y \in D : y[1] = a}}
<1>6. U \in SUBSET Nat /\ U # {}
  BY <1>2, <1>5
<1>7. PICK b \in U : \A m \in U : b <= m
  BY <1>6, LeastNatural
<1>8. PICK x \in D : x[1] = a /\ x[2] = b
  BY <1>7
<1>9. a <= now /\ a \in Nat /\ b \in Nat
  <2>1. in.entries[k].expires \in T
    BY <1>3
  <2>2. a \in Nat /\ b \in Nat
    BY <1>2, <1>8
  <2>3. a <= in.entries[k].expires
    BY <1>5, <2>1
  <2> HIDE DEF T, U
  <2> QED BY <1>1, <2>2, <2>3
<1>10. \A y \in D : x = y \/ Sooner(x, y)
  <2> SUFFICES ASSUME NEW y \in D, x # y PROVE Sooner(x, y)
    OBVIOUS
  <2>1. y[1] \in T /\ (y[1] = a => y[2] \in U)
    OBVIOUS
  <2>2. a <= y[1] /\ (y[1] = a => b <= y[2])
    BY <1>5, <1>7, <2>1
  <2>3. ~(y[1] = a /\ y[2] = b)
    BY <1>2, <1>8
  <2> HIDE DEF T, U
  <2>4. y[1] \in Nat /\ y[2] \in Nat
    BY <1>2
  <2> QED BY <1>8, <1>9, <2>2, <2>3, <2>4 DEF Sooner
<1>11. x \in Expired(in, now)
  BY <1>8, <1>9, <1>10 DEF Expired, D
<1> QED BY <1>11

LEMMA OverIsNotEmpty ==
  ASSUME NEW in, Books(in), Over(in)
  PROVE  Present(in) # {}
<1> SUFFICES ASSUME Present(in) = {} PROVE FALSE
  OBVIOUS
<1>1. in.bytes = 0 /\ Cardinality(Present(in)) = 0
  BY CostOfNothing, FS_EmptySet DEF Books
<1> QED BY <1>1, CacheBoundsArePositive DEF Over

LEMMA TurnKeeps ==
  ASSUME NEW in, Books(in), NEW now \in Nat
  PROVE  LET out == EvictOne(in, now)
         IN  /\ Shrunk(out, in, now)
             /\ ~Over(in) => out = in
             /\ Over(in) => Cardinality(Present(out)) = Cardinality(Present(in)) - 1
             /\ out.evictions \in {in.evictions, in.evictions + 1}
<1> DEFINE out == EvictOne(in, now)
<1>0. LruBook(in.entries, Present(in), in.lru) /\ ExpiryBook(in.entries, Present(in), in.expiry)
      /\ IsFiniteSet(Present(in)) /\ in.evictions \in Nat
  BY DEF Books
<1>1. CASE ~Over(in)
  <2>1. out = in
    BY <1>1 DEF EvictOne
  <2> QED BY <1>1, <2>1 DEF Shrunk
<1>2. CASE Over(in) /\ Expired(in, now) # {}
  <2> DEFINE x == CHOOSE y \in Expired(in, now) : TRUE
             k == in.expiry[x]
  <2>1. out = RemoveEntry(in, k)
    BY <1>2 DEF EvictOne
  <2>2. x \in DOMAIN in.expiry
    BY <1>2 DEF Expired
  <2>3. k \in Present(in) /\ k \in Keys
    BY <1>0, <2>2, PresentFacts DEF ExpiryBook
  <2> HIDE DEF x, k, out
  <2>4. /\ Books(out) /\ Present(out) = Present(in) \ {k} /\ out.evictions = in.evictions
        /\ \A j \in Present(out) : out.entries[j] = in.entries[j]
    BY <2>1, <2>3, RemoveKeeps
  <2>5. Cardinality(Present(out)) = Cardinality(Present(in)) - 1
    BY <1>0, <2>3, <2>4, FS_RemoveElement
  <2>6. Shrunk(out, in, now)
    BY <2>4 DEF Shrunk
  <2> QED BY <1>2, <2>4, <2>5, <2>6 DEF out
<1>3. CASE Over(in) /\ Expired(in, now) = {}
  <2>1. PICK j \in Present(in) : TRUE
    BY <1>3, OverIsNotEmpty
  <2>2. DOMAIN in.lru # {} /\ DOMAIN in.lru \in SUBSET Nat
    BY <1>0, <2>1 DEF LruBook
  <2>3. \E n \in DOMAIN in.lru : \A m \in DOMAIN in.lru : n <= m
    BY <2>2, LeastNatural
  <2> DEFINE x == Min(DOMAIN in.lru)
             k == in.lru[x]
             left == RemoveEntry(in, k)
  <2>4. x \in DOMAIN in.lru
    BY <2>3 DEF Min
  <2>5. k \in Present(in) /\ k \in Keys
    BY <1>0, <2>4, PresentFacts DEF LruBook
  <2>6. out = [left EXCEPT !.evictions = @ + 1]
    BY <1>3, <2>2 DEF EvictOne
  <2> HIDE DEF x, k, out
  <2>7. /\ Books(left) /\ Present(left) = Present(in) \ {k} /\ left.evictions = in.evictions
        /\ \A i \in Present(left) : left.entries[i] = in.entries[i]
    BY <2>5, RemoveKeeps
  <2> HIDE DEF left
  <2>8. /\ IsInner(out) /\ out.entries = left.entries /\ out.lru = left.lru /\ out.expiry = left.expiry
        /\ out.bytes = left.bytes /\ out.evictions = in.evictions + 1
    BY <2>6, <2>7 DEF Books, IsInner
  <2>9. Present(out) = Present(left)
    BY <2>8 DEF Present
  <2>10. Books(out)
    BY <1>0, <2>7, <2>8, <2>9 DEF Books
  <2>11. Cardinality(Present(out)) = Cardinality(Present(in)) - 1
    <3>1. Cardinality(Present(in) \ {k}) = Cardinality(Present(in)) - 1
      BY <1>0, <2>5, FS_RemoveElement
    <3> QED BY <2>7, <2>9, <3>1
  <2>12. AllAlive(out, now)
    BY <1>3, <2>7, <2>8, <2>9, TheFirstHasExpired DEF AllAlive
  <2>13. Shrunk(out, in, now)
    BY <2>7, <2>8, <2>9, <2>10, <2>12 DEF Shrunk
  <2> QED BY <1>3, <2>8, <2>11, <2>13 DEF out
<1> QED BY <1>1, <1>2, <1>3

\* The loop's states, turn by turn.
Turns(f, in, now, m) == f = [n \in 0..m |-> IF n = 0 THEN in ELSE EvictOne(f[n - 1], now)]

LEMMA TurnsExist ==
  ASSUME NEW in, NEW now, NEW m \in Nat
  PROVE  \E f : Turns(f, in, now, m)
<1> DEFINE Good == {i \in Nat : \E f : Turns(f, in, now, i)}
<1>1. 0 \in Good
  <2> DEFINE f == [n \in 0..0 |-> in]
  <2>1. Turns(f, in, now, 0)
    BY DEF Turns
  <2> QED BY <2>1
<1>2. ASSUME NEW i \in Nat, i \in Good PROVE i + 1 \in Good
  <2>1. PICK f : Turns(f, in, now, i)
    BY <1>2
  <2> DEFINE g == [n \in 0..(i + 1) |-> IF n = 0 THEN in ELSE EvictOne(f[n - 1], now)]
  <2>2. \A n \in 0..i : g[n] = f[n]
    BY <2>1 DEF Turns
  <2>3. \A n \in 1..(i + 1) : n - 1 \in 0..i
    OBVIOUS
  <2>4. \A n \in 0..(i + 1) : n # 0 => EvictOne(f[n - 1], now) = EvictOne(g[n - 1], now)
    <3> SUFFICES ASSUME NEW n \in 0..(i + 1), n # 0 PROVE f[n - 1] = g[n - 1]
      OBVIOUS
    <3>1. n - 1 \in 0..i
      BY <2>3
    <3> HIDE DEF g
    <3> QED BY <2>2, <3>1
  <2>5. Turns(g, in, now, i + 1)
    BY <2>4 DEF Turns
  <2> HIDE DEF g
  <2> QED BY <2>5
<1> HIDE DEF Good
<1>3. m \in Good
  BY <1>1, <1>2, SetInduction
<1> QED BY <1>3 DEF Good

LEMMA EvictKeeps ==
  ASSUME NEW in, Books(in), NEW now \in Nat
  PROVE  LET out == Evict(in, now)
         IN  Shrunk(out, in, now) /\ ~Over(out) /\ out.evictions \in Nat /\ out.evictions >= in.evictions
<1> DEFINE turns == Cardinality(Present(in))
           after == CHOOSE f : Turns(f, in, now, turns)
<1>1. Evict(in, now) = after[turns]
  BY DEF Evict, Turns
<1>2. turns \in Nat /\ in.evictions \in Nat
  BY FS_CardinalityType DEF Books
<1>3. Turns(after, in, now, turns)
  BY <1>2, TurnsExist
<1> DEFINE Good == {i \in Nat : i <= turns =>
                      /\ Shrunk(after[i], in, now) /\ after[i].evictions >= in.evictions /\ after[i].evictions \in Nat
                      /\ ~Over(after[i]) \/ Cardinality(Present(after[i])) = turns - i}
<1> HIDE DEF after
<1>4. 0 \in Good
  <2>1. after[0] = in
    BY <1>2, <1>3 DEF Turns
  <2>2. Shrunk(in, in, now)
    BY DEF Shrunk
  <2> QED BY <1>2, <2>1, <2>2
<1>5. ASSUME NEW i \in Nat, i \in Good PROVE i + 1 \in Good
  <2> SUFFICES ASSUME i + 1 <= turns
               PROVE  /\ Shrunk(after[i + 1], in, now) /\ after[i + 1].evictions >= in.evictions
                      /\ after[i + 1].evictions \in Nat
                      /\ ~Over(after[i + 1]) \/ Cardinality(Present(after[i + 1])) = turns - (i + 1)
    OBVIOUS
  <2> DEFINE was == after[i]
             is == after[i + 1]
  <2>1. /\ Shrunk(was, in, now) /\ was.evictions >= in.evictions /\ was.evictions \in Nat
        /\ ~Over(was) \/ Cardinality(Present(was)) = turns - i
    BY <1>2, <1>5
  <2>2. is = EvictOne(was, now)
    BY <1>2, <1>3, (i + 1) - 1 = i, i + 1 \in 0..turns, i + 1 # 0 DEF Turns
  <2> HIDE DEF was, is, Good, turns
  <2>3. /\ Shrunk(is, was, now) /\ (~Over(was) => is = was)
        /\ Over(was) => Cardinality(Present(is)) = Cardinality(Present(was)) - 1
        /\ is.evictions \in {was.evictions, was.evictions + 1}
    BY <2>1, <2>2, TurnKeeps DEF Shrunk
  <2>4. Shrunk(is, in, now)
    <3>1. AllAlive(was, now) => AllAlive(is, now)
      BY <2>3 DEF Shrunk, AllAlive
    <3> QED BY <2>1, <2>3, <3>1 DEF Shrunk
  <2>5. ~Over(is) \/ Cardinality(Present(is)) = turns - (i + 1)
    BY <1>2, <2>1, <2>3
  <2>6. is.evictions >= in.evictions /\ is.evictions \in Nat
    BY <1>2, <2>1, <2>3
  <2> QED BY <2>4, <2>5, <2>6 DEF is
<1> HIDE DEF Good
<1>6. turns \in Good
  BY <1>2, <1>4, <1>5, SetInduction
<1> DEFINE out == after[turns]
<1>7. /\ Shrunk(out, in, now) /\ out.evictions >= in.evictions /\ out.evictions \in Nat
      /\ ~Over(out) \/ Cardinality(Present(out)) = 0
  BY <1>2, <1>6 DEF Good
<1> HIDE DEF out
<1>8. ~Over(out)
  <2>1. Books(out) /\ IsFiniteSet(Present(out))
    BY <1>7 DEF Shrunk, Books
  <2>2. Cardinality(Present(out)) = 0 => Present(out) = {}
    BY <2>1, FS_EmptySet
  <2> QED BY <1>7, <2>1, <2>2, OverIsNotEmpty
<1> QED BY <1>1, <1>7, <1>8 DEF out

-----------------------------------------------------------------------------
(* The callers.                                                            *)

GetCalls == [op : {"get"}, key : Keys, now : Nat, tick : Nat, fill : BOOLEAN]
SetCalls == [op : {"set"}, key : Keys, cost : Nat, expires : Nat \cup {Never}, tick : Nat]
Computing == [op : {"compute"}, key : Keys]

\* It has a tick and waits for the lock.
HasTick(g) == g \in GetCalls \/ g \in SetCalls

\* A tick taken is in nobody else's hands, and not yet in the cache.
TicksInv ==
  /\ \A c \in Callers : HasTick(call[c]) => call[c].tick < ticks /\ Unused(inner, call[c].tick)
  /\ \A c, d \in Callers : HasTick(call[c]) /\ HasTick(call[d]) /\ c # d => call[c].tick # call[d].tick
  /\ \A k \in Present(inner) : inner.entries[k].touched < ticks /\ inner.entries[k].inserted < ticks

CallsInv == call \in [Callers -> GetCalls \cup SetCalls \cup Computing \cup {NoCall}]

CacheInv ==
  /\ Books(inner) /\ ~Over(inner) /\ time \in Nat /\ ticks \in Nat /\ CallsInv /\ TicksInv

LEMMA CallFacts ==
  /\ \A g \in GetCalls : g.op = "get" /\ g.key \in Keys /\ g.tick \in Nat /\ g.now \in Nat
  /\ \A s \in SetCalls : /\ s.op = "set" /\ s.key \in Keys /\ s.tick \in Nat /\ s.cost \in Nat
                         /\ s.expires \in Nat \cup {Never}
  /\ \A p \in Computing : p.op = "compute" /\ ~HasTick(p)
  /\ NoCall.op = "none" /\ ~HasTick(NoCall)
BY DEF GetCalls, SetCalls, Computing, NoCall, HasTick

\* The ticks ts leave the hands of their callers for the cache, or nowhere.
LEMMA TicksMove ==
  ASSUME TicksInv, NEW ts, \A t \in ts : t < ticks, ticks' = ticks,
         \A c \in Callers : HasTick(call'[c]) => call'[c] = call[c] /\ call[c].tick \notin ts,
         \A k \in Present(inner') :
           /\ \/ inner'.entries[k].touched \in ts
              \/ k \in Present(inner) /\ inner'.entries[k].touched = inner.entries[k].touched
           /\ \/ inner'.entries[k].inserted \in ts
              \/ k \in Present(inner) /\ inner'.entries[k].inserted = inner.entries[k].inserted
  PROVE  TicksInv'
<1>1. \A c \in Callers : HasTick(call'[c]) => HasTick(call[c]) /\ call'[c].tick < ticks
  BY DEF TicksInv
<1>2. \A c \in Callers : HasTick(call'[c]) => Unused(inner', call'[c].tick)
  <2> SUFFICES ASSUME NEW c \in Callers, HasTick(call'[c]), NEW k \in Present(inner')
               PROVE  inner'.entries[k].touched # call'[c].tick /\ inner'.entries[k].inserted # call'[c].tick
    BY DEF Unused
  <2>1. Unused(inner, call[c].tick) /\ call'[c] = call[c] /\ call[c].tick \notin ts
    BY <1>1 DEF TicksInv
  <2> QED BY <2>1 DEF Unused
<1>3. \A c, d \in Callers : HasTick(call'[c]) /\ HasTick(call'[d]) /\ c # d => call'[c].tick # call'[d].tick
  BY <1>1 DEF TicksInv
<1>4. \A k \in Present(inner') : inner'.entries[k].touched < ticks' /\ inner'.entries[k].inserted < ticks'
  BY DEF TicksInv
<1> QED BY <1>1, <1>2, <1>3, <1>4 DEF TicksInv

LEMMA NewTick ==
  ASSUME CacheInv, NEW c \in Callers, NEW next, TakeTick(c, next),
         next \in GetCalls \cup SetCalls, next.tick = ticks
  PROVE  CacheInv'
<1>1. /\ inner' = inner /\ time' = time /\ ticks' = ticks + 1 /\ call' = [call EXCEPT ![c] = next]
      /\ ticks \in Nat /\ CallsInv /\ TicksInv
  BY DEF TakeTick, CacheInv
<1>2. CallsInv'
  BY <1>1 DEF CallsInv
<1>3. \A d \in Callers : call'[d] = IF d = c THEN next ELSE call[d]
  BY <1>1 DEF CallsInv
<1>4. \A d \in Callers : HasTick(call[d]) => call[d].tick < ticks /\ call[d].tick \in Nat
  BY <1>1, CallFacts DEF HasTick, TicksInv
<1>5. Unused(inner, ticks)
  BY <1>1 DEF Unused, TicksInv
<1>6. \A k \in Present(inner) : inner.entries[k].touched \in Nat /\ inner.entries[k].inserted \in Nat
  BY PresentFacts DEF CacheInv, EntryRecs
<1>7. \A d \in Callers : HasTick(call'[d]) => call'[d].tick < ticks' /\ Unused(inner', call'[d].tick)
  BY <1>1, <1>3, <1>4, <1>5 DEF TicksInv
<1>8. \A b, d \in Callers : HasTick(call'[b]) /\ HasTick(call'[d]) /\ b # d => call'[b].tick # call'[d].tick
  BY <1>1, <1>3, <1>4 DEF TicksInv
<1>9. \A k \in Present(inner') : inner'.entries[k].touched < ticks' /\ inner'.entries[k].inserted < ticks'
  BY <1>1, <1>6 DEF TicksInv
<1>10. TicksInv'
  BY <1>7, <1>8, <1>9 DEF TicksInv
<1> QED BY <1>1, <1>2, <1>10 DEF CacheInv

\* Fewer entries are not over the bounds.
LEMMA LessIsNotOver ==
  ASSUME NEW in, Books(in), ~Over(in), NEW out, Books(out), Present(out) \subseteq Present(in), out.bytes <= in.bytes
  PROVE  ~Over(out)
<1>1. IsFiniteSet(Present(in)) /\ in.bytes \in Nat /\ out.bytes \in Nat
  BY PresentFacts DEF Books
<1>2. Cardinality(Present(out)) <= Cardinality(Present(in)) /\ IsFiniteSet(Present(out))
  BY <1>1, FS_Subset
<1>3. Cardinality(Present(out)) \in Nat /\ Cardinality(Present(in)) \in Nat
  BY <1>1, <1>2, FS_CardinalityType
<1> QED BY <1>1, <1>2, <1>3, CacheBoundsArePositive DEF Over

LEMMA EmptyIsSound ==
  ASSUME NEW n \in Nat, NEW in, in = [Empty EXCEPT !.evictions = n]
  PROVE  Books(in) /\ ~Over(in) /\ Present(in) = {} /\ in.evictions = n
<1>1. /\ IsInner(in) /\ in.entries = [k \in Keys |-> Absent] /\ in.lru = <<>> /\ in.expiry = <<>>
      /\ in.bytes = 0 /\ in.evictions = n
  BY DEF Empty, IsInner
<1>2. Present(in) = {} /\ IsFiniteSet(Present(in)) /\ Cardinality(Present(in)) = 0
  BY <1>1, FS_EmptySet DEF Present
<1>3. DOMAIN in.lru = {} /\ DOMAIN in.expiry = {} /\ in.lru \in [{} -> {}] /\ in.expiry \in [{} -> {}]
  <2>1. <<>> \in [{} -> {}]
    <3>1. <<>> \in Seq({}) /\ Len(<<>>) = 0 /\ 1..0 = {}
      OBVIOUS
    <3> QED BY <3>1
  <2> QED BY <1>1, <2>1
<1>4. LruBook(in.entries, Present(in), in.lru)
  BY <1>2, <1>3 DEF LruBook
<1>5. ExpiryBook(in.entries, Present(in), in.expiry)
  BY <1>2, <1>3 DEF ExpiryBook
<1>6. in.bytes = CostOf(in.entries, Present(in))
  BY <1>1, <1>2, CostOfNothing
<1>7. in.entries \in [Keys -> {Absent} \cup EntryRecs]
  BY <1>1
<1> QED BY <1>1, <1>2, <1>4, <1>5, <1>6, <1>7, CacheBoundsArePositive DEF Books, Over

LEMMA CacheStarts == CacheInit => CacheInv
<1> SUFFICES ASSUME CacheInit PROVE CacheInv
  OBVIOUS
<1>1. inner = [Empty EXCEPT !.evictions = 0]
  BY DEF CacheInit, Empty
<1>2. Books(inner) /\ ~Over(inner) /\ Present(inner) = {}
  BY <1>1, EmptyIsSound
<1>3. \A c \in Callers : ~HasTick(call[c])
  BY CallFacts DEF CacheInit
<1> QED BY <1>2, <1>3 DEF CacheInit, CacheInv, CallsInv, TicksInv

LEMMA GetKeeps ==
  ASSUME CacheInv, NEW c \in Callers, Get(c)
  PROVE  CacheInv' /\ inner'.evictions = inner.evictions
<1> DEFINE g == call[c]
           e == inner.entries[g.key]
           hit == e # Absent /\ IsLive(e, g.now)
<1>0. Books(inner) /\ ~Over(inner) /\ time \in Nat /\ ticks \in Nat /\ CallsInv /\ TicksInv
  BY DEF CacheInv
<1>1. g \in GetCalls /\ g.key \in Keys /\ g.tick \in Nat /\ HasTick(g)
  BY <1>0, CallFacts DEF Get, CallsInv, HasTick
<1>2. /\ inner' = IF hit THEN TouchEntry(inner, g.key, g.tick) ELSE RemoveEntry(inner, g.key)
      /\ call' = [call EXCEPT ![c] = IF hit \/ ~g.fill THEN NoCall ELSE [op |-> "compute", key |-> g.key]]
      /\ ticks' = ticks /\ time' = time
  BY DEF Get
<1>3. CallsInv'
  BY <1>0, <1>1, <1>2 DEF CallsInv, Computing
<1>4. /\ g.tick < ticks /\ Unused(inner, g.tick)
      /\ \A d \in Callers : HasTick(call'[d]) => call'[d] = call[d] /\ call[d].tick \notin {g.tick}
  <2>1. ~HasTick(call'[c])
    <3>1. call'[c] = NoCall \/ call'[c] \in Computing
      BY <1>0, <1>1, <1>2 DEF CallsInv, Computing
    <3> QED BY <3>1, CallFacts
  <2>2. \A d \in Callers \ {c} : call'[d] = call[d]
    BY <1>0, <1>2 DEF CallsInv
  <2> QED BY <1>0, <1>1, <2>1, <2>2 DEF TicksInv
<1>5. CASE hit
  <2>1. g.key \in Present(inner) /\ inner' = TouchEntry(inner, g.key, g.tick)
    BY <1>1, <1>2, <1>5 DEF Present
  <2> HIDE DEF g, e, hit
  <2>2. /\ Books(inner') /\ Present(inner') = Present(inner) /\ inner'.evictions = inner.evictions
        /\ inner'.bytes = inner.bytes
        /\ \A j \in Present(inner) \ {g.key} : inner'.entries[j] = inner.entries[j]
        /\ inner'.entries[g.key].touched = g.tick
        /\ inner'.entries[g.key].inserted = inner.entries[g.key].inserted
    BY <1>0, <1>1, <1>4, <2>1, TouchKeeps
  <2>3. ~Over(inner')
    BY <1>0, <2>2 DEF Over
  <2>4. TicksInv'
    BY <1>0, <1>2, <1>4, <2>2, TicksMove
  <2> QED BY <1>0, <1>2, <1>3, <2>2, <2>3, <2>4 DEF CacheInv
<1>6. CASE ~hit
  <2>1. inner' = RemoveEntry(inner, g.key)
    BY <1>2, <1>6
  <2> HIDE DEF g, e, hit
  <2>2. /\ Books(inner') /\ Present(inner') = Present(inner) \ {g.key} /\ inner'.evictions = inner.evictions
        /\ inner'.bytes <= inner.bytes /\ \A j \in Present(inner') : inner'.entries[j] = inner.entries[j]
    BY <1>0, <1>1, <2>1, RemoveKeeps
  <2>3. ~Over(inner')
    BY <1>0, <2>2, LessIsNotOver
  <2>4. TicksInv'
    BY <1>0, <1>2, <1>4, <2>2, TicksMove
  <2> QED BY <1>0, <1>2, <1>3, <2>2, <2>3, <2>4 DEF CacheInv
<1> QED BY <1>5, <1>6

LEMMA SetKeeps ==
  ASSUME CacheInv, NEW c \in Callers, Set(c)
  PROVE  CacheInv' /\ (inner'.evictions > inner.evictions => AllAlive(inner', time))
<1> DEFINE s == call[c]
           more == InsertEntry(inner, s.key, s.cost, s.expires, s.tick)
<1>0. Books(inner) /\ ~Over(inner) /\ time \in Nat /\ ticks \in Nat /\ CallsInv /\ TicksInv
  BY DEF CacheInv
<1>1. /\ s \in SetCalls /\ s.key \in Keys /\ s.tick \in Nat /\ s.cost \in Nat /\ s.expires \in Nat \cup {Never}
      /\ HasTick(s)
  BY <1>0, CallFacts DEF Set, CallsInv, HasTick
<1>2. inner' = Evict(more, time) /\ call' = [call EXCEPT ![c] = NoCall] /\ ticks' = ticks /\ time' = time
  BY DEF Set
<1>3. CallsInv'
  BY <1>0, <1>2 DEF CallsInv
<1>4. /\ s.tick < ticks /\ Unused(inner, s.tick)
      /\ \A d \in Callers : HasTick(call'[d]) => call'[d] = call[d] /\ call[d].tick \notin {s.tick}
  BY <1>0, <1>1, <1>2, CallFacts DEF TicksInv, CallsInv
<1>5. /\ Books(more) /\ Present(more) = Present(inner) \cup {s.key} /\ more.evictions = inner.evictions
      /\ \A j \in Present(inner) \ {s.key} : more.entries[j] = inner.entries[j]
      /\ more.entries[s.key].touched = s.tick /\ more.entries[s.key].inserted = s.tick
  <2> DEFINE k == s.key
             cost == s.cost
             expires == s.expires
             tick == s.tick
  <2>1. Books(inner) /\ k \in Keys /\ cost \in Nat /\ expires \in Nat \cup {Never} /\ tick \in Nat /\ Unused(inner, tick)
    BY <1>0, <1>1, <1>4
  <2> HIDE DEF s, k, cost, expires, tick
  <2>2. Grown(InsertEntry(inner, k, cost, expires, tick), inner, k, tick)
    BY <2>1, InsertKeeps
  <2> QED BY <2>2 DEF Grown, k, cost, expires, tick
<1> HIDE DEF more, s
<1>6. Shrunk(inner', more, time) /\ ~Over(inner')
  BY <1>0, <1>2, <1>5, EvictKeeps
<1>7. \A k \in Present(inner') : /\ k \in Present(inner) \cup {s.key} /\ inner'.entries[k] = more.entries[k]
  BY <1>5, <1>6 DEF Shrunk
<1>8. TicksInv'
  <2>1. \A k \in Present(inner') :
          /\ \/ inner'.entries[k].touched \in {s.tick}
             \/ k \in Present(inner) /\ inner'.entries[k].touched = inner.entries[k].touched
          /\ \/ inner'.entries[k].inserted \in {s.tick}
             \/ k \in Present(inner) /\ inner'.entries[k].inserted = inner.entries[k].inserted
    BY <1>5, <1>7
  <2> QED BY <1>0, <1>2, <1>4, <2>1, TicksMove
<1>9. Books(inner') /\ (inner'.evictions = inner.evictions \/ AllAlive(inner', time))
  BY <1>5, <1>6 DEF Shrunk
<1>10. inner.evictions \in Nat
  BY <1>0 DEF Books
<1> QED BY <1>0, <1>2, <1>3, <1>6, <1>8, <1>9, <1>10 DEF CacheInv

LEMMA TakenOutKeeps ==
  ASSUME CacheInv, NEW c \in Callers, (\E k \in Keys : Delete(c, k)) \/ Clear(c) \/ ComputeNothing(c)
  PROVE  CacheInv' /\ inner'.evictions = inner.evictions
<1>0. Books(inner) /\ ~Over(inner) /\ time \in Nat /\ ticks \in Nat /\ CallsInv /\ TicksInv /\ inner.evictions \in Nat
  BY DEF CacheInv, Books
<1>1. ticks' = ticks /\ time' = time /\ CallsInv' /\ \A d \in Callers : HasTick(call'[d]) => call'[d] = call[d]
  <2>1. ticks' = ticks /\ time' = time /\ (call' = call \/ call' = [call EXCEPT ![c] = NoCall])
    BY DEF Delete, Clear, ComputeNothing
  <2> QED BY <1>0, <2>1, CallFacts DEF CallsInv
<1>2. /\ Books(inner') /\ ~Over(inner') /\ inner'.evictions = inner.evictions
      /\ Present(inner') \subseteq Present(inner) /\ \A j \in Present(inner') : inner'.entries[j] = inner.entries[j]
  <2>1. CASE \E k \in Keys : Delete(c, k)
    <3>0. PICK k \in Keys : Delete(c, k)
      BY <2>1
    <3>1. inner' = RemoveEntry(inner, k)
      BY <3>0 DEF Delete
    <3>2. /\ Books(inner') /\ Present(inner') = Present(inner) \ {k} /\ inner'.evictions = inner.evictions
          /\ inner'.bytes <= inner.bytes /\ \A j \in Present(inner') : inner'.entries[j] = inner.entries[j]
      BY <1>0, <3>1, RemoveKeeps
    <3> QED BY <1>0, <3>2, LessIsNotOver
  <2>2. CASE Clear(c)
    <3>1. inner' = [Empty EXCEPT !.evictions = inner.evictions]
      BY <2>2 DEF Clear
    <3> QED BY <1>0, <3>1, EmptyIsSound
  <2>3. CASE ComputeNothing(c)
    BY <1>0, <2>3 DEF ComputeNothing
  <2> QED BY <2>1, <2>2, <2>3
<1>3. TicksInv'
  <2> DEFINE none == {}
  <2>1. \A d \in Callers : HasTick(call'[d]) => call'[d] = call[d] /\ call[d].tick \notin none
    BY <1>1
  <2>2. \A t \in none : t < ticks
    OBVIOUS
  <2> HIDE DEF none
  <2>3. \A j \in Present(inner') :
          /\ \/ inner'.entries[j].touched \in none
             \/ j \in Present(inner) /\ inner'.entries[j].touched = inner.entries[j].touched
          /\ \/ inner'.entries[j].inserted \in none
             \/ j \in Present(inner) /\ inner'.entries[j].inserted = inner.entries[j].inserted
    BY <1>2
  <2> QED BY <1>0, <1>1, <2>1, <2>2, <2>3, TicksMove
<1> QED BY <1>0, <1>1, <1>2, <1>3 DEF CacheInv

LEMMA CacheSteps ==
  ASSUME CacheInv, [CacheNext]_cacheVars
  PROVE  CacheInv' /\ (inner'.evictions > inner.evictions => AllAlive(inner', time))
<1>0. inner.evictions \in Nat /\ time \in Nat /\ ticks \in Nat
  BY DEF CacheInv, Books
<1> SUFFICES CacheInv' /\ (inner'.evictions = inner.evictions \/ (inner'.evictions > inner.evictions => AllAlive(inner', time)))
  BY <1>0
<1>1. CASE UNCHANGED cacheVars
  BY <1>1 DEF cacheVars, CacheInv, CallsInv, TicksInv
<1>2. ASSUME NEW c \in Callers, NEW k \in Keys, NEW fill \in BOOLEAN, StartGet(c, k, fill)
      PROVE  CacheInv' /\ inner' = inner
  <2> DEFINE next == [op |-> "get", key |-> k, now |-> time, tick |-> ticks, fill |-> fill]
  <2>1. next \in GetCalls /\ next.tick = ticks /\ TakeTick(c, next)
    BY <1>0, <1>2 DEF GetCalls, StartGet
  <2> HIDE DEF next
  <2> QED BY <2>1, NewTick DEF TakeTick
<1>3. ASSUME NEW c \in Callers, NEW k \in Keys, NEW cost \in Costs, NEW ttl \in Ttls, StartSet(c, k, cost, ttl)
      PROVE  CacheInv' /\ inner' = inner
  <2> DEFINE next == [op |-> "set", key |-> k, cost |-> cost, expires |-> ExpiresAt(ttl), tick |-> ticks]
  <2>0. ExpiresAt(ttl) \in Nat \cup {Never} /\ cost \in Nat
    BY <1>0, CostsAreNatural DEF ExpiresAt
  <2>1. next \in SetCalls /\ next.tick = ticks /\ TakeTick(c, next)
    BY <1>0, <1>3, <2>0 DEF SetCalls, StartSet
  <2> HIDE DEF next
  <2> QED BY <2>1, NewTick DEF TakeTick
<1>4. ASSUME NEW c \in Callers, Get(c) PROVE CacheInv' /\ inner'.evictions = inner.evictions
  BY <1>4, GetKeeps
<1>5. ASSUME NEW c \in Callers, Set(c) PROVE CacheInv' /\ (inner'.evictions > inner.evictions => AllAlive(inner', time))
  BY <1>5, SetKeeps
<1>6. ASSUME NEW c \in Callers, NEW k \in Keys, Delete(c, k) PROVE CacheInv' /\ inner'.evictions = inner.evictions
  BY <1>6, TakenOutKeeps
<1>7. ASSUME NEW c \in Callers, Clear(c) \/ ComputeNothing(c) PROVE CacheInv' /\ inner'.evictions = inner.evictions
  BY <1>7, TakenOutKeeps
<1>8. CASE TimePasses
  <2>1. inner' = inner /\ ticks' = ticks /\ call' = call /\ time' \in Nat
    BY <1>0, <1>8 DEF TimePasses
  <2> QED BY <2>1 DEF CacheInv, CallsInv, TicksInv
<1> QED BY <1>1, <1>2, <1>3, <1>4, <1>5, <1>6, <1>7, <1>8 DEF CacheNext

LEMMA CacheInvHolds == CacheSpec => []CacheInv
<1>1. CacheInv /\ [CacheNext]_cacheVars => CacheInv'
  BY CacheSteps
<1> QED BY <1>1, CacheStarts, PTL DEF CacheSpec

LEMMA SoundBooks == CacheInv => CacheSound
<1> SUFFICES ASSUME CacheInv PROVE CacheSound
  OBVIOUS
<1> DEFINE P == Present(inner)
           es == inner.entries
<1>0. /\ LruBook(es, P, inner.lru) /\ ExpiryBook(es, P, inner.expiry) /\ inner.bytes = CostOf(es, P)
      /\ ~Over(inner) /\ IsFiniteSet(P) /\ inner.bytes \in Nat
  BY PresentFacts DEF CacheInv, Books
<1>1. IsInjective(inner.lru) /\ IsInjective(inner.expiry)
  BY <1>0 DEF LruBook, ExpiryBook, IsInjective
<1>2. DOMAIN inner.expiry = {<<es[k].expires, es[k].inserted>> : k \in {j \in P : es[j].expires # Never}}
  <2>1. \A x \in DOMAIN inner.expiry : inner.expiry[x] \in P
    BY <1>0 DEF ExpiryBook
  <2> HIDE DEF P, es
  <2> QED BY <1>0, <2>1 DEF ExpiryBook, DueAt
<1>3. IndexesAgree
  BY <1>0, <1>1, <1>2 DEF IndexesAgree, LruBook, ExpiryBook, CostOf
<1>4. Cardinality(P) \in Nat
  BY <1>0, FS_CardinalityType
<1>5. WithinBounds
  BY <1>0, <1>4, CacheBoundsArePositive DEF WithinBounds, Over
<1> QED BY <1>3, <1>5 DEF CacheSound

\* Whatever the number of callers, keys and bounds, and in whatever order the ticks
\* reach the lock, the map, both indexes and the byte count of cache.rs agree whenever
\* the lock is free, and the cache is within max_entries and max_bytes.
THEOREM CacheStaysSound == CacheSpec => []CacheSound
BY CacheInvHolds, SoundBooks, PTL

\* An eviction by set_raw() takes a live entry only when no expired one is left.
THEOREM DeadWeightGoesFirst == CacheSpec => ExpiredGoFirst
<1>1. CacheInv /\ [CacheNext]_cacheVars =>
        [inner'.evictions > inner.evictions =>
           \A k \in Present(inner') : IsLive(inner'.entries[k], time)]_cacheVars
  BY CacheSteps DEF AllAlive
<1> QED BY <1>1, CacheInvHolds, PTL DEF CacheSpec, ExpiredGoFirst

-----------------------------------------------------------------------------
(* A test run.                                                             *)
(*                                                                         *)
(* Within a file the run only goes forward.  A test that ran has every one *)
(* of its groups opened, unless a cut left an outer one failed; so a test  *)
(* whose setup is fine has it all.  What is cached under a moved clock is  *)
(* gone when the test that moved it is over, for the clock remembers that  *)
(* it was touched.                                                         *)

TestRecords == [kind : STRING, broken : BOOLEAN, matches : BOOLEAN, groups : Seq(STRING)]
CacheMarks == {"moved", "real"}
Blank == {"load", "top", "over"}
RunSteps == Blank \cup {"next", "open", "before_all", "before", "body", "after", "close", "after_all"}

IsRun(r) ==
  /\ DOMAIN r = {"mode", "file", "at", "step", "group", "ok", "isolate", "poisoned", "fileErr", "stopped"}
  /\ r.mode \in Modes /\ r.file \in Nat /\ r.at \in Nat /\ r.step \in RunSteps /\ r.group \in Nat
  /\ r.ok \in BOOLEAN /\ r.isolate \in BOOLEAN /\ r.poisoned \in BOOLEAN /\ r.fileErr \in BOOLEAN /\ r.stopped \in BOOLEAN

IsWorld(w) ==
  /\ DOMAIN w = {"moved", "touched", "doubles", "cache", "db", "locked", "job"}
  /\ w.moved \in BOOLEAN /\ w.touched \in BOOLEAN /\ w.doubles \in BOOLEAN /\ w.cache \in SUBSET CacheMarks
  /\ w.db \in {"snapshot", "changed"} /\ w.locked \in BOOLEAN /\ w.job \in BOOLEAN

IsHistory(h) ==
  /\ DOMAIN h = {"deeds", "began", "tops", "opened", "closed", "bad", "ran", "cut", "late"}
  /\ h.deeds \in Nat /\ h.began \in SUBSET CacheMarks /\ h.tops \in SUBSET CacheMarks
  /\ h.bad \in SUBSET Nat /\ h.ran \in SUBSET Nat /\ h.cut \in BOOLEAN /\ h.late \in BOOLEAN

Statuses == {"passed", "failed", "filtered", "todo", "skipped", "not run"}
Sayings == [test : Nat, status : Statuses]

TestTypeOK ==
  /\ IsRun(run) /\ IsWorld(world) /\ IsHistory(history)
  /\ DOMAIN groups = {"started", "failed"}
  /\ verdicts \in Seq(Sayings)

\* The tests of a suite that are run, and the groups around one.
Running(T) == {i \in DOMAIN T : StatusOf(T, i) = "run"}
Around(T, i) == T[i].groups

\* Where the run is in its file.
PlaceInv ==
  /\ run.at <= Len(Tests)
  /\ run.step \in Blank => /\ run.at = 0 /\ groups.started = {} /\ groups.failed = {} /\ history.opened = {}
                           /\ history.closed = {} /\ history.bad = {} /\ history.ran = {} /\ ~run.stopped /\ ~run.poisoned
  /\ run.step = "top" => verdicts = <<>>
  /\ run.step = "next" => Len(verdicts) = run.at
  /\ InTest => run.at \in Running(Tests) /\ Len(verdicts) = run.at - 1 /\ ~run.stopped /\ ~run.poisoned
  /\ run.step \in {"open", "before_all"} => run.group >= 1
  /\ run.step \in {"before_all", "after_all", "close"} => run.group <= Len(Around(Tests, run.at))
  /\ run.step = "after_all" => run.group >= 1
  /\ run.poisoned => history.cut

SharedInv ==
  /\ world.moved => world.touched
  /\ run.step = "load" => world.cache = {}
  /\ run.step = "top" /\ history.deeds = 0 => world.cache = {} /\ ~world.moved /\ ~world.doubles
  /\ run.step = "next" /\ "moved" \in world.cache => "moved" \in history.tops
  /\ InTest /\ "moved" \in history.began => "moved" \in history.tops
  /\ InTest /\ "moved" \in world.cache => world.touched \/ "moved" \in history.tops
  /\ (run.step = "next" /\ run.isolate /\ ~history.late /\ run.at > 0 /\ verdicts[run.at].status = "passed")
     => world.db = "snapshot"

\* The test's k-th group was opened, or an outer one failed in a call that was cut.
Met(T, j, k) ==
  \/ Around(T, j)[k] \in groups.started
  \/ history.cut /\ \E m \in 1..(k - 1) : Around(T, j)[m] \in groups.failed

\* The tests whose groups were all looked at.
Looked(j) == j < run.at \/ (j = run.at /\ run.step \in {"next", "before", "body", "after", "close", "after_all"})

GroupInv ==
  /\ groups.failed \subseteq groups.started /\ groups.started = history.opened
  /\ \A g \in groups.started : \E j \in Running(Tests) : j <= run.at /\ g \in ToSet(Around(Tests, j))
  /\ ~run.stopped /\ ~run.poisoned =>
       \A j \in Running(Tests) : Looked(j) => \A k \in DOMAIN Around(Tests, j) : Met(Tests, j, k)
  /\ run.step \in {"open", "before_all"} =>
       \A k \in DOMAIN Around(Tests, run.at) : k < run.group =>
         /\ Met(Tests, run.at, k)
         /\ run.ok => Around(Tests, run.at)[k] \in groups.started \ groups.failed
  /\ run.step = "before_all" =>
       /\ Around(Tests, run.at)[run.group] \in groups.failed
       /\ \A j \in Running(Tests) : j < run.at => Around(Tests, run.at)[run.group] \notin ToSet(Around(Tests, j))
  /\ run.step \in {"before", "body"} => ToSet(Around(Tests, run.at)) \subseteq groups.started \ groups.failed

\* The tests that are over.
Past(j) == j < run.at \/ (j = run.at /\ run.step = "next")

CloseInv ==
  /\ \A g \in history.closed : \A i \in RunsIn(Tests, g) : i <= run.at
  /\ ~history.cut => history.closed \subseteq history.opened
  /\ ~history.cut /\ ~run.stopped =>
       \A j \in Running(Tests) : Past(j) => \A k \in DOMAIN Around(Tests, j) :
         LastOf(Tests, Around(Tests, j)[k]) = j => Around(Tests, j)[k] \in history.closed
  /\ ~history.cut /\ run.step \in {"close", "after_all"} =>
       \A k \in DOMAIN Around(Tests, run.at) :
         (k > run.group \/ (k = run.group /\ run.step = "after_all")) /\ LastOf(Tests, Around(Tests, run.at)[k]) = run.at
         => Around(Tests, run.at)[k] \in history.closed

SaidInv ==
  /\ \A i \in history.bad \cup history.ran : i <= run.at /\ i # 0
  /\ \A i \in history.ran : ToSet(Around(Tests, i)) \subseteq history.opened
  /\ run.step \notin {"load", "over"} => \A n \in DOMAIN verdicts :
       /\ verdicts[n].test = n
       /\ verdicts[n].status = "passed" => n \in history.ran /\ n \notin history.bad
       /\ n \in history.bad => verdicts[n].status = "failed"
  /\ run.step \in {"before_all", "before", "body"} /\ run.ok => run.at \notin history.bad
  /\ run.step \in {"before", "body"} => run.ok
  /\ run.step = "open" /\ run.ok /\ run.at \in history.bad =>
       run.group <= Len(Around(Tests, run.at)) /\ Around(Tests, run.at)[run.group] \in groups.failed
  /\ run.step \in {"after", "close", "after_all"} /\ run.ok => run.at \in history.ran /\ run.at \notin history.bad

TestInv == TestTypeOK /\ PlaceInv /\ SharedInv /\ GroupInv /\ CloseInv /\ SaidInv

-----------------------------------------------------------------------------

Tree(T) ==
  \A i, j \in DOMAIN T : \A k \in DOMAIN Around(T, i), m \in DOMAIN Around(T, j) :
    Around(T, i)[k] = Around(T, j)[m] => k = m /\ \A n \in 1..k : Around(T, i)[n] = Around(T, j)[n]

LEMMA SuiteFacts ==
  /\ Tests \in Seq(TestRecords) /\ Tree(Tests) /\ Len(Tests) \in Nat /\ DOMAIN Tests = 1..Len(Tests)
  /\ \A i \in DOMAIN Tests : /\ Around(Tests, i) \in Seq(STRING) /\ Len(Around(Tests, i)) \in Nat
                             /\ DOMAIN Around(Tests, i) = 1..Len(Around(Tests, i))
<1>1. Tests \in Seq(TestRecords)
  <2>1. CASE run.file \in DOMAIN TestFiles
    BY <2>1, SuitesAreTrees DEF Tests, TestRecords
  <2>2. CASE run.file \notin DOMAIN TestFiles
    BY <2>2 DEF Tests
  <2> QED BY <2>1, <2>2
<1>2. Tree(Tests)
  <2>1. CASE run.file \in DOMAIN TestFiles
    <3>1. Tests = TestFiles[run.file]
      BY <2>1 DEF Tests
    <3>2. Tree(TestFiles[run.file])
      BY <2>1, SuitesAreTrees, Zenon DEF Tree, Around
    <3> QED BY <3>1, <3>2
  <2>2. CASE run.file \notin DOMAIN TestFiles
    <3>1. DOMAIN Tests = {}
      BY <2>2 DEF Tests
    <3> QED BY <3>1 DEF Tree
  <2> QED BY <2>1, <2>2
<1>3. \A i \in DOMAIN Tests : Around(Tests, i) \in Seq(STRING)
  <2>1. \A i \in DOMAIN Tests : Tests[i] \in TestRecords
    BY <1>1
  <2> QED BY <2>1 DEF Around, TestRecords
<1> QED BY <1>1, <1>2, <1>3

\* A group with a test that runs has a first and a last one.
LEMMA EndsFacts ==
  ASSUME NEW T \in Seq(TestRecords), NEW i \in Running(T), NEW g \in ToSet(Around(T, i))
  PROVE  /\ i \in RunsIn(T, g) /\ RunsIn(T, g) \subseteq Running(T) /\ Running(T) \subseteq DOMAIN T
         /\ FirstOf(T, g) \in RunsIn(T, g) /\ \A j \in RunsIn(T, g) : FirstOf(T, g) <= j
         /\ LastOf(T, g) \in RunsIn(T, g) /\ \A j \in RunsIn(T, g) : j <= LastOf(T, g)
<1>1. i \in RunsIn(T, g) /\ RunsIn(T, g) \subseteq Running(T) /\ Running(T) \subseteq DOMAIN T
  BY DEF RunsIn, Running, Around
<1>2. RunsIn(T, g) \in SUBSET Nat /\ \A j \in RunsIn(T, g) : j \in 1..Len(T)
  BY <1>1
<1>3. \E n \in RunsIn(T, g) : \A j \in RunsIn(T, g) : n <= j
  BY <1>1, <1>2, LeastNatural
<1>4. \E n \in RunsIn(T, g) : \A j \in RunsIn(T, g) : j <= n
  <2> DEFINE S == {Len(T) - j : j \in RunsIn(T, g)}
  <2>1. S \in SUBSET Nat /\ S # {} /\ Len(T) \in Nat
    BY <1>1, <1>2
  <2>2. PICK n \in S : \A m \in S : n <= m
    BY <2>1, LeastNatural
  <2>3. PICK j \in RunsIn(T, g) : n = Len(T) - j
    BY <2>2
  <2>4. \A m \in RunsIn(T, g) : m <= j
    <3> SUFFICES ASSUME NEW m \in RunsIn(T, g) PROVE m <= j
      OBVIOUS
    <3>1. Len(T) - m \in S
      OBVIOUS
    <3>2. n <= Len(T) - m
      BY <2>2, <3>1
    <3> QED BY <1>2, <2>1, <2>3, <3>2
  <2> QED BY <2>4
<1>5. FirstOf(T, g) \in RunsIn(T, g) /\ \A j \in RunsIn(T, g) : FirstOf(T, g) <= j
  BY <1>3 DEF FirstOf
<1>6. LastOf(T, g) \in RunsIn(T, g) /\ \A j \in RunsIn(T, g) : j <= LastOf(T, g)
  BY <1>4 DEF LastOf
<1> QED BY <1>1, <1>5, <1>6

LEMMA StepFacts ==
  /\ InTest <=> run.step \in {"open", "before_all", "before", "body", "after", "close", "after_all"}
  /\ run.step \in ScriptSteps <=> run.step \in {"top", "before_all", "before", "body", "after", "after_all"}
  /\ TestTypeOK => InTest \/ run.step \in Blank \/ run.step = "next"
BY DEF InTest, ScriptSteps, TestTypeOK, IsRun, RunSteps, Blank

\* A step that moves neither the run nor its books.
LEMMA QuietKeeps ==
  ASSUME TestInv, TestTypeOK', SharedInv', UNCHANGED <<groups, verdicts>>,
         run'.file = run.file, run'.at = run.at, run'.step = run.step, run'.group = run.group, run'.ok = run.ok,
         run'.poisoned = run.poisoned, run'.stopped = run.stopped,
         history'.opened = history.opened, history'.closed = history.closed, history'.bad = history.bad,
         history'.ran = history.ran, history'.cut = history.cut
  PROVE  TestInv'
<1>1. Tests' = Tests
  BY DEF Tests
<1>2. (InTest' <=> InTest) /\ \A j : (Looked(j)' <=> Looked(j)) /\ (Past(j)' <=> Past(j))
  BY DEF InTest, Looked, Past
<1>3. \A j, k : (Met(Tests, j, k)' <=> Met(Tests, j, k))
  BY <1>1 DEF Met
<1>4. PlaceInv'
  BY <1>1, <1>2 DEF TestInv, PlaceInv
<1>5. GroupInv'
  BY <1>1, <1>2, <1>3 DEF TestInv, GroupInv
<1>6. CloseInv'
  BY <1>1, <1>2 DEF TestInv, CloseInv
<1>7. SaidInv'
  BY <1>1, <1>2 DEF TestInv, SaidInv
<1> QED BY <1>4, <1>5, <1>6, <1>7 DEF TestInv

\* Between files nothing is on the books.
LEMMA BlankKeeps ==
  ASSUME IsRun(run'), run'.at = 0, run'.step \in Blank, ~run'.stopped, ~run'.poisoned,
         IsWorld(world'), groups' = NoGroups, history' = NoHistory, verdicts' \in Seq(Sayings), SharedInv',
         run'.step = "top" => verdicts' = <<>>
  PROVE  TestInv'
<1>2. /\ IsHistory(history') /\ history'.opened = {} /\ history'.closed = {} /\ history'.bad = {} /\ history'.ran = {}
      /\ history'.cut = FALSE /\ groups'.started = {} /\ groups'.failed = {} /\ DOMAIN groups' = {"started", "failed"}
  BY DEF NoHistory, NoGroups, IsHistory
<1>3. TestTypeOK'
  BY <1>2 DEF TestTypeOK
<1>4. run'.step \notin {"next", "open", "before_all", "before", "body", "after", "close", "after_all"} /\ ~InTest'
  BY DEF Blank, InTest, ScriptSteps
<1>5. (Len(Tests) \in Nat /\ DOMAIN Tests = 1..Len(Tests))'
  BY SuiteFacts, PTL
<1>6. \A j \in Running(Tests)' : j \in Nat /\ j # 0
  BY <1>5 DEF Running
<1>7. PlaceInv'
  BY <1>2, <1>4, <1>5 DEF PlaceInv
<1>8. GroupInv'
  BY <1>2, <1>4, <1>6 DEF GroupInv, Looked
<1>9. CloseInv'
  BY <1>2, <1>4, <1>6 DEF CloseInv, Past
<1>10. SaidInv'
  BY <1>2, <1>4 DEF SaidInv, Blank
<1> QED BY <1>3, <1>7, <1>8, <1>9, <1>10 DEF TestInv

LEMMA SaysFacts ==
  /\ \A i \in Nat, s \in Statuses : Says(i, s) \in Sayings /\ Says(i, s).test = i /\ Says(i, s).status = s
  /\ \A v \in Sayings : <<v>> \in Seq(Sayings)
BY DEF Says, Sayings

LEMMA PristineFacts ==
  /\ IsWorld(Pristine) /\ Pristine.moved = FALSE /\ Pristine.cache = {}
  /\ \A mode \in Modes, file \in Nat : LET r == AtRest(mode, file) IN
       IsRun(r) /\ r.at = 0 /\ r.step = "load" /\ r.stopped = FALSE /\ r.poisoned = FALSE
BY DEF Pristine, IsWorld, AtRest, IsRun, RunSteps, Blank

LEMMA WorldFacts ==
  ASSUME NEW w, IsWorld(w)
  PROVE  /\ LET f == Freshened(w) IN
              /\ IsWorld(f) /\ f.moved = FALSE /\ f.doubles = FALSE /\ f.cache = w.cache /\ f.touched = w.touched
              /\ f.db = w.db
         /\ LET f == FileFinished(w) IN IsWorld(f) /\ f.moved = FALSE /\ f.cache = {}
         /\ LET f == Settled(w) IN
              /\ IsWorld(f) /\ f.moved = FALSE /\ f.db = w.db
              /\ f.cache = IF w.touched THEN {} ELSE w.cache
         /\ LET f == Restored(w) IN
              /\ IsWorld(f) /\ f.moved = w.moved /\ f.cache = w.cache /\ f.touched = w.touched
              /\ Restorable(w) => f.db = "snapshot"
<1>1. LET f == Freshened(w) IN
              /\ IsWorld(f) /\ f.moved = FALSE /\ f.doubles = FALSE /\ f.cache = w.cache /\ f.touched = w.touched
              /\ f.db = w.db
  BY DEF Freshened, IsWorld
<1>2. LET f == FileFinished(w) IN IsWorld(f) /\ f.moved = FALSE /\ f.cache = {}
  BY DEF FileFinished, IsWorld
<1>3. LET f == Settled(w) IN
              /\ IsWorld(f) /\ f.moved = FALSE /\ f.db = w.db
              /\ f.cache = IF w.touched THEN {} ELSE w.cache
  BY DEF Settled, IsWorld
<1>4. LET f == Restored(w) IN
              /\ IsWorld(f) /\ f.moved = w.moved /\ f.cache = w.cache /\ f.touched = w.touched
              /\ Restorable(w) => f.db = "snapshot"
  BY DEF Restored, IsWorld
<1> QED BY <1>1, <1>2, <1>3, <1>4

LEMMA AfterFileFacts ==
  ASSUME IsRun(run), NEW reports
  PROVE  LET r == AfterFile(reports) IN
           IsRun(r) /\ r.at = 0 /\ r.step \in {"load", "over"} /\ r.stopped = FALSE /\ r.poisoned = FALSE
<1> DEFINE r == AtRest(run.mode, run.file)
           s == AtRest(run.mode, run.file + 1)
           o == [r EXCEPT !.step = "over"]
<1>1. run.mode \in Modes /\ run.file \in Nat /\ run.file + 1 \in Nat
  BY DEF IsRun
<1>2. IsRun(r) /\ r.at = 0 /\ r.stopped = FALSE /\ r.poisoned = FALSE
  BY <1>1, PristineFacts
<1>3. IsRun(s) /\ s.at = 0 /\ s.step = "load" /\ s.stopped = FALSE /\ s.poisoned = FALSE
  BY <1>1, PristineFacts
<1>4. AfterFile(reports) \in {o, s}
  BY DEF AfterFile
<1> HIDE DEF r, s
<1>5. IsRun(o) /\ o.at = 0 /\ o.step = "over" /\ o.stopped = FALSE /\ o.poisoned = FALSE
  BY <1>2 DEF IsRun, RunSteps, Blank
<1> QED BY <1>3, <1>4, <1>5

LEMMA EndFileKeeps ==
  ASSUME IsRun(run), NEW reports \in Seq(Sayings), NEW w, IsWorld(w), EndFile(reports, w)
  PROVE  TestInv'
<1>1. /\ IsRun(run') /\ run'.at = 0 /\ run'.step \in {"load", "over"} /\ run'.stopped = FALSE /\ run'.poisoned = FALSE
  BY AfterFileFacts DEF EndFile
<1>2. IsWorld(world') /\ world'.moved = FALSE /\ world'.cache = {}
  BY WorldFacts DEF EndFile
<1>3. ~InTest'
  BY <1>1 DEF InTest, ScriptSteps
<1>4. SharedInv'
  BY <1>1, <1>2, <1>3 DEF SharedInv
<1> QED BY <1>1, <1>2, <1>4, BlankKeeps DEF EndFile, Blank

LEMMA LoadKeeps ==
  ASSUME TestInv, LoadFile
  PROVE  TestInv'
<1>1. /\ run.step = "load" /\ run' = [run EXCEPT !.step = "top"] /\ world' = Freshened(world) /\ groups' = NoGroups
      /\ history' = NoHistory /\ verdicts' = <<>>
  BY DEF LoadFile
<1>2. IsRun(run) /\ IsWorld(world) /\ run.at = 0 /\ ~run.stopped /\ ~run.poisoned /\ world.cache = {}
  BY <1>1 DEF TestInv, TestTypeOK, PlaceInv, Blank, SharedInv
<1>3. IsRun(run') /\ run'.at = 0 /\ run'.step = "top" /\ ~run'.stopped /\ ~run'.poisoned
  BY <1>1, <1>2 DEF IsRun, RunSteps, Blank
<1>4. IsWorld(world') /\ world'.moved = FALSE /\ world'.doubles = FALSE /\ world'.cache = {}
  BY <1>1, <1>2, WorldFacts
<1>5. SharedInv'
  BY <1>3, <1>4 DEF SharedInv, InTest, ScriptSteps
<1> QED BY <1>1, <1>3, <1>4, <1>5, BlankKeeps DEF Blank

LEMMA NoCompileKeeps ==
  ASSUME TestInv, FileDoesNotCompile
  PROVE  TestInv'
<1>1. /\ run.step = "load" /\ run' = AfterFile(verdicts') /\ verdicts' = <<Says(0, "failed")>> /\ groups' = NoGroups
      /\ history' = NoHistory /\ world' = world
  BY DEF FileDoesNotCompile
<1>2. IsRun(run) /\ IsWorld(world) /\ world.cache = {} /\ (world.moved => world.touched)
  BY <1>1 DEF TestInv, TestTypeOK, SharedInv
<1>3. IsRun(run') /\ run'.at = 0 /\ run'.step \in {"load", "over"} /\ run'.stopped = FALSE /\ run'.poisoned = FALSE
  BY <1>1, <1>2, AfterFileFacts
<1>4. SharedInv'
  BY <1>1, <1>2, <1>3 DEF SharedInv, InTest, ScriptSteps
<1>5. verdicts' \in Seq(Sayings)
  <2>1. Says(0, "failed") \in Sayings
    BY SaysFacts DEF Statuses
  <2> QED BY <1>1, <2>1, SaysFacts
<1> QED BY <1>1, <1>2, <1>3, <1>4, <1>5, BlankKeeps DEF Blank

LEMMA DoneKeeps ==
  ASSUME TestInv, AllTestsDone
  PROVE  TestInv'
<1> DEFINE reports == IF run.fileErr THEN Append(verdicts, Says(0, "failed")) ELSE verdicts
<1>1. IsRun(run) /\ IsWorld(world) /\ verdicts \in Seq(Sayings) /\ Says(0, "failed") \in Sayings
  BY SaysFacts DEF TestInv, TestTypeOK, Statuses
<1>2. reports \in Seq(Sayings)
  BY <1>1
<1>3. EndFile(reports, world)
  BY DEF AllTestsDone
<1> HIDE DEF reports
<1> QED BY <1>1, <1>2, <1>3, EndFileKeeps

LEMMA EndTopKeeps ==
  ASSUME TestInv, NEW outcome \in {"ok", "error", "cut", "poison"}, EndTop(outcome)
  PROVE  TestInv'
<1> DEFINE w == [world EXCEPT !.job = @ \/ outcome = "cut"]
<1>0. /\ IsRun(run) /\ IsWorld(world) /\ IsHistory(history) /\ run.step = "top" /\ run.at = 0 /\ verdicts = <<>>
      /\ DOMAIN groups = {"started", "failed"} /\ (world.moved => world.touched)
      /\ groups.started = {} /\ groups.failed = {} /\ history.opened = {} /\ history.closed = {} /\ history.bad = {}
      /\ history.ran = {} /\ ~run.stopped /\ ~run.poisoned
  BY DEF EndTop, TestInv, TestTypeOK, PlaceInv, SharedInv, Blank
<1>1. IsWorld(w) /\ w.moved = world.moved /\ w.touched = world.touched /\ w.cache = world.cache
  BY <1>0 DEF IsWorld
<1>2. \A i \in Nat : Says(i, "failed") \in Sayings /\ Says(i, "passed") \in Sayings /\ Says(i, "filtered") \in Sayings
  BY SaysFacts DEF Statuses
<1>3. CASE EndFile(<<Says(0, "failed")>>, w)
  <2>1. <<Says(0, "failed")>> \in Seq(Sayings)
    BY <1>2, SaysFacts
  <2> QED BY <1>0, <1>1, <1>3, <2>1, EndFileKeeps
<1>4. CASE EndFile(<<Says(0, IF outcome = "ok" THEN "passed" ELSE "failed")>>, w)
  <2>1. <<Says(0, IF outcome = "ok" THEN "passed" ELSE "failed")>> \in Seq(Sayings)
    BY <1>2, SaysFacts
  <2> QED BY <1>0, <1>1, <1>4, <2>1, EndFileKeeps
<1>5. CASE EndFile([i \in DOMAIN Tests |-> Says(i, "filtered")], w)
  <2>1. [i \in DOMAIN Tests |-> Says(i, "filtered")] \in Seq(Sayings)
    BY <1>2, SuiteFacts
  <2> QED BY <1>0, <1>1, <1>5, <2>1, EndFileKeeps
<1>6. CASE /\ run' = [run EXCEPT !.step = "next", !.fileErr = outcome # "ok"] /\ world' = w
           /\ history' = [history EXCEPT !.tops = world.cache] /\ UNCHANGED <<groups, verdicts>>
  <2> HIDE DEF w
  <2>1. /\ IsRun(run') /\ run'.at = 0 /\ run'.step = "next" /\ ~run'.stopped /\ ~run'.poisoned /\ run'.file = run.file
    BY <1>0, <1>6 DEF IsRun, RunSteps
  <2>2. /\ IsHistory(history') /\ history'.tops = world.cache /\ history'.opened = {} /\ history'.closed = {}
        /\ history'.bad = {} /\ history'.ran = {}
    BY <1>0, <1>6 DEF IsHistory, IsWorld
  <2>3. ~InTest'
    BY <2>1 DEF InTest, ScriptSteps
  <2>4. TestTypeOK'
    BY <1>0, <1>1, <1>6, <2>1, <2>2 DEF TestTypeOK
  <2>5. Tests' = Tests
    BY <2>1 DEF Tests
  <2>6. \A j \in Running(Tests) : j \in Nat /\ j # 0
    BY SuiteFacts DEF Running
  <2>7. PlaceInv'
    BY <1>0, <1>6, <2>1, <2>2, <2>3, <2>5, SuiteFacts DEF PlaceInv, Blank
  <2>8. SharedInv'
    BY <1>0, <1>1, <1>6, <2>1, <2>2, <2>3 DEF SharedInv
  <2>9. GroupInv'
    BY <1>0, <1>6, <2>1, <2>2, <2>5, <2>6 DEF GroupInv, Looked
  <2>10. CloseInv'
    BY <2>1, <2>2, <2>5, <2>6 DEF CloseInv, Past
  <2>11. SaidInv'
    BY <1>0, <1>6, <2>1, <2>2 DEF SaidInv
  <2> QED BY <2>4, <2>7, <2>8, <2>9, <2>10, <2>11 DEF TestInv
<1> QED BY <1>3, <1>4, <1>5, <1>6 DEF EndTop

LEMMA DidFacts ==
  ASSUME NEW w, IsWorld(w), w.moved => w.touched, NEW deed \in Deeds
  PROVE  LET f == Did(w, deed) IN
           /\ IsWorld(f) /\ (f.moved => f.touched) /\ (w.touched => f.touched)
           /\ "moved" \in f.cache => "moved" \in w.cache \/ f.touched
<1> DEFINE f == Did(w, deed)
           Fine(v) == /\ IsWorld(v) /\ (v.moved => v.touched) /\ (w.touched => v.touched)
                      /\ "moved" \in v.cache => "moved" \in w.cache \/ v.touched
<1>1. CASE deed = "clock"
  <2>1. f = [w EXCEPT !.moved = TRUE, !.touched = TRUE]
    BY <1>1 DEF Did
  <2> HIDE DEF f
  <2> QED BY <2>1 DEF IsWorld, f
<1>2. CASE deed = "double"
  <2>1. f = [w EXCEPT !.doubles = TRUE]
    BY <1>2 DEF Did
  <2>2. Fine([w EXCEPT !.doubles = TRUE])
    BY DEF IsWorld
  <2> QED BY <2>1, <2>2
<1>3. CASE deed = "cache"
  <2> DEFINE mark == IF w.moved THEN "moved" ELSE "real"
             cache == w.cache \cup {mark}
  <2>1. f = [w EXCEPT !.cache = cache]
    BY <1>3 DEF Did
  <2>2. mark \in CacheMarks /\ (mark = "moved" => w.moved) /\ cache \in SUBSET CacheMarks
    BY DEF CacheMarks, IsWorld
  <2>4. "moved" \in cache => "moved" \in w.cache \/ w.touched
    BY <2>2
  <2> HIDE DEF cache
  <2>3. Fine([w EXCEPT !.cache = cache])
    BY <2>2, <2>4 DEF IsWorld
  <2> QED BY <2>1, <2>3
<1>4. CASE deed = "write"
  <2>1. f = [w EXCEPT !.db = "changed", !.locked = FALSE]
    BY <1>4 DEF Did
  <2>2. Fine([w EXCEPT !.db = "changed", !.locked = FALSE])
    BY DEF IsWorld
  <2> QED BY <2>1, <2>2
<1>5. CASE deed = "hold"
  <2>1. f = [w EXCEPT !.locked = TRUE]
    BY <1>5 DEF Did
  <2>2. Fine([w EXCEPT !.locked = TRUE])
    BY DEF IsWorld
  <2> QED BY <2>1, <2>2
<1>6. CASE deed = "reset"
  <2>1. f = Restored(w)
    BY <1>6 DEF Did
  <2>2. Fine(Restored(w))
    BY WorldFacts
  <2> QED BY <2>1, <2>2
<1> QED BY <1>1, <1>2, <1>3, <1>4, <1>5, <1>6 DEF Deeds

LEMMA ActsKeeps ==
  ASSUME TestInv, NEW deed \in Deeds, ScriptActs(deed)
  PROVE  TestInv'
<1>1. /\ run.step \in ScriptSteps /\ world' = Did(world, deed) /\ history' = [history EXCEPT !.deeds = @ + 1]
      /\ UNCHANGED <<run, groups, verdicts>>
  BY DEF ScriptActs
<1>2. TestTypeOK /\ SharedInv /\ IsWorld(world) /\ IsHistory(history) /\ (world.moved => world.touched)
  BY DEF TestInv, TestTypeOK, SharedInv
<1>3. /\ IsWorld(world') /\ (world'.moved => world'.touched) /\ (world.touched => world'.touched)
      /\ "moved" \in world'.cache => "moved" \in world.cache \/ world'.touched
  BY <1>1, <1>2, DidFacts
<1>4. /\ IsHistory(history') /\ history'.deeds # 0 /\ history'.tops = history.tops /\ history'.began = history.began
      /\ history'.opened = history.opened /\ history'.closed = history.closed /\ history'.bad = history.bad
      /\ history'.ran = history.ran /\ history'.cut = history.cut
  BY <1>1, <1>2 DEF IsHistory
<1>5. TestTypeOK'
  BY <1>1, <1>2, <1>3, <1>4 DEF TestTypeOK
<1>6. SharedInv'
  <2>1. (InTest' <=> InTest) /\ run'.step \notin {"load", "next"}
    BY <1>1 DEF InTest, ScriptSteps
  <2> QED BY <1>1, <1>2, <1>3, <1>4, <2>1 DEF SharedInv
<1> QED BY <1>1, <1>4, <1>5, <1>6, QuietKeeps

LEMMA IsolateKeeps ==
  ASSUME TestInv, Isolate
  PROVE  TestInv'
<1>1. /\ run.step \in ScriptSteps /\ run' = [run EXCEPT !.isolate = TRUE] /\ history' = [history EXCEPT !.deeds = @ + 1]
      /\ UNCHANGED <<world, groups, verdicts>>
  BY DEF Isolate
<1>2. TestTypeOK /\ SharedInv /\ IsRun(run) /\ IsHistory(history)
  BY DEF TestInv, TestTypeOK
<1>3. /\ IsRun(run') /\ run'.file = run.file /\ run'.at = run.at /\ run'.step = run.step /\ run'.group = run.group
      /\ run'.ok = run.ok /\ run'.poisoned = run.poisoned /\ run'.stopped = run.stopped
  BY <1>1, <1>2 DEF IsRun
<1>4. /\ IsHistory(history') /\ history'.deeds # 0 /\ history'.tops = history.tops /\ history'.began = history.began
      /\ history'.opened = history.opened /\ history'.closed = history.closed /\ history'.bad = history.bad
      /\ history'.ran = history.ran /\ history'.cut = history.cut
  BY <1>1, <1>2 DEF IsHistory
<1>5. TestTypeOK'
  BY <1>1, <1>2, <1>3, <1>4 DEF TestTypeOK
<1>6. SharedInv'
  <2>1. (InTest' <=> InTest) /\ run'.step \notin {"load", "next"}
    BY <1>1, <1>3 DEF InTest, ScriptSteps
  <2> QED BY <1>1, <1>2, <1>3, <1>4, <2>1 DEF SharedInv
<1> QED BY <1>1, <1>3, <1>4, <1>5, <1>6, QuietKeeps

LEMMA LateJobKeeps ==
  ASSUME TestInv, LateJob
  PROVE  TestInv'
<1>1. /\ world' = [world EXCEPT !.job = FALSE, !.db = "changed"] /\ history' = [history EXCEPT !.late = TRUE]
      /\ UNCHANGED <<run, groups, verdicts>>
  BY DEF LateJob
<1>2. TestTypeOK /\ SharedInv /\ IsWorld(world) /\ IsHistory(history)
  BY DEF TestInv, TestTypeOK
<1>3. /\ IsWorld(world') /\ world'.moved = world.moved /\ world'.touched = world.touched /\ world'.cache = world.cache
      /\ world'.doubles = world.doubles
  BY <1>1, <1>2 DEF IsWorld
<1>4. /\ IsHistory(history') /\ history'.deeds = history.deeds /\ history'.tops = history.tops
      /\ history'.began = history.began /\ history'.opened = history.opened /\ history'.closed = history.closed
      /\ history'.bad = history.bad /\ history'.ran = history.ran /\ history'.cut = history.cut /\ history'.late = TRUE
  BY <1>1, <1>2 DEF IsHistory
<1>5. TestTypeOK'
  BY <1>1, <1>2, <1>3, <1>4 DEF TestTypeOK
<1>6. SharedInv'
  <2>1. InTest' <=> InTest
    BY <1>1 DEF InTest
  <2> QED BY <1>1, <1>2, <1>3, <1>4, <2>1 DEF SharedInv
<1> QED BY <1>1, <1>4, <1>5, <1>6, QuietKeeps

LEMMA PassOverKeeps ==
  ASSUME TestInv, PassOver
  PROVE  TestInv'
<1> DEFINE i == run.at + 1
           status == StatusOf(Tests, i)
           told == IF status # "run" THEN status ELSE IF run.stopped THEN "not run" ELSE "failed"
           stops == run.stopped \/ (run.mode = "bail" /\ told = "failed")
           bad == IF told = "failed" THEN history.bad \cup {i} ELSE history.bad
<1>0. TestTypeOK /\ PlaceInv /\ SharedInv /\ GroupInv /\ CloseInv /\ SaidInv /\ IsRun(run) /\ IsHistory(history)
  BY DEF TestInv, TestTypeOK
<1>1. /\ run.step = "next" /\ run.at < Len(Tests) /\ (status # "run" \/ run.stopped \/ run.poisoned)
      /\ verdicts' = Append(verdicts, Says(i, told)) /\ run' = [run EXCEPT !.at = i, !.stopped = stops]
      /\ history' = [history EXCEPT !.bad = bad] /\ UNCHANGED <<world, groups>>
  BY DEF PassOver
<1>2. i \in DOMAIN Tests /\ i \in Nat /\ run.at \in Nat /\ Len(Tests) \in Nat
  <2>1. run.at \in Nat /\ run.at < Len(Tests)
    BY <1>0, <1>1 DEF IsRun
  <2> QED BY <2>1, SuiteFacts
<1>3. told \in Statuses /\ told # "passed" /\ (i \in bad => told = "failed") /\ bad \in SUBSET Nat
  <2>1. status \in {"failed", "filtered", "todo", "skipped", "run"}
    BY DEF StatusOf
  <2>2. told \in Statuses /\ told # "passed"
    BY <2>1 DEF Statuses
  <2>3. history.bad \in SUBSET Nat /\ i \notin history.bad
    BY <1>0, <1>2 DEF SaidInv, IsHistory
  <2> QED BY <1>2, <2>2, <2>3
<1>4. stops \in BOOLEAN /\ (run.stopped => stops)
  BY <1>0 DEF IsRun
<1>15. \A n \in bad : n \in history.bad \/ n = i
  OBVIOUS
<1>16. i \in Running(Tests) => run.stopped \/ run.poisoned
  BY <1>1 DEF Running
<1> HIDE DEF told, stops, bad, status
<1>5. /\ IsRun(run') /\ run'.at = i /\ run'.step = "next" /\ run'.file = run.file /\ run'.group = run.group
      /\ run'.ok = run.ok /\ run'.isolate = run.isolate /\ run'.poisoned = run.poisoned /\ run'.stopped = stops
  BY <1>0, <1>1, <1>2, <1>4 DEF IsRun
<1>6. /\ IsHistory(history') /\ history'.tops = history.tops /\ history'.opened = history.opened
      /\ history'.closed = history.closed /\ history'.bad = bad /\ history'.ran = history.ran
      /\ history'.cut = history.cut /\ history'.late = history.late
  BY <1>0, <1>1, <1>3 DEF IsHistory
<1>7. /\ verdicts \in Seq(Sayings) /\ Len(verdicts) = run.at /\ verdicts' \in Seq(Sayings) /\ Len(verdicts') = i
      /\ verdicts'[i].status = told /\ verdicts'[i].test = i /\ \A n \in 1..run.at : verdicts'[n] = verdicts[n]
  <2>1. Says(i, told) \in Sayings /\ Says(i, told).test = i /\ Says(i, told).status = told
    BY <1>2, <1>3, SaysFacts
  <2>2. verdicts \in Seq(Sayings) /\ Len(verdicts) = run.at
    BY <1>0, <1>1 DEF TestTypeOK, PlaceInv
  <2> QED BY <1>1, <1>2, <2>1, <2>2
<1>8. TestTypeOK'
  BY <1>0, <1>1, <1>5, <1>6, <1>7 DEF TestTypeOK
<1>9. Tests' = Tests /\ ~InTest'
  BY <1>5 DEF Tests, InTest, ScriptSteps
<1>10. PlaceInv'
  BY <1>0, <1>2, <1>5, <1>6, <1>7, <1>9 DEF PlaceInv, Blank
<1>11. SharedInv'
  BY <1>0, <1>1, <1>3, <1>5, <1>6, <1>7, <1>9 DEF SharedInv
<1>12. GroupInv'
  <2>1. \A g \in groups.started : \E j \in Running(Tests) : j <= i /\ g \in ToSet(Around(Tests, j))
    <3>1. \A j \in Running(Tests) : j <= run.at => j <= i
      BY <1>2, SuiteFacts DEF Running
    <3> QED BY <1>0, <3>1 DEF GroupInv
  <2>2. ASSUME ~run'.stopped, ~run'.poisoned, NEW j \in Running(Tests), Looked(j)', NEW k \in DOMAIN Around(Tests, j)
        PROVE  Met(Tests, j, k)'
    <3>1. Looked(j)
      BY <1>1, <1>2, <1>4, <1>5, <1>16, <2>2, SuiteFacts DEF Looked, Running
    <3>2. Met(Tests, j, k)
      BY <1>0, <1>4, <1>5, <2>2, <3>1 DEF GroupInv
    <3> QED BY <1>1, <1>6, <1>9, <3>2 DEF Met
  <2> QED BY <1>0, <1>1, <1>5, <1>6, <1>9, <2>1, <2>2 DEF GroupInv
<1>13. CloseInv'
  <2>1. \A g \in history.closed : \A m \in RunsIn(Tests, g) : m <= i
    <3>1. \A g : \A m \in RunsIn(Tests, g) : m \in Nat
      BY SuiteFacts DEF RunsIn
    <3> QED BY <1>0, <1>2, <3>1 DEF CloseInv
  <2>2. ASSUME ~history.cut, ~run'.stopped, NEW j \in Running(Tests), Past(j)' PROVE Past(j) /\ ~run.stopped
    BY <1>0, <1>1, <1>2, <1>4, <1>5, <1>16, <2>2, SuiteFacts DEF Past, Running, PlaceInv
  <2> QED BY <1>0, <1>5, <1>6, <1>9, <2>1, <2>2 DEF CloseInv
<1>14. SaidInv'
  <2>1. \A n \in bad \cup history.ran : n <= i /\ n # 0
    BY <1>0, <1>2, <1>15 DEF SaidInv, IsHistory
  <2>2. ASSUME NEW n \in DOMAIN verdicts'
        PROVE  /\ verdicts'[n].test = n
               /\ verdicts'[n].status = "passed" => n \in history.ran /\ n \notin bad
               /\ n \in bad => verdicts'[n].status = "failed"
    <3>1. CASE n = i
      BY <1>3, <1>7, <3>1
    <3>2. CASE n # i
      <4>1. n \in 1..run.at /\ n \in DOMAIN verdicts /\ verdicts'[n] = verdicts[n]
        BY <1>2, <1>7, <3>2
      <4> HIDE DEF i
      <4> QED BY <1>0, <1>1, <1>15, <3>2, <4>1 DEF SaidInv
    <3> QED BY <3>1, <3>2
  <2> QED BY <1>0, <1>5, <1>6, <1>9, <2>1, <2>2 DEF SaidInv
<1> QED BY <1>8, <1>10, <1>11, <1>12, <1>13, <1>14 DEF TestInv

LEMMA BeginKeeps ==
  ASSUME TestInv, BeginTest
  PROVE  TestInv'
<1> DEFINE i == run.at + 1
<1>0. /\ TestTypeOK /\ PlaceInv /\ SharedInv /\ GroupInv /\ CloseInv /\ SaidInv /\ IsRun(run) /\ IsHistory(history)
      /\ IsWorld(world)
  BY DEF TestInv, TestTypeOK
<1>1. /\ run.step = "next" /\ run.at < Len(Tests) /\ StatusOf(Tests, i) = "run" /\ ~run.stopped /\ ~run.poisoned
      /\ run' = [run EXCEPT !.at = run.at + 1, !.step = "open", !.group = 1, !.ok = TRUE]
      /\ world' = Freshened(world) /\ history' = [history EXCEPT !.began = world.cache] /\ UNCHANGED <<groups, verdicts>>
  BY DEF BeginTest
<1>2. i \in Running(Tests) /\ i \in Nat /\ run.at \in Nat /\ Len(Tests) \in Nat /\ i <= Len(Tests)
  <2>1. run.at \in Nat /\ run.at < Len(Tests)
    BY <1>0, <1>1 DEF IsRun
  <2>2. i \in DOMAIN Tests /\ Len(Tests) \in Nat
    BY <2>1, SuiteFacts
  <2> QED BY <1>1, <2>1, <2>2 DEF Running
<1>3. /\ IsRun(run') /\ run'.at = i /\ run'.step = "open" /\ run'.file = run.file /\ run'.group = 1 /\ run'.ok = TRUE
      /\ run'.poisoned = run.poisoned /\ run'.stopped = run.stopped
  BY <1>0, <1>1, <1>2 DEF IsRun, RunSteps
<1>4. /\ IsHistory(history') /\ history'.tops = history.tops /\ history'.opened = history.opened
      /\ history'.closed = history.closed /\ history'.bad = history.bad /\ history'.ran = history.ran
      /\ history'.cut = history.cut /\ history'.began = world.cache
  BY <1>0, <1>1 DEF IsHistory, IsWorld
<1>5. IsWorld(world') /\ world'.moved = FALSE /\ world'.cache = world.cache
  BY <1>0, <1>1, WorldFacts
<1>6. TestTypeOK'
  BY <1>0, <1>1, <1>3, <1>4, <1>5 DEF TestTypeOK
<1>7. Tests' = Tests /\ InTest'
  BY <1>3 DEF Tests, InTest
<1>8. PlaceInv'
  BY <1>0, <1>1, <1>2, <1>3, <1>4, <1>7 DEF PlaceInv, Blank
<1>9. SharedInv'
  BY <1>0, <1>1, <1>3, <1>4, <1>5, <1>7 DEF SharedInv
<1>10. \A j \in Running(Tests) : j \in Nat /\ (j <= run.at => j <= i) /\ (j < i => j <= run.at)
  BY <1>2, SuiteFacts DEF Running
<1> HIDE DEF i
<1>11. GroupInv'
  <2>1. \A j \in Running(Tests) : Looked(j)' => Looked(j)
    BY <1>1, <1>2, <1>3, <1>10 DEF Looked
  <2>2. \A j, k : Met(Tests, j, k)' <=> Met(Tests, j, k)
    BY <1>1, <1>4, <1>7 DEF Met
  <2>3. \A g \in groups.started : \E j \in Running(Tests) : j <= i /\ g \in ToSet(Around(Tests, j))
    BY <1>0, <1>10 DEF GroupInv
  <2>4. \A k \in DOMAIN Around(Tests, i) : ~(k < 1)
    BY <1>2, SuiteFacts DEF Running
  <2> QED BY <1>0, <1>1, <1>3, <1>4, <1>7, <2>1, <2>2, <2>3, <2>4 DEF GroupInv
<1>12. CloseInv'
  <2>1. \A j \in Running(Tests) : Past(j)' => Past(j)
    BY <1>1, <1>2, <1>3, <1>10 DEF Past
  <2>2. \A g \in history.closed : \A m \in RunsIn(Tests, g) : m <= i
    <3>1. \A g : \A m \in RunsIn(Tests, g) : m \in Running(Tests)
      BY DEF RunsIn, Running
    <3> QED BY <1>0, <1>10, <3>1 DEF CloseInv
  <2> QED BY <1>0, <1>3, <1>4, <1>7, <2>1, <2>2 DEF CloseInv
<1>13. SaidInv'
  <2>1. \A n \in history.bad \cup history.ran : n <= i /\ n # 0 /\ n # i
    BY <1>0, <1>2 DEF SaidInv, IsHistory, i
  <2> QED BY <1>0, <1>1, <1>3, <1>4, <1>7, <2>1 DEF SaidInv
<1> QED BY <1>6, <1>8, <1>9, <1>11, <1>12, <1>13 DEF TestInv

LEMMA InTestFacts ==
  ASSUME TestInv, InTest
  PROVE  /\ TestTypeOK /\ PlaceInv /\ SharedInv /\ GroupInv /\ CloseInv /\ SaidInv /\ IsRun(run) /\ IsHistory(history)
         /\ IsWorld(world) /\ run.at \in Running(Tests) /\ run.at \in DOMAIN Tests /\ run.at \in Nat /\ run.group \in Nat
         /\ Around(Tests, run.at) \in Seq(STRING) /\ Len(Around(Tests, run.at)) \in Nat
         /\ DOMAIN Around(Tests, run.at) = 1..Len(Around(Tests, run.at))
         /\ \A k \in DOMAIN Around(Tests, run.at) : Around(Tests, run.at)[k] \in ToSet(Around(Tests, run.at))
         /\ \A k, m \in DOMAIN Around(Tests, run.at) : Around(Tests, run.at)[k] = Around(Tests, run.at)[m] => k = m
         /\ \A j \in Running(Tests) : j \in Nat
         /\ ~run.stopped /\ ~run.poisoned /\ Len(verdicts) = run.at - 1 /\ verdicts \in Seq(Sayings)
         /\ Current.groups = Around(Tests, run.at)
<1>1. /\ TestTypeOK /\ PlaceInv /\ SharedInv /\ GroupInv /\ CloseInv /\ SaidInv /\ IsRun(run) /\ IsHistory(history)
      /\ IsWorld(world) /\ verdicts \in Seq(Sayings)
  BY DEF TestInv, TestTypeOK
<1>2. run.at \in Running(Tests) /\ ~run.stopped /\ ~run.poisoned /\ Len(verdicts) = run.at - 1
  BY <1>1 DEF PlaceInv
<1>3. run.at \in DOMAIN Tests /\ run.at \in Nat /\ run.group \in Nat
  BY <1>1, <1>2 DEF IsRun, Running
<1>4. /\ Around(Tests, run.at) \in Seq(STRING) /\ Len(Around(Tests, run.at)) \in Nat
      /\ DOMAIN Around(Tests, run.at) = 1..Len(Around(Tests, run.at))
  BY <1>3, SuiteFacts
<1>5. \A k \in DOMAIN Around(Tests, run.at) : Around(Tests, run.at)[k] \in ToSet(Around(Tests, run.at))
  BY DEF ToSet
<1>6. \A k, m \in DOMAIN Around(Tests, run.at) : Around(Tests, run.at)[k] = Around(Tests, run.at)[m] => k = m
  BY <1>3, SuiteFacts DEF Tree
<1>7. \A j \in Running(Tests) : j \in Nat
  BY SuiteFacts DEF Running
<1>8. Current.groups = Around(Tests, run.at)
  BY DEF Current, Around
<1> QED BY <1>1, <1>2, <1>3, <1>4, <1>5, <1>6, <1>7, <1>8

\* A step from one place in a test to another.
WithinTest ==
  /\ InTest /\ InTest' /\ IsRun(run') /\ IsHistory(history') /\ DOMAIN groups' = {"started", "failed"}
  /\ run'.file = run.file /\ run'.at = run.at /\ run'.stopped = run.stopped /\ run'.poisoned = run.poisoned
  /\ history'.tops = history.tops /\ history'.began = history.began /\ history'.cut = history.cut
  /\ UNCHANGED <<world, verdicts>>

LEMMA WithinTestKeeps ==
  ASSUME TestInv, WithinTest
  PROVE  TestTypeOK' /\ SharedInv' /\ Tests' = Tests
<1>1. TestTypeOK' /\ Tests' = Tests
  BY InTestFacts DEF WithinTest, TestTypeOK, Tests
<1>2. run'.step \notin {"load", "top", "next"}
  BY DEF WithinTest, InTest, ScriptSteps
<1>3. SharedInv'
  BY <1>2, InTestFacts DEF WithinTest, SharedInv
<1> QED BY <1>1, <1>3

\* What was opened or failed stays so, but for the group whose setup is running.
LEMMA MetStays ==
  ASSUME NEW j, NEW k, Tests' = Tests, Met(Tests, j, k), groups.started \subseteq groups'.started,
         history'.cut = history.cut,
         \A m \in 1..(k - 1) : Around(Tests, j)[m] \in groups.failed => Around(Tests, j)[m] \in groups'.failed
  PROVE  Met(Tests, j, k)'
BY DEF Met

LEMMA OpenKeeps ==
  ASSUME TestInv, OpenGroup
  PROVE  TestInv'
<1> DEFINE A == Around(Tests, run.at)
           k == run.group
           g == A[k]
<1>0. InTest
  BY DEF OpenGroup, InTest
<1>1. run.step = "open" /\ k <= Len(A) /\ k >= 1 /\ k \in DOMAIN A /\ UNCHANGED <<world, verdicts>>
  BY <1>0, InTestFacts DEF OpenGroup, PlaceInv
<1>2. IF FirstOf(Tests, g) = run.at /\ g \notin groups.started
      THEN /\ groups' = Marked(g) /\ run' = [run EXCEPT !.step = "before_all"]
           /\ history' = [history EXCEPT !.opened = @ \cup {g}]
      ELSE /\ run' = [run EXCEPT !.group = @ + 1, !.ok = @ /\ g \notin groups.failed]
           /\ UNCHANGED <<groups, history>>
  BY <1>0, InTestFacts DEF OpenGroup
<1>3. g \in ToSet(A)
  BY <1>0, <1>1, InTestFacts
<1>4. /\ FirstOf(Tests, g) \in Running(Tests) /\ FirstOf(Tests, g) <= run.at /\ g \in ToSet(Around(Tests, FirstOf(Tests, g)))
      /\ \A j \in Running(Tests) : g \in ToSet(Around(Tests, j)) => FirstOf(Tests, g) <= j
  <2>1. /\ run.at \in RunsIn(Tests, g) /\ RunsIn(Tests, g) \subseteq Running(Tests)
        /\ FirstOf(Tests, g) \in RunsIn(Tests, g) /\ \A j \in RunsIn(Tests, g) : FirstOf(Tests, g) <= j
    BY <1>0, <1>3, InTestFacts, SuiteFacts, EndsFacts
  <2>2. \A j \in RunsIn(Tests, g) : g \in ToSet(Around(Tests, j))
    BY DEF RunsIn, Around
  <2>3. \A j \in Running(Tests) : g \in ToSet(Around(Tests, j)) => j \in RunsIn(Tests, g)
    BY DEF RunsIn, Running, Around
  <2> QED BY <2>1, <2>2, <2>3
<1>5. CASE FirstOf(Tests, g) = run.at /\ g \notin groups.started
  <2>1. /\ groups'.started = groups.started \cup {g} /\ groups'.failed = groups.failed \cup {g}
        /\ DOMAIN groups' = {"started", "failed"}
    BY <1>0, <1>2, <1>5, InTestFacts DEF Marked, TestTypeOK
  <2>2. /\ IsRun(run') /\ run'.step = "before_all" /\ run'.file = run.file /\ run'.at = run.at
        /\ run'.stopped = run.stopped /\ run'.poisoned = run.poisoned /\ run'.group = k /\ run'.ok = run.ok
    BY <1>0, <1>2, <1>5, InTestFacts DEF IsRun, RunSteps
  <2>3. /\ IsHistory(history') /\ history'.tops = history.tops /\ history'.began = history.began
        /\ history'.cut = history.cut /\ history'.opened = history.opened \cup {g} /\ history'.closed = history.closed
        /\ history'.bad = history.bad /\ history'.ran = history.ran
    BY <1>0, <1>2, <1>5, InTestFacts DEF IsHistory
  <2> HIDE DEF g, A, k
  <2>4. InTest'
    BY <2>2 DEF InTest, ScriptSteps
  <2>5. TestTypeOK' /\ SharedInv' /\ Tests' = Tests
    <3>1. WithinTest
      BY <1>0, <1>1, <2>1, <2>2, <2>3, <2>4 DEF WithinTest
    <3> QED BY <3>1, WithinTestKeeps
  <2>6. PlaceInv'
    BY <1>0, <1>1, <2>2, <2>3, <2>4, <2>5, InTestFacts DEF PlaceInv, Blank, A
  <2>7. GroupInv'
    <3>1. groups'.failed \subseteq groups'.started /\ groups'.started = history'.opened
      BY <1>0, <2>1, <2>3, InTestFacts DEF GroupInv
    <3>2. \A h \in groups'.started : \E j \in Running(Tests) : j <= run.at /\ h \in ToSet(Around(Tests, j))
      <4>1. run.at \in Running(Tests) /\ run.at <= run.at
        BY <1>0, InTestFacts
      <4>2. g \in ToSet(Around(Tests, run.at))
        BY <1>3 DEF A
      <4> QED BY <1>0, <2>1, <4>1, <4>2, InTestFacts DEF GroupInv
    <3>3. \A j, n : Met(Tests, j, n) => Met(Tests, j, n)'
      BY <2>1, <2>3, <2>5, MetStays
    <3>4. \A j : Looked(j)' => Looked(j)
      BY <2>2 DEF Looked
    <3>5. ~run'.stopped /\ ~run'.poisoned =>
            \A j \in Running(Tests) : Looked(j)' => \A n \in DOMAIN Around(Tests, j) : Met(Tests, j, n)'
      BY <1>0, <3>3, <3>4, InTestFacts DEF GroupInv
    <3>6. ASSUME NEW n \in DOMAIN A, n < k
          PROVE  Met(Tests, run.at, n)' /\ (run'.ok => A[n] \in groups'.started \ groups'.failed)
      <4>1. Met(Tests, run.at, n) /\ (run.ok => A[n] \in groups.started \ groups.failed)
        BY <1>0, <1>1, <3>6, InTestFacts DEF GroupInv, A, k
      <4>2. A[n] # g
        BY <1>0, <1>1, <3>6, InTestFacts DEF A, g
      <4> QED BY <2>1, <2>2, <3>3, <4>1, <4>2
    <3>7. A[k] \in groups'.failed /\ \A j \in Running(Tests) : j < run.at => A[k] \notin ToSet(Around(Tests, j))
      BY <1>0, <1>4, <1>5, <2>1, InTestFacts DEF g
    <3> QED BY <2>2, <2>5, <3>1, <3>2, <3>5, <3>6, <3>7 DEF GroupInv, A
  <2>8. CloseInv'
    <3>1. \A j : Past(j)' <=> Past(j)
      BY <1>1, <2>2 DEF Past
    <3> QED BY <1>0, <2>2, <2>3, <2>5, <3>1, InTestFacts DEF CloseInv
  <2>9. SaidInv'
    <3>1. run.ok => run.at \notin history.bad
      BY <1>0, <1>1, <1>5, InTestFacts DEF SaidInv, GroupInv, g, A, k
    <3> QED BY <1>0, <1>1, <2>2, <2>3, <2>5, <3>1, InTestFacts DEF SaidInv
  <2> QED BY <2>5, <2>6, <2>7, <2>8, <2>9 DEF TestInv
<1>6. CASE ~(FirstOf(Tests, g) = run.at /\ g \notin groups.started)
  <2> DEFINE ok == run.ok /\ g \notin groups.failed
  <2>1. UNCHANGED <<groups, history>> /\ run' = [run EXCEPT !.group = k + 1, !.ok = ok]
    BY <1>2, <1>6
  <2>2. ok \in BOOLEAN
    OBVIOUS
  <2>3. /\ IsRun(run') /\ run'.step = "open" /\ run'.file = run.file /\ run'.at = run.at
        /\ run'.stopped = run.stopped /\ run'.poisoned = run.poisoned /\ run'.group = k + 1
        /\ (run'.ok => run.ok /\ g \notin groups.failed)
    <3> HIDE DEF ok
    <3>1. /\ IsRun(run') /\ run'.step = "open" /\ run'.file = run.file /\ run'.at = run.at
          /\ run'.stopped = run.stopped /\ run'.poisoned = run.poisoned /\ run'.group = k + 1 /\ run'.ok = ok
      BY <1>0, <1>1, <2>1, <2>2, InTestFacts DEF IsRun
    <3> QED BY <3>1 DEF ok
  <2> HIDE DEF g, A, k
  <2>4. InTest'
    BY <2>3 DEF InTest, ScriptSteps
  <2>5. TestTypeOK' /\ SharedInv' /\ Tests' = Tests
    <3>1. IsHistory(history') /\ DOMAIN groups' = {"started", "failed"}
      BY <1>0, <2>1, InTestFacts DEF TestTypeOK
    <3>2. WithinTest
      BY <1>0, <1>1, <2>1, <2>3, <2>4, <3>1 DEF WithinTest
    <3> QED BY <3>2, WithinTestKeeps
  <2>6. PlaceInv'
    BY <1>0, <1>1, <2>1, <2>3, <2>4, <2>5, InTestFacts DEF PlaceInv, Blank, k
  <2>7. /\ Met(Tests, run.at, k)
        /\ run.ok => g \in groups.started
    <3>1. CASE g \in groups.started
      BY <3>1 DEF Met, g, A
    <3>2. CASE g \notin groups.started
      <4> DEFINE j == FirstOf(Tests, g)
      <4>1. j \in Running(Tests) /\ j < run.at /\ j \in DOMAIN Tests /\ g \in ToSet(Around(Tests, j))
        BY <1>0, <1>4, <1>6, <3>2, InTestFacts DEF Running
      <4> HIDE DEF j
      <4>2. PICK m \in DOMAIN Around(Tests, j) : Around(Tests, j)[m] = g
        BY <4>1 DEF ToSet
      <4>3. m = k /\ \A n \in 1..k : Around(Tests, j)[n] = A[n]
        BY <1>0, <1>1, <4>1, <4>2, InTestFacts, SuiteFacts DEF Tree, A, g
      <4>4. Met(Tests, j, k)
        BY <1>0, <4>1, <4>2, <4>3, InTestFacts DEF GroupInv, Looked
      <4>5. PICK n \in 1..(k - 1) : history.cut /\ Around(Tests, j)[n] \in groups.failed
        BY <3>2, <4>2, <4>3, <4>4 DEF Met
      <4>6. n \in DOMAIN A /\ n < k /\ A[n] \in groups.failed /\ k \in Nat
        BY <1>0, <1>1, <4>3, <4>5, InTestFacts DEF k, A
      <4>7. ~run.ok
        BY <1>0, <1>1, <4>6, InTestFacts DEF GroupInv, A, k
      <4> QED BY <4>5, <4>6, <4>7 DEF Met, A
    <3> QED BY <3>1, <3>2
  <2>8. GroupInv'
    <3>1. \A i, n : Met(Tests, i, n)' <=> Met(Tests, i, n)
      BY <2>1, <2>5 DEF Met
    <3>2. \A i : Looked(i)' <=> Looked(i)
      BY <1>1, <2>3 DEF Looked
    <3>3. ASSUME NEW n \in DOMAIN A, n < k + 1
          PROVE  Met(Tests, run.at, n)' /\ (run'.ok => A[n] \in groups.started \ groups.failed)
      <4>1. CASE n = k
        BY <2>3, <2>7, <3>1, <4>1 DEF g
      <4>2. CASE n # k
        <5>1. n < run.group
          BY <1>0, <3>3, <4>2, InTestFacts DEF A, k
        <5> QED BY <1>0, <1>1, <2>3, <3>1, <3>3, <5>1, InTestFacts DEF GroupInv, A
      <4> QED BY <4>1, <4>2
    <3>4. \A n \in DOMAIN Around(Tests, run.at) : n < k + 1 =>
            Met(Tests, run.at, n)' /\ (run'.ok => Around(Tests, run.at)[n] \in groups.started \ groups.failed)
      BY <3>3 DEF A
    <3> QED BY <1>0, <2>1, <2>3, <2>5, <3>1, <3>2, <3>4, InTestFacts DEF GroupInv
  <2>9. CloseInv'
    <3>1. \A j : Past(j)' <=> Past(j)
      BY <1>1, <2>3 DEF Past
    <3> QED BY <1>0, <2>1, <2>3, <2>5, <3>1, InTestFacts DEF CloseInv
  <2>10. SaidInv'
    <3>1. run'.ok => run.at \notin history.bad
      BY <1>0, <1>1, <2>3, InTestFacts DEF SaidInv, g, A, k
    <3> QED BY <1>0, <1>1, <2>1, <2>3, <2>5, <3>1, InTestFacts DEF SaidInv
  <2> QED BY <2>5, <2>6, <2>8, <2>9, <2>10 DEF TestInv
<1> QED BY <1>5, <1>6

LEMMA OpenedKeeps ==
  ASSUME TestInv, GroupsOpen
  PROVE  TestInv'
<1> DEFINE A == Around(Tests, run.at)
           step == IF run.ok THEN "before" ELSE "after"
<1>0. InTest
  BY DEF GroupsOpen, InTest
<1>1. run.step = "open" /\ run.group > Len(A) /\ UNCHANGED <<world, groups, verdicts, history>>
  BY <1>0, InTestFacts DEF GroupsOpen
<1>2. run' = [run EXCEPT !.step = step] /\ step \in {"before", "after"} /\ (step = "before" <=> run.ok)
  BY DEF GroupsOpen
<1> HIDE DEF A, step
<1>3. /\ IsRun(run') /\ run'.step = step /\ run'.file = run.file /\ run'.at = run.at /\ run'.ok = run.ok
      /\ run'.stopped = run.stopped /\ run'.poisoned = run.poisoned
  BY <1>0, <1>2, InTestFacts DEF IsRun, RunSteps
<1>4. InTest'
  BY <1>2, <1>3 DEF InTest, ScriptSteps
<1>5. TestTypeOK' /\ SharedInv' /\ Tests' = Tests
  <2>1. IsHistory(history') /\ DOMAIN groups' = {"started", "failed"}
    BY <1>0, <1>1, InTestFacts DEF TestTypeOK
  <2>2. WithinTest
    BY <1>0, <1>1, <1>3, <1>4, <2>1 DEF WithinTest
  <2> QED BY <2>2, WithinTestKeeps
<1>6. PlaceInv'
  BY <1>0, <1>1, <1>2, <1>3, <1>4, <1>5, InTestFacts DEF PlaceInv, Blank
<1>7. \A n \in DOMAIN A : Met(Tests, run.at, n) /\ (run.ok => A[n] \in groups.started \ groups.failed)
  <2>1. \A n \in DOMAIN A : n < run.group
    BY <1>0, <1>1, InTestFacts DEF A
  <2> QED BY <1>0, <1>1, <2>1, InTestFacts DEF GroupInv, A
<1>8. GroupInv'
  <2>1. \A j, n : Met(Tests, j, n)' <=> Met(Tests, j, n)
    BY <1>1, <1>5 DEF Met
  <2>2. \A j \in Running(Tests) : Looked(j)' => \A n \in DOMAIN Around(Tests, j) : Met(Tests, j, n)
    <3>1. \A j \in Running(Tests) : Looked(j)' => Looked(j) \/ j = run.at
      BY <1>3 DEF Looked
    <3> QED BY <1>0, <1>7, <3>1, InTestFacts DEF GroupInv, A
  <2>3. run.ok => ToSet(Around(Tests, run.at)) \subseteq groups.started \ groups.failed
    BY <1>7 DEF ToSet, A
  <2> QED BY <1>0, <1>1, <1>2, <1>3, <1>5, <2>1, <2>2, <2>3, InTestFacts DEF GroupInv
<1>9. CloseInv'
  <2>1. \A j : Past(j)' <=> Past(j)
    BY <1>1, <1>2, <1>3 DEF Past
  <2> QED BY <1>0, <1>1, <1>2, <1>3, <1>5, <2>1, InTestFacts DEF CloseInv
<1>10. SaidInv'
  <2>1. run.ok => run.at \notin history.bad
    BY <1>0, <1>1, InTestFacts DEF SaidInv, A
  <2> QED BY <1>0, <1>1, <1>2, <1>3, <1>5, <2>1, InTestFacts DEF SaidInv
<1> QED BY <1>5, <1>6, <1>8, <1>9, <1>10 DEF TestInv

LEMMA SetupEndKeeps ==
  ASSUME TestInv, NEW outcome \in {"ok", "error"}, EndScript(outcome), run.step = "before_all"
  PROVE  TestInv'
<1> DEFINE A == Around(Tests, run.at)
           k == run.group
           g == A[k]
           failed == IF outcome = "ok" THEN groups.failed \ {g} ELSE groups.failed \cup {g}
<1>0. InTest
  BY DEF InTest, ScriptSteps
<1>1. /\ k <= Len(A) /\ k >= 1 /\ k \in DOMAIN A /\ g \in groups.failed
      /\ \A j \in Running(Tests) : j < run.at => g \notin ToSet(Around(Tests, j))
  BY <1>0, InTestFacts DEF PlaceInv, GroupInv
<1>2. /\ groups' = [groups EXCEPT !.failed = failed] /\ run' = [run EXCEPT !.step = "open"]
      /\ history' = [history EXCEPT !.bad = Culprit(outcome), !.ran = history.ran] /\ UNCHANGED <<world, verdicts>>
  BY <1>0, InTestFacts DEF EndScript
<1>3. Culprit(outcome) \in SUBSET Nat /\ Culprit(outcome) = IF outcome = "ok" THEN history.bad ELSE history.bad \cup {run.at}
  BY <1>0, InTestFacts DEF Culprit, IsHistory
<1>4. /\ IsRun(run') /\ run'.step = "open" /\ run'.file = run.file /\ run'.at = run.at /\ run'.ok = run.ok
      /\ run'.stopped = run.stopped /\ run'.poisoned = run.poisoned /\ run'.group = k
  BY <1>0, <1>2, InTestFacts DEF IsRun, RunSteps
<1>5. /\ IsHistory(history') /\ history'.tops = history.tops /\ history'.began = history.began
      /\ history'.cut = history.cut /\ history'.opened = history.opened /\ history'.closed = history.closed
      /\ history'.bad = Culprit(outcome) /\ history'.ran = history.ran
  BY <1>0, <1>2, <1>3, InTestFacts DEF IsHistory
<1>6. groups'.started = groups.started /\ groups'.failed = failed /\ DOMAIN groups' = {"started", "failed"}
  BY <1>0, <1>2, InTestFacts DEF TestTypeOK
<1>7. failed \subseteq groups.failed /\ groups.failed \ {g} \subseteq failed /\ (outcome # "ok" => g \in failed)
  BY <1>1
<1> HIDE DEF A, k, g, failed
<1>8. InTest'
  BY <1>4 DEF InTest
<1>9. TestTypeOK' /\ SharedInv' /\ Tests' = Tests
  <2>1. WithinTest
    BY <1>0, <1>2, <1>4, <1>5, <1>6, <1>8 DEF WithinTest
  <2> QED BY <2>1, WithinTestKeeps
<1>10. PlaceInv'
  BY <1>0, <1>1, <1>4, <1>5, <1>8, <1>9, <1>2, InTestFacts DEF PlaceInv, Blank
<1>11. GroupInv'
  <2>1. ASSUME NEW j \in Running(Tests), Looked(j)', NEW n \in DOMAIN Around(Tests, j) PROVE Met(Tests, j, n)'
    <3>1. Looked(j) /\ j < run.at /\ j \in DOMAIN Tests
      BY <1>4, <2>1 DEF Looked, Running
    <3>2. Met(Tests, j, n)
      BY <1>0, <2>1, <3>1, InTestFacts DEF GroupInv
    <3>3. \A m \in 1..(n - 1) : Around(Tests, j)[m] # g
      <4>1. \A m \in 1..(n - 1) : m \in DOMAIN Around(Tests, j)
        BY <2>1, <3>1, SuiteFacts
      <4> QED BY <1>1, <3>1, <4>1 DEF ToSet
    <3> QED BY <1>5, <1>6, <1>7, <1>9, <3>2, <3>3, MetStays
  <2>2. ASSUME NEW n \in DOMAIN A, n < k
        PROVE  Met(Tests, run.at, n)' /\ (run'.ok => A[n] \in groups'.started \ groups'.failed)
    <3>1. Met(Tests, run.at, n) /\ (run.ok => A[n] \in groups.started \ groups.failed)
      BY <1>0, <2>2, InTestFacts DEF GroupInv, A, k
    <3>2. \A m \in 1..(n - 1) : A[m] # g
      <4>1. \A m \in 1..(n - 1) : m \in DOMAIN A /\ m # k
        BY <1>0, <2>2, InTestFacts DEF A, k
      <4> QED BY <1>0, <1>1, <4>1, InTestFacts DEF A, g
    <3>3. Met(Tests, run.at, n)'
      <4>1. \A m \in 1..(n - 1) : A[m] \in groups.failed => A[m] \in groups'.failed
        BY <1>6, <1>7, <3>2
      <4> QED BY <1>4, <1>5, <1>6, <1>9, <3>1, <4>1 DEF A, Met
    <3> QED BY <1>4, <1>6, <1>7, <3>1, <3>3
  <2>3. groups'.failed \subseteq groups'.started /\ groups'.started = history'.opened
    BY <1>0, <1>5, <1>6, <1>7, InTestFacts DEF GroupInv
  <2>4. \A n \in DOMAIN Around(Tests, run.at) : n < k =>
          Met(Tests, run.at, n)' /\ (run'.ok => Around(Tests, run.at)[n] \in groups'.started \ groups'.failed)
    BY <2>2 DEF A
  <2> QED BY <1>0, <1>4, <1>6, <1>9, <2>1, <2>3, <2>4, InTestFacts DEF GroupInv
<1>12. CloseInv'
  <2>1. \A j : Past(j)' <=> Past(j)
    BY <1>4 DEF Past
  <2> QED BY <1>0, <1>4, <1>5, <1>9, <2>1, InTestFacts DEF CloseInv
<1>13. SaidInv'
  <2>1. \A i \in Culprit(outcome) \cup history.ran : i <= run.at /\ i # 0
    <3>1. run.at # 0 /\ run.at <= run.at
      BY <1>0, InTestFacts, SuiteFacts
    <3> QED BY <1>0, <1>3, <3>1, InTestFacts DEF SaidInv
  <2>2. \A n \in DOMAIN verdicts : n \in Culprit(outcome) => n \in history.bad
    BY <1>0, <1>3, InTestFacts
  <2>3. history.bad \subseteq Culprit(outcome)
    BY <1>3
  <2>4. run.ok /\ run.at \in Culprit(outcome) => k <= Len(A) /\ g \in failed
    BY <1>0, <1>1, <1>3, <1>7, InTestFacts DEF SaidInv
  <2>5. \A n \in DOMAIN verdicts :
          /\ verdicts[n].test = n
          /\ verdicts[n].status = "passed" => n \in history.ran /\ n \notin Culprit(outcome)
          /\ n \in Culprit(outcome) => verdicts[n].status = "failed"
    BY <1>0, <2>2, <2>3, InTestFacts DEF SaidInv
  <2> QED BY <1>0, <1>2, <1>4, <1>5, <1>6, <1>9, <2>1, <2>4, <2>5, InTestFacts DEF SaidInv, g, A
<1> QED BY <1>9, <1>10, <1>11, <1>12, <1>13 DEF TestInv

\* before, body, after and after_all end alike: the groups stay as they are.
LEMMA ScriptEndKeeps ==
  ASSUME TestInv, NEW outcome \in {"ok", "error"}, EndScript(outcome), run.step \in {"before", "body", "after", "after_all"}
  PROVE  TestInv'
<1> DEFINE A == Around(Tests, run.at)
           ran == IF run.step = "body" THEN history.ran \cup {run.at} ELSE history.ran
<1>0. InTest
  BY DEF InTest, ScriptSteps
<1>1. /\ history' = [history EXCEPT !.bad = Culprit(outcome), !.ran = ran] /\ UNCHANGED <<world, verdicts>>
  BY DEF EndScript
<1>2. /\ Culprit(outcome) \in SUBSET Nat /\ ran \in SUBSET Nat
      /\ Culprit(outcome) = IF outcome = "ok" THEN history.bad ELSE history.bad \cup {run.at}
  BY <1>0, InTestFacts DEF Culprit, IsHistory
<1>3. /\ UNCHANGED groups /\ IsRun(run') /\ run'.file = run.file /\ run'.at = run.at
      /\ run'.stopped = run.stopped /\ run'.poisoned = run.poisoned
      /\ run.step = "before" => run'.step = IF outcome = "ok" THEN "body" ELSE "after"
      /\ run.step = "body" => run'.step = "after"
      /\ run.step = "after" => run'.step = "close" /\ run'.group = Len(A)
      /\ run.step = "after_all" => run'.step = "close" /\ run'.group = run.group - 1
      /\ run'.ok => outcome = "ok" /\ (run.step \in {"after", "after_all"} => run.ok)
      /\ run.step = "before" /\ outcome = "ok" => run'.ok
  <2> DEFINE fine == outcome = "ok"
             both == run.ok /\ fine
  <2>0. fine \in BOOLEAN /\ both \in BOOLEAN
    OBVIOUS
  <2>1. CASE run.step = "before"
    <3>1. run' = [run EXCEPT !.ok = fine, !.step = IF fine THEN "body" ELSE "after"] /\ UNCHANGED groups
      BY <2>1 DEF EndScript
    <3>2. (IF fine THEN "body" ELSE "after") \in RunSteps
      BY DEF RunSteps
    <3> HIDE DEF fine
    <3>3. /\ IsRun(run') /\ run'.file = run.file /\ run'.at = run.at /\ run'.stopped = run.stopped
          /\ run'.poisoned = run.poisoned /\ run'.ok = fine /\ run'.step = IF fine THEN "body" ELSE "after"
      BY <1>0, <2>0, <3>1, <3>2, InTestFacts DEF IsRun
    <3> QED BY <2>1, <3>1, <3>3 DEF fine
  <2>2. CASE run.step = "body"
    <3>1. run' = [run EXCEPT !.ok = fine, !.step = "after"] /\ UNCHANGED groups
      BY <2>2 DEF EndScript
    <3> HIDE DEF fine
    <3>3. /\ IsRun(run') /\ run'.file = run.file /\ run'.at = run.at /\ run'.stopped = run.stopped
          /\ run'.poisoned = run.poisoned /\ run'.ok = fine /\ run'.step = "after"
      BY <1>0, <2>0, <3>1, InTestFacts DEF IsRun, RunSteps
    <3> QED BY <2>2, <3>1, <3>3 DEF fine
  <2>3. CASE run.step = "after"
    <3>1. run' = [run EXCEPT !.ok = both, !.step = "close", !.group = Len(A)] /\ UNCHANGED groups
      BY <1>0, <2>3, InTestFacts DEF EndScript
    <3> HIDE DEF both
    <3>3. /\ IsRun(run') /\ run'.file = run.file /\ run'.at = run.at /\ run'.stopped = run.stopped
          /\ run'.poisoned = run.poisoned /\ run'.ok = both /\ run'.step = "close" /\ run'.group = Len(A)
      BY <1>0, <2>0, <3>1, InTestFacts DEF IsRun, RunSteps
    <3> QED BY <2>3, <3>1, <3>3 DEF both
  <2>4. CASE run.step = "after_all"
    <3>1. run' = [run EXCEPT !.ok = both, !.step = "close", !.group = run.group - 1] /\ UNCHANGED groups
      BY <2>4 DEF EndScript
    <3>2. run.group - 1 \in Nat
      BY <1>0, <2>4, InTestFacts DEF PlaceInv
    <3> HIDE DEF both
    <3>3. /\ IsRun(run') /\ run'.file = run.file /\ run'.at = run.at /\ run'.stopped = run.stopped
          /\ run'.poisoned = run.poisoned /\ run'.ok = both /\ run'.step = "close" /\ run'.group = run.group - 1
      BY <1>0, <2>0, <3>1, <3>2, InTestFacts DEF IsRun, RunSteps
    <3> QED BY <2>4, <3>1, <3>3 DEF both
  <2> QED BY <2>1, <2>2, <2>3, <2>4
<1> HIDE DEF ran, A
<1>4. /\ IsHistory(history') /\ history'.tops = history.tops /\ history'.began = history.began
      /\ history'.cut = history.cut /\ history'.opened = history.opened /\ history'.closed = history.closed
      /\ history'.bad = Culprit(outcome) /\ history'.ran = ran
  BY <1>0, <1>1, <1>2, InTestFacts DEF IsHistory
<1>5. InTest' /\ run'.step \in {"body", "after", "close"} /\ (run'.step = "body" => run.step = "before" /\ outcome = "ok")
  BY <1>3 DEF InTest, ScriptSteps
<1>6. TestTypeOK' /\ SharedInv' /\ Tests' = Tests
  <2>1. DOMAIN groups' = {"started", "failed"}
    BY <1>0, <1>3, InTestFacts DEF TestTypeOK
  <2>2. WithinTest
    BY <1>0, <1>1, <1>3, <1>4, <1>5, <2>1 DEF WithinTest
  <2> QED BY <2>2, WithinTestKeeps
<1>7. PlaceInv'
  <2>1. run'.step = "close" => run'.group <= Len(A)
    BY <1>0, <1>3, InTestFacts DEF PlaceInv, A
  <2> QED BY <1>0, <1>1, <1>3, <1>4, <1>5, <1>6, <2>1, InTestFacts DEF PlaceInv, Blank, A
<1>8. GroupInv'
  <2>1. \A j, n : Met(Tests, j, n)' <=> Met(Tests, j, n)
    BY <1>3, <1>4, <1>6 DEF Met
  <2>2. \A j : Looked(j)' <=> Looked(j)
    BY <1>3, <1>5 DEF Looked
  <2> QED BY <1>0, <1>3, <1>4, <1>5, <1>6, <2>1, <2>2, InTestFacts DEF GroupInv
<1>9. CloseInv'
  <2>1. \A j : Past(j)' <=> Past(j)
    BY <1>3, <1>5 DEF Past
  <2>2. ASSUME ~history.cut, run'.step = "close", NEW n \in DOMAIN A, n > run'.group, LastOf(Tests, A[n]) = run.at
        PROVE  A[n] \in history.closed
    <3>1. run.step = "after_all" /\ (n > run.group \/ n = run.group)
      BY <1>0, <1>3, <2>2, InTestFacts DEF A
    <3> QED BY <1>0, <2>2, <3>1, InTestFacts DEF CloseInv, A
  <2>3. \A n \in DOMAIN Around(Tests, run.at) :
          ~history.cut /\ run'.step = "close" /\ n > run'.group /\ LastOf(Tests, Around(Tests, run.at)[n]) = run.at
          => Around(Tests, run.at)[n] \in history.closed
    BY <2>2 DEF A
  <2> QED BY <1>0, <1>3, <1>4, <1>5, <1>6, <2>1, <2>3, InTestFacts DEF CloseInv
<1>10. SaidInv'
  <2>0. run.at # 0 /\ run.at <= run.at /\ history.bad \subseteq Culprit(outcome) /\ history.ran \subseteq ran
    BY <1>0, <1>2, InTestFacts, SuiteFacts DEF ran
  <2>1. \A i \in Culprit(outcome) \cup ran : i <= run.at /\ i # 0
    BY <1>0, <1>2, <2>0, InTestFacts DEF SaidInv, ran
  <2>2. \A n \in DOMAIN verdicts : n # run.at
    BY <1>0, InTestFacts
  <2>3. \A n \in DOMAIN verdicts :
          /\ verdicts[n].test = n
          /\ verdicts[n].status = "passed" => n \in ran /\ n \notin Culprit(outcome)
          /\ n \in Culprit(outcome) => verdicts[n].status = "failed"
    <3>1. run.step \notin {"load", "over"}
      OBVIOUS
    <3>2. \A n \in DOMAIN verdicts : n \in Culprit(outcome) => n \in history.bad
      BY <1>2, <2>2
    <3> QED BY <1>0, <2>0, <3>1, <3>2, InTestFacts DEF SaidInv
  <2>4. \A i \in ran : ToSet(Around(Tests, i)) \subseteq history.opened
    BY <1>0, InTestFacts DEF SaidInv, GroupInv, ran
  <2>5. run'.step = "body" => run'.ok /\ run.at \notin Culprit(outcome)
    BY <1>0, <1>2, <1>3, <1>5, InTestFacts DEF SaidInv
  <2>6. run'.step \in {"after", "close"} /\ run'.ok => run.at \in ran /\ run.at \notin Culprit(outcome)
    <3>1. CASE run.step = "before"
      BY <1>3, <3>1
    <3>2. CASE run.step = "body"
      BY <1>0, <1>2, <1>3, <3>2, InTestFacts DEF SaidInv, ran
    <3>3. CASE run.step \in {"after", "after_all"}
      BY <1>0, <1>2, <1>3, <2>0, <3>3, InTestFacts DEF SaidInv
    <3> QED BY <3>1, <3>2, <3>3
  <2> QED BY <1>1, <1>3, <1>4, <1>5, <1>6, <2>1, <2>3, <2>4, <2>5, <2>6 DEF SaidInv
<1> QED BY <1>6, <1>7, <1>8, <1>9, <1>10 DEF TestInv

LEMMA CloseKeeps ==
  ASSUME TestInv, CloseGroup
  PROVE  TestInv'
<1> DEFINE A == Around(Tests, run.at)
           k == run.group
           g == A[k]
<1>0. InTest
  BY DEF CloseGroup, InTest
<1>1. run.step = "close" /\ k <= Len(A) /\ k >= 1 /\ k \in DOMAIN A /\ g \in ToSet(A) /\ UNCHANGED <<world, groups, verdicts>>
  BY <1>0, InTestFacts DEF CloseGroup, PlaceInv
<1>2. IF LastOf(Tests, g) = run.at
      THEN run' = [run EXCEPT !.step = "after_all"] /\ history' = [history EXCEPT !.closed = @ \cup {g}]
      ELSE run' = [run EXCEPT !.group = @ - 1] /\ UNCHANGED history
  BY <1>0, InTestFacts DEF CloseGroup
<1>3. \A i \in RunsIn(Tests, g) : i <= LastOf(Tests, g)
  BY <1>0, <1>1, InTestFacts, SuiteFacts, EndsFacts
<1>4. ~history.cut => g \in history.opened
  <2>1. Met(Tests, run.at, k)
    BY <1>0, <1>1, InTestFacts DEF GroupInv, Looked
  <2> QED BY <1>0, <2>1, InTestFacts DEF Met, GroupInv
<1>5. k - 1 \in Nat /\ k \in Nat
  BY <1>0, <1>1, InTestFacts
<1> HIDE DEF g
<1>6. /\ IsRun(run') /\ run'.file = run.file /\ run'.at = run.at /\ run'.ok = run.ok
      /\ run'.stopped = run.stopped /\ run'.poisoned = run.poisoned
      /\ IF LastOf(Tests, g) = run.at THEN run'.step = "after_all" /\ run'.group = k
         ELSE run'.step = "close" /\ run'.group = k - 1
  <2>1. IsRun(run) /\ run.step = "close"
    BY <1>0, <1>1, InTestFacts
  <2>2. CASE LastOf(Tests, g) = run.at
    <3>1. run' = [run EXCEPT !.step = "after_all"]
      BY <1>2, <2>2
    <3> QED BY <2>1, <2>2, <3>1 DEF IsRun, RunSteps
  <2>3. CASE LastOf(Tests, g) # run.at
    <3>1. run' = [run EXCEPT !.group = k - 1]
      BY <1>2, <2>3
    <3> QED BY <1>5, <2>1, <2>3, <3>1 DEF IsRun, RunSteps
  <2> QED BY <2>2, <2>3
<1>7. /\ IsHistory(history') /\ history'.tops = history.tops /\ history'.began = history.began
      /\ history'.cut = history.cut /\ history'.opened = history.opened
      /\ history'.closed = IF LastOf(Tests, g) = run.at THEN history.closed \cup {g} ELSE history.closed
      /\ history'.bad = history.bad /\ history'.ran = history.ran
  BY <1>0, <1>2, InTestFacts DEF IsHistory
<1>8. InTest' /\ run'.step \in {"close", "after_all"}
  BY <1>6 DEF InTest, ScriptSteps
<1>9. TestTypeOK' /\ SharedInv' /\ Tests' = Tests
  <2>1. DOMAIN groups' = {"started", "failed"}
    BY <1>0, <1>1, InTestFacts DEF TestTypeOK
  <2>2. WithinTest
    BY <1>0, <1>1, <1>6, <1>7, <1>8, <2>1 DEF WithinTest
  <2> QED BY <2>2, WithinTestKeeps
<1> HIDE DEF A, k
<1>10. PlaceInv'
  <2>1. run'.group <= Len(A) /\ (run'.step = "after_all" => run'.group >= 1)
    BY <1>0, <1>1, <1>5, <1>6, InTestFacts DEF A
  <2> QED BY <1>0, <1>1, <1>6, <1>7, <1>8, <1>9, <2>1, InTestFacts DEF PlaceInv, Blank, A
<1>11. GroupInv'
  <2>1. \A j, n : Met(Tests, j, n)' <=> Met(Tests, j, n)
    BY <1>1, <1>7, <1>9 DEF Met
  <2>2. \A j : Looked(j)' <=> Looked(j)
    BY <1>1, <1>6, <1>8 DEF Looked
  <2> QED BY <1>0, <1>1, <1>6, <1>7, <1>8, <1>9, <2>1, <2>2, InTestFacts DEF GroupInv
<1>12. CloseInv'
  <2>1. \A j : Past(j)' <=> Past(j)
    BY <1>1, <1>6, <1>8 DEF Past
  <2>2. \A c \in history'.closed : \A i \in RunsIn(Tests, c) : i <= run.at
    BY <1>0, <1>3, <1>7, InTestFacts DEF CloseInv
  <2>3. ~history.cut => history'.closed \subseteq history.opened
    BY <1>0, <1>4, <1>7, InTestFacts DEF CloseInv
  <2>4. history.closed \subseteq history'.closed
    BY <1>7
  <2>5. ASSUME ~history.cut, NEW n \in DOMAIN Around(Tests, run.at), LastOf(Tests, Around(Tests, run.at)[n]) = run.at,
               n > run'.group \/ (n = run'.group /\ run'.step = "after_all")
        PROVE  Around(Tests, run.at)[n] \in history'.closed
    <3>1. CASE n = k
      <4>1. Around(Tests, run.at)[n] = g
        BY <3>1 DEF g, A, k
      <4> QED BY <1>7, <2>5, <4>1
    <3>2. CASE n # k
      <4>1. n > run.group
        BY <1>0, <1>5, <1>6, <2>5, <3>2, InTestFacts DEF k
      <4> QED BY <1>0, <1>1, <2>4, <2>5, <4>1, InTestFacts DEF CloseInv
    <3> QED BY <3>1, <3>2
  <2> QED BY <1>0, <1>6, <1>7, <1>9, <2>1, <2>2, <2>3, <2>4, <2>5, InTestFacts DEF CloseInv
<1>13. SaidInv'
  BY <1>0, <1>1, <1>6, <1>7, <1>8, <1>9, InTestFacts DEF SaidInv
<1> QED BY <1>9, <1>10, <1>11, <1>12, <1>13 DEF TestInv

\* A call that is over: its test is reported, and what it may have cached is settled.
LEMMA OverKeeps ==
  ASSUME TestInv, InTest, NEW passed \in BOOLEAN, NEW w, IsWorld(w), w.touched = world.touched, w.cache = world.cache,
         EndTest(passed, w),
         IsRun(run'), run'.step = "next", run'.at = run.at, run'.file = run.file, run'.isolate = run.isolate,
         run'.poisoned => history'.cut,
         IsHistory(history'), history'.tops = history.tops, history'.opened = history.opened,
         history'.closed = history.closed, history'.ran = history.ran, history.cut => history'.cut,
         history.bad \subseteq history'.bad, history'.bad \subseteq history.bad \cup {run.at},
         passed => run.at \in history.ran /\ run.at \notin history'.bad,
         ~run'.stopped /\ ~run'.poisoned =>
           \A n \in DOMAIN Around(Tests, run.at) :
             \/ Around(Tests, run.at)[n] \in groups.started
             \/ history'.cut /\ \E m \in 1..(n - 1) : Around(Tests, run.at)[m] \in groups.failed,
         ~history'.cut => \A n \in DOMAIN Around(Tests, run.at) :
             LastOf(Tests, Around(Tests, run.at)[n]) = run.at => Around(Tests, run.at)[n] \in history.closed
  PROVE  TestInv'
<1> DEFINE told == IF Failed(passed, w) THEN "failed" ELSE "passed"
           v == IF run.isolate THEN Restored(w) ELSE w
<1>1. verdicts' = Append(verdicts, Says(run.at, told)) /\ world' = Settled(v) /\ groups' = groups
  BY DEF EndTest, Report
<1>2. /\ told \in Statuses /\ (told = "passed" => passed /\ (run.isolate => Restorable(w)))
      /\ (run.at \in history'.bad => told = "failed")
  BY DEF Failed, Statuses
<1>3. IsWorld(v) /\ v.touched = world.touched /\ v.cache = world.cache /\ (run.isolate /\ Restorable(w) => v.db = "snapshot")
  <2>1. /\ IsWorld(Restored(w)) /\ Restored(w).touched = w.touched /\ Restored(w).cache = w.cache
        /\ (Restorable(w) => Restored(w).db = "snapshot")
    BY WorldFacts
  <2> QED BY <2>1
<1> HIDE DEF told, v
<1>4. IsWorld(world') /\ world'.moved = FALSE /\ world'.db = v.db /\ world'.cache = IF world.touched THEN {} ELSE world.cache
  <2>1. /\ IsWorld(Settled(v)) /\ Settled(v).moved = FALSE /\ Settled(v).db = v.db
        /\ Settled(v).cache = IF v.touched THEN {} ELSE v.cache
    BY <1>3, WorldFacts
  <2> QED BY <1>1, <1>3, <2>1
<1>5. /\ verdicts' \in Seq(Sayings) /\ Len(verdicts') = run.at /\ verdicts'[run.at].status = told
      /\ verdicts'[run.at].test = run.at /\ \A n \in 1..(run.at - 1) : verdicts'[n] = verdicts[n]
  <2>1. Says(run.at, told) \in Sayings /\ Says(run.at, told).test = run.at /\ Says(run.at, told).status = told
    BY <1>2, InTestFacts, SaysFacts
  <2>2. verdicts \in Seq(Sayings) /\ Len(verdicts) = run.at - 1 /\ run.at \in Nat
    BY InTestFacts
  <2> QED BY <1>1, <2>1, <2>2
<1>6. TestTypeOK'
  BY <1>1, <1>4, <1>5, InTestFacts DEF TestTypeOK
<1>7. Tests' = Tests /\ ~InTest'
  BY DEF Tests, InTest, ScriptSteps
<1>8. PlaceInv'
  BY <1>5, <1>7, InTestFacts DEF PlaceInv, Blank
<1>9. SharedInv'
  <2>1. "moved" \in world'.cache => "moved" \in history.tops
    BY <1>4, InTestFacts DEF SharedInv
  <2>2. run.isolate /\ told = "passed" => world'.db = "snapshot"
    BY <1>2, <1>3, <1>4
  <2> QED BY <1>4, <1>5, <1>7, <2>1, <2>2 DEF SharedInv
<1>10. GroupInv'
  <2>1. ASSUME ~run'.stopped, ~run'.poisoned, NEW j \in Running(Tests), Looked(j)', NEW n \in DOMAIN Around(Tests, j)
        PROVE  Met(Tests, j, n)'
    <3>1. CASE j = run.at
      BY <1>1, <1>7, <2>1, <3>1 DEF Met
    <3>2. CASE j # run.at
      <4>1. Looked(j)
        BY <2>1, <3>2 DEF Looked
      <4>2. Met(Tests, j, n)
        BY <2>1, <4>1, InTestFacts DEF GroupInv
      <4> QED BY <1>1, <1>7, <4>2 DEF Met
    <3> QED BY <3>1, <3>2
  <2> QED BY <1>1, <1>7, <2>1, InTestFacts DEF GroupInv
<1>11. CloseInv'
  <2>1. ASSUME ~history'.cut, NEW j \in Running(Tests), Past(j)', NEW n \in DOMAIN Around(Tests, j),
               LastOf(Tests, Around(Tests, j)[n]) = j
        PROVE  Around(Tests, j)[n] \in history.closed
    <3>1. CASE j = run.at
      BY <2>1, <3>1
    <3>2. CASE j # run.at
      <4>1. Past(j)
        BY <2>1, <3>2 DEF Past
      <4> QED BY <2>1, <4>1, InTestFacts DEF CloseInv
    <3> QED BY <3>1, <3>2
  <2> QED BY <1>7, <2>1, InTestFacts DEF CloseInv
<1>12. SaidInv'
  <2>1. \A i \in history'.bad \cup history'.ran : i <= run.at /\ i # 0
    <3>1. run.at # 0 /\ run.at <= run.at
      BY InTestFacts, SuiteFacts
    <3> QED BY <3>1, InTestFacts DEF SaidInv
  <2>2. ASSUME NEW n \in DOMAIN verdicts'
        PROVE  /\ verdicts'[n].test = n
               /\ verdicts'[n].status = "passed" => n \in history.ran /\ n \notin history'.bad
               /\ n \in history'.bad => verdicts'[n].status = "failed"
    <3>1. CASE n = run.at
      BY <1>2, <1>5, <3>1
    <3>2. CASE n # run.at
      <4>1. n \in DOMAIN verdicts /\ verdicts'[n] = verdicts[n]
        <5>1. run.at \in Nat /\ Len(verdicts) = run.at - 1 /\ verdicts \in Seq(Sayings)
          BY InTestFacts
        <5>2. n \in 1..(run.at - 1)
          BY <1>5, <3>2, <5>1
        <5> QED BY <1>5, <5>1, <5>2
      <4>2. run.step \notin {"load", "over"}
        BY StepFacts
      <4> QED BY <3>2, <4>1, <4>2, InTestFacts DEF SaidInv
    <3> QED BY <3>1, <3>2
  <2> QED BY <1>7, <2>1, <2>2, InTestFacts DEF SaidInv
<1> QED BY <1>6, <1>8, <1>9, <1>10, <1>11, <1>12 DEF TestInv

LEMMA ReturnKeeps ==
  ASSUME TestInv, TestReturns
  PROVE  TestInv'
<1> DEFINE stops == StopsRun(run.ok, world)
           late == history.late /\ ~run.isolate
<1>0. InTest
  BY DEF TestReturns, InTest
<1>1. /\ run.step = "close" /\ run.group = 0 /\ EndTest(run.ok, world)
      /\ run' = [run EXCEPT !.step = "next", !.stopped = stops] /\ history' = [history EXCEPT !.late = late]
  BY DEF TestReturns
<1>2. stops \in BOOLEAN /\ late \in BOOLEAN /\ run.ok \in BOOLEAN
  BY <1>0, InTestFacts DEF StopsRun, IsRun
<1> HIDE DEF stops, late
<1>3. /\ IsRun(run') /\ run'.step = "next" /\ run'.at = run.at /\ run'.file = run.file /\ run'.isolate = run.isolate
      /\ run'.poisoned = run.poisoned
  BY <1>0, <1>1, <1>2, InTestFacts DEF IsRun, RunSteps
<1>4. /\ IsHistory(history') /\ history'.tops = history.tops /\ history'.opened = history.opened
      /\ history'.closed = history.closed /\ history'.ran = history.ran /\ history'.cut = history.cut
      /\ history'.bad = history.bad
  BY <1>0, <1>1, <1>2, InTestFacts DEF IsHistory
<1>5. run.ok => run.at \in history.ran /\ run.at \notin history.bad
  BY <1>0, <1>1, InTestFacts DEF SaidInv
<1>6. \A n \in DOMAIN Around(Tests, run.at) :
             \/ Around(Tests, run.at)[n] \in groups.started
             \/ history.cut /\ \E m \in 1..(n - 1) : Around(Tests, run.at)[m] \in groups.failed
  BY <1>0, <1>1, InTestFacts DEF GroupInv, Looked, Met
<1>7. ~history.cut => \A n \in DOMAIN Around(Tests, run.at) :
             LastOf(Tests, Around(Tests, run.at)[n]) = run.at => Around(Tests, run.at)[n] \in history.closed
  <2>1. \A n \in DOMAIN Around(Tests, run.at) : n > run.group
    BY <1>0, <1>1, InTestFacts
  <2> QED BY <1>0, <1>1, <2>1, InTestFacts DEF CloseInv
<1>8. IsWorld(world)
  BY <1>0, InTestFacts
<1> QED BY <1>0, <1>1, <1>2, <1>3, <1>4, <1>5, <1>6, <1>7, <1>8, OverKeeps, InTestFacts

LEMMA CutKeeps ==
  ASSUME TestInv, NEW how \in {"cut", "poison"}, TestIsCut(how)
  PROVE  TestInv'
<1> DEFINE w == [world EXCEPT !.job = @ \/ how = "cut"]
           stops == StopsRun(FALSE, w)
           poisoned == run.poisoned \/ how = "poison"
           bad == history.bad \cup {run.at}
<1>0. InTest
  BY DEF TestIsCut, InTest
<1>1. /\ run.step \in {"before_all", "before", "body", "after", "after_all"} /\ EndTest(FALSE, w)
      /\ run' = [run EXCEPT !.step = "next", !.stopped = stops, !.poisoned = poisoned]
      /\ history' = [history EXCEPT !.bad = bad, !.cut = TRUE]
  BY DEF TestIsCut, ScriptSteps
<1>2. stops \in BOOLEAN /\ poisoned \in BOOLEAN /\ bad \in SUBSET Nat
  BY <1>0, InTestFacts DEF StopsRun, IsRun, IsHistory
<1>3. IsWorld(w) /\ w.touched = world.touched /\ w.cache = world.cache
  BY <1>0, InTestFacts DEF IsWorld
<1> HIDE DEF stops, poisoned, w
<1>4. /\ IsRun(run') /\ run'.step = "next" /\ run'.at = run.at /\ run'.file = run.file /\ run'.isolate = run.isolate
  BY <1>0, <1>1, <1>2, InTestFacts DEF IsRun, RunSteps
<1>5. /\ IsHistory(history') /\ history'.tops = history.tops /\ history'.opened = history.opened
      /\ history'.closed = history.closed /\ history'.ran = history.ran /\ history'.cut = TRUE
      /\ history'.bad = bad
  BY <1>0, <1>1, <1>2, InTestFacts DEF IsHistory
<1>6. \A n \in DOMAIN Around(Tests, run.at) :
             \/ Around(Tests, run.at)[n] \in groups.started
             \/ \E m \in 1..(n - 1) : Around(Tests, run.at)[m] \in groups.failed
  <2>1. CASE run.step # "before_all"
    BY <1>0, <1>1, <2>1, InTestFacts DEF GroupInv, Looked, Met
  <2>2. CASE run.step = "before_all"
    <3> SUFFICES ASSUME NEW n \in DOMAIN Around(Tests, run.at)
                 PROVE  \/ Around(Tests, run.at)[n] \in groups.started
                        \/ \E m \in 1..(n - 1) : Around(Tests, run.at)[m] \in groups.failed
      OBVIOUS
    <3>1. /\ Around(Tests, run.at)[run.group] \in groups.failed /\ groups.failed \subseteq groups.started
          /\ run.group >= 1
      BY <1>0, <2>2, InTestFacts DEF GroupInv, PlaceInv
    <3>2. CASE n < run.group
      BY <1>0, <2>2, <3>2, InTestFacts DEF GroupInv, Met
    <3>3. CASE n = run.group
      BY <3>1, <3>3
    <3>4. CASE n > run.group
      <4>1. run.group \in 1..(n - 1)
        BY <1>0, <3>1, <3>4, InTestFacts
      <4> QED BY <3>1, <4>1
    <3> QED BY <1>0, <3>2, <3>3, <3>4, InTestFacts
  <2> QED BY <2>1, <2>2
<1> QED BY <1>0, <1>1, <1>3, <1>4, <1>5, <1>6, OverKeeps

LEMMA TestStartInv ==
  TestsInit => TestInv
<1> SUFFICES ASSUME TestsInit PROVE TestInv
  OBVIOUS
<1>1. /\ IsRun(run) /\ run.at = 0 /\ run.step = "load" /\ run.stopped = FALSE /\ run.poisoned = FALSE
      /\ IsWorld(world) /\ world.moved = FALSE /\ world.cache = {}
  BY PristineFacts DEF TestsInit
<1>2. /\ IsHistory(history) /\ history.opened = {} /\ history.closed = {} /\ history.bad = {} /\ history.ran = {}
      /\ history.cut = FALSE /\ groups.started = {} /\ groups.failed = {} /\ DOMAIN groups = {"started", "failed"}
      /\ verdicts = <<>>
  BY DEF TestsInit, NoHistory, NoGroups, IsHistory
<1>3. TestTypeOK /\ ~InTest
  BY <1>1, <1>2 DEF TestTypeOK, InTest, ScriptSteps
<1>4. Len(Tests) \in Nat /\ \A j \in Running(Tests) : j \in Nat /\ j # 0
  BY SuiteFacts DEF Running
<1>5. PlaceInv
  BY <1>1, <1>2, <1>3, <1>4 DEF PlaceInv
<1>6. SharedInv
  BY <1>1, <1>3 DEF SharedInv
<1>7. GroupInv
  BY <1>1, <1>2, <1>4 DEF GroupInv, Looked
<1>8. CloseInv
  BY <1>1, <1>2, <1>4 DEF CloseInv, Past
<1>9. SaidInv
  BY <1>1, <1>2 DEF SaidInv
<1> QED BY <1>3, <1>5, <1>6, <1>7, <1>8, <1>9 DEF TestInv

LEMMA TestStepKeeps ==
  TestInv /\ [TestsNext]_testVars => TestInv'
<1> SUFFICES ASSUME TestInv, [TestsNext]_testVars PROVE TestInv'
  OBVIOUS
<1>1. CASE LoadFile \/ FileDoesNotCompile \/ AllTestsDone \/ PassOver \/ BeginTest
  BY <1>1, LoadKeeps, NoCompileKeeps, DoneKeeps, PassOverKeeps, BeginKeeps
<1>2. CASE OpenGroup \/ GroupsOpen \/ CloseGroup \/ TestReturns \/ Isolate \/ LateJob
  BY <1>2, OpenKeeps, OpenedKeeps, CloseKeeps, ReturnKeeps, IsolateKeeps, LateJobKeeps
<1>3. CASE \E o \in {"ok", "error", "cut", "poison"} : EndTop(o)
  BY <1>3, EndTopKeeps
<1>4. CASE \E o \in {"ok", "error"} : EndScript(o)
  <2>1. PICK o \in {"ok", "error"} : EndScript(o)
    BY <1>4
  <2>2. run.step \in {"before_all", "before", "body", "after", "after_all"}
    BY <2>1 DEF EndScript, ScriptSteps
  <2> QED BY <2>1, <2>2, SetupEndKeeps, ScriptEndKeeps
<1>5. CASE \E o \in {"cut", "poison"} : TestIsCut(o)
  BY <1>5, CutKeeps
<1>6. CASE \E d \in Deeds : ScriptActs(d)
  BY <1>6, ActsKeeps
<1>7. CASE UNCHANGED testVars
  <2>1. UNCHANGED <<run, world, groups, verdicts, history>>
    BY <1>7 DEF testVars
  <2>2. TestTypeOK' /\ SharedInv'
    BY <2>1 DEF TestInv, TestTypeOK, SharedInv, InTest
  <2> QED BY <2>1, <2>2, QuietKeeps
<1> QED BY <1>1, <1>2, <1>3, <1>4, <1>5, <1>6, <1>7 DEF TestsNext

\* At the end of a file that was neither stopped nor cut, what was opened was closed.
LEMMA AllClosed ==
  ASSUME TestInv, run.step = "next", run.at = Len(Tests), ~run.stopped, ~history.cut
  PROVE  history.opened = history.closed
<1>1. GroupInv /\ CloseInv
  BY DEF TestInv
<1>2. history.closed \subseteq history.opened
  BY <1>1 DEF CloseInv
<1>3. ASSUME NEW g \in history.opened PROVE g \in history.closed
  <2>1. PICK j \in Running(Tests) : g \in ToSet(Around(Tests, j))
    BY <1>1 DEF GroupInv
  <2> DEFINE i == LastOf(Tests, g)
  <2>2. i \in RunsIn(Tests, g) /\ i \in Running(Tests)
    BY <2>1, SuiteFacts, EndsFacts
  <2>3. i \in DOMAIN Tests /\ g \in ToSet(Around(Tests, i))
    BY <2>2 DEF RunsIn, Around
  <2>4. PICK k \in DOMAIN Around(Tests, i) : g = Around(Tests, i)[k]
    BY <2>3 DEF ToSet
  <2>5. Past(i)
    BY <2>3, SuiteFacts DEF Past
  <2> QED BY <1>1, <2>2, <2>4, <2>5 DEF CloseInv
<1> QED BY <1>2, <1>3

LEMMA TestInvSays ==
  TestInv => TestsStandAlone
<1> SUFFICES ASSUME TestInv PROVE TestsStandAlone
  OBVIOUS
<1>0. /\ TestTypeOK /\ PlaceInv /\ SharedInv /\ GroupInv /\ CloseInv /\ SaidInv /\ verdicts \in Seq(Sayings)
      /\ run.at \in Nat
  BY DEF TestInv, TestTypeOK, IsRun
<1>1. NothingIsInherited
  <2>1. run.step = "next" /\ verdicts # <<>> => run.at > 0 /\ Last(verdicts) = verdicts[run.at]
    <3>1. run.step = "next" => Len(verdicts) = run.at
      BY <1>0 DEF PlaceInv
    <3>2. verdicts # <<>> => Len(verdicts) > 0
      BY <1>0
    <3> QED BY <1>0, <3>1, <3>2 DEF Last
  <2> QED BY <1>0, <2>1 DEF NothingIsInherited, SharedInv
<1>2. HooksSurround
  <2>1. run.step \in {"before", "body"} => ToSet(Current.groups) \subseteq groups.started \ groups.failed
    BY <1>0 DEF GroupInv, Current, Around
  <2>2. \A i \in history.ran : ToSet(Tests[i].groups) \subseteq history.opened
    BY <1>0 DEF SaidInv, Around
  <2> QED BY <1>0, <2>1, <2>2, AllClosed DEF HooksSurround, CloseInv
<1>3. VerdictsAreTrue
  <2>1. ASSUME run.step \notin {"load", "over"}, NEW v \in ToSet(verdicts), v.test > 0
        PROVE  /\ v.status = "passed" => v.test \in history.ran \ history.bad
               /\ v.test \in history.bad => v.status = "failed"
    <3>1. PICK n \in DOMAIN verdicts : v = verdicts[n]
      BY DEF ToSet
    <3> QED BY <1>0, <2>1, <3>1 DEF SaidInv
  <2>2. run.step = "next" => Len(verdicts) = run.at
    BY <1>0 DEF PlaceInv
  <2> QED BY <2>1, <2>2 DEF VerdictsAreTrue
<1> QED BY <1>1, <1>2, <1>3 DEF TestsStandAlone

\* `nitr test`, for every suite whose groups form trees and every number of things its
\* scripts do: a test starts without what the others left behind, its setup happened
\* before its body, what was opened is closed unless a call was cut or the run stopped,
\* and a verdict says what the test and its hooks did, whatever fails, is filtered out
\* or is cut off by its budget.
THEOREM SuitesStandAlone ==
  TestsSpec => []TestsStandAlone
<1>1. TestsInit => TestInv
  BY TestStartInv
<1>2. TestInv /\ [TestsNext]_testVars => TestInv'
  BY TestStepKeeps
<1>3. TestInv => TestsStandAlone
  BY TestInvSays
<1> QED BY <1>1, <1>2, <1>3, PTL DEF TestsSpec

-----------------------------------------------------------------------------
(* The configuration of a process.                                         *)
(*                                                                         *)
(* Each phase of the start has one configuration that it can have come to, *)
(* spelled by the layers read so far.  The places a setting names are told *)
(* apart by where their paths resolve to, name by name.                    *)

\* The places a walk passes, one for every name.
Trail(from, names, n, at) == [i \in 0..n |-> IF i = 0 THEN from ELSE Walk(at[i - 1], names[i])]

LEMMA TrailExists ==
  ASSUME NEW from, NEW names, NEW n \in Nat
  PROVE  \E at : at = Trail(from, names, n, at)
<1> DEFINE Bad == {m \in Nat : ~\E at : at = Trail(from, names, m, at)}
<1> SUFFICES ASSUME Bad # {} PROVE FALSE
  OBVIOUS
<1>1. PICK m \in Bad : \A k \in Bad : m <= k
  BY LeastNatural
<1>2. CASE m = 0
  <2>1. [i \in 0..0 |-> from] = Trail(from, names, 0, [i \in 0..0 |-> from])
    BY DEF Trail
  <2> QED BY <1>1, <1>2, <2>1
<1>3. CASE m # 0
  <2>1. m \in Nat /\ m - 1 \in Nat /\ m - 1 \notin Bad
    BY <1>1, <1>3
  <2>2. PICK f : f = Trail(from, names, m - 1, f)
    BY <2>1
  <2> DEFINE g == [i \in 0..m |-> IF i < m THEN f[i] ELSE Walk(f[m - 1], names[m])]
  <2>3. \A i \in 0..(m - 1) : f[i] = IF i = 0 THEN from ELSE Walk(f[i - 1], names[i])
    <3>1. \A i \in 0..(m - 1) : Trail(from, names, m - 1, f)[i] = IF i = 0 THEN from ELSE Walk(f[i - 1], names[i])
      BY DEF Trail
    <3> QED BY <2>2, <3>1
  <2>4. \A i \in 0..m : g[i] = IF i = 0 THEN from ELSE Walk(g[i - 1], names[i])
    <3> SUFFICES ASSUME NEW i \in 0..m PROVE g[i] = IF i = 0 THEN from ELSE Walk(g[i - 1], names[i])
      OBVIOUS
    <3>1. CASE i = m
      <4>1. g[i] = Walk(f[m - 1], names[m]) /\ g[i - 1] = f[m - 1] /\ i # 0
        BY <1>3, <2>1, <3>1
      <4> QED BY <3>1, <4>1
    <3>2. CASE i # m /\ i # 0
      <4>1. i \in 0..(m - 1) /\ g[i] = f[i] /\ g[i - 1] = f[i - 1]
        BY <2>1, <3>2
      <4> QED BY <2>3, <3>2, <4>1
    <3>3. CASE i # m /\ i = 0
      <4>1. i \in 0..(m - 1) /\ g[i] = f[i]
        BY <2>1, <3>3
      <4> QED BY <2>3, <3>3, <4>1
    <3> QED BY <3>1, <3>2, <3>3
  <2> HIDE DEF g
  <2>5. g = Trail(from, names, m, g)
    <3>1. g = [i \in 0..m |-> g[i]]
      BY DEF g
    <3> QED BY <2>4, <3>1 DEF Trail
  <2> QED BY <1>1, <2>5
<1> QED BY <1>2, <1>3

LEMMA ReachedByTrail ==
  ASSUME NEW from, NEW names, Len(names) \in Nat
  PROVE  \E at : /\ Reached(from, names) = at[Len(names)]
                 /\ \A i \in 0..Len(names) : at[i] = IF i = 0 THEN from ELSE Walk(at[i - 1], names[i])
<1> DEFINE at == CHOOSE f : f = Trail(from, names, Len(names), f)
<1>1. Reached(from, names) = at[Len(names)]
  BY DEF Reached, Trail
<1>2. at = Trail(from, names, Len(names), at)
  BY TrailExists
<1> HIDE DEF at
<1>3. \A i \in 0..Len(names) : Trail(from, names, Len(names), at)[i] = IF i = 0 THEN from ELSE Walk(at[i - 1], names[i])
  BY DEF Trail
<1> QED BY <1>1, <1>2, <1>3

\* No name leads nowhere; one more name is one more step.
LEMMA ReachedSteps ==
  ASSUME NEW from, NEW names, IsList(names)
  PROVE  /\ names = <<>> => Reached(from, names) = from
         /\ names # <<>> => Reached(from, names) = Walk(Reached(from, Front(names)), Last(names))
<1> DEFINE n == Len(names)
           front == Front(names)
<1>1. n \in Nat /\ names \in Seq(ToSet(names)) /\ (names = <<>> => n = 0) /\ (names # <<>> => n > 0)
  BY DEF IsList
<1>2. PICK at : /\ Reached(from, names) = at[n]
                /\ \A i \in 0..n : at[i] = IF i = 0 THEN from ELSE Walk(at[i - 1], names[i])
  BY <1>1, ReachedByTrail
<1>3. CASE names = <<>>
  BY <1>1, <1>2, <1>3
<1>4. CASE names # <<>>
  <2>1. Len(front) = n - 1 /\ n - 1 \in Nat /\ \A i \in 1..(n - 1) : front[i] = names[i]
    <3>1. n - 1 \in Nat /\ 1 <= 1 /\ n - 1 <= n
      BY <1>1, <1>4
    <3>2. front = SubSeq(names, 1, n - 1)
      BY DEF Front
    <3>3. \A i \in 1..(n - 1) : names[i] \in ToSet(names)
      BY <1>1, <3>1
    <3>4. /\ Len(SubSeq(names, 1, n - 1)) = (IF 1 <= n - 1 THEN n - 1 - 1 + 1 ELSE 0)
          /\ \A i \in 1..(n - 1 - 1 + 1) : SubSeq(names, 1, n - 1)[i] = names[1 + i - 1]
      BY <3>1, <3>3, SubSeqProperties
    <3> HIDE DEF n, front
    <3>5. Len(front) = n - 1
      BY <3>1, <3>2, <3>4
    <3>6. ASSUME NEW i \in 1..(n - 1) PROVE front[i] = names[i]
      <4>1. i \in 1..(n - 1 - 1 + 1) /\ 1 + i - 1 = i
        BY <3>1
      <4> QED BY <3>2, <3>4, <4>1
    <3> QED BY <3>1, <3>5, <3>6
  <2>2. PICK up : /\ Reached(from, front) = up[n - 1]
                  /\ \A i \in 0..(n - 1) : up[i] = IF i = 0 THEN from ELSE Walk(up[i - 1], front[i])
    <3> HIDE DEF front
    <3>1. Len(front) \in Nat
      BY <2>1
    <3> QED BY <2>1, <3>1, ReachedByTrail
  <2> DEFINE Bad == {i \in Nat : i <= n - 1 /\ at[i] # up[i]}
  <2>3. ASSUME Bad # {} PROVE FALSE
    <3>1. PICK m \in Bad : \A k \in Bad : m <= k
      BY <2>3, LeastNatural
    <3>2. m \in 0..(n - 1) /\ m \in 0..n /\ at[m] # up[m]
      BY <2>1, <3>1
    <3>3. CASE m = 0
      BY <1>2, <2>2, <3>2, <3>3
    <3>4. CASE m # 0
      <4>1. m - 1 \notin Bad /\ m - 1 \in Nat /\ m - 1 <= n - 1 /\ m \in 1..(n - 1)
        <5>1. m - 1 \in Nat /\ m - 1 <= n - 1 /\ m \in 1..(n - 1) /\ ~(m <= m - 1)
          BY <2>1, <3>2, <3>4
        <5> HIDE DEF Bad
        <5> QED BY <3>1, <5>1
      <4>2. at[m - 1] = up[m - 1]
        BY <4>1
      <4> QED BY <1>2, <2>1, <2>2, <3>2, <3>4, <4>1, <4>2
    <3> QED BY <3>3, <3>4
  <2>4. at[n - 1] = up[n - 1]
    BY <2>1, <2>3
  <2>5. n \in 0..n /\ n # 0
    BY <1>1, <1>4
  <2>6. at[n] = Walk(at[n - 1], names[n])
    BY <1>2, <2>5
  <2> QED BY <1>2, <1>4, <2>2, <2>4, <2>6 DEF Last
<1> QED BY <1>3, <1>4

-----------------------------------------------------------------------------
(* Where a path leads *)

\* The directory of a file that is named: the working directory for a bare name.
DirOf(p) == IF IsEmpty(Parent(p)) THEN Here(<<".">>) ELSE Parent(p)

LEMMA DirFacts ==
  ASSUME NEW p, NamesFile(p)
  PROVE  /\ Canonical(DirOf(p)) = Enters(p)
         /\ IsEmpty(Parent(p)) => Enters(p) = Cwd
         /\ ~IsEmpty(Parent(p)) => Canonical(Parent(p)) = Enters(p)
         /\ Canonical(p) = Walk(Enters(p), Last(p.steps))
<1>1. /\ p.abs \in BOOLEAN /\ IsList(p.steps) /\ p.steps # <<>> /\ Parent(p).abs = p.abs
      /\ Parent(p).steps = Front(p.steps)
  <2>1. p = [abs |-> p.abs, steps |-> p.steps]
    BY DEF NamesFile
  <2>2. Parent(p) = [abs |-> p.abs, steps |-> Front(p.steps)]
    BY <2>1 DEF Parent
  <2> QED BY <2>2 DEF NamesFile
<1>2. Canonical(p) = Walk(Enters(p), Last(p.steps))
  BY <1>1, ReachedSteps DEF Canonical, Enters
<1>3. Cwd # Missing
  BY FilesAreInFolders
<1>4. CASE IsEmpty(Parent(p))
  <2>1. ~p.abs /\ Front(p.steps) = <<>> /\ StartsAt(p) = Cwd
    BY <1>1, <1>4 DEF IsEmpty, StartsAt
  <2>2. IsList(<<>>) /\ IsList(<<".">>) /\ Front(<<".">>) = <<>> /\ Last(<<".">>) = "." /\ <<".">> # <<>>
    <3>1. ToSet(<<".">>) = {"."} /\ <<".">> \in Seq({"."})
      BY DEF ToSet
    <3>2. <<>> \in Seq(ToSet(<<>>))
      OBVIOUS
    <3>3. Front(<<".">>) = <<>> /\ Last(<<".">>) = "."
      BY DEF Front, Last
    <3> QED BY <3>1, <3>2, <3>3 DEF IsList
  <2>3. Reached(Cwd, <<>>) = Cwd
    BY <2>2, ReachedSteps
  <2>4. Reached(Cwd, <<".">>) = Walk(Cwd, ".")
    BY <2>2, <2>3, ReachedSteps
  <2>5. Walk(Cwd, ".") = Cwd
    BY <1>3 DEF Walk
  <2>6. Canonical(Here(<<".">>)) = Reached(Cwd, <<".">>)
    BY <2>2 DEF Canonical, Here, StartsAt
  <2> QED BY <1>2, <1>4, <2>1, <2>3, <2>4, <2>5, <2>6 DEF DirOf, Enters
<1>5. CASE ~IsEmpty(Parent(p))
  <2>1. Canonical(Parent(p)) = Reached(StartsAt(p), Front(p.steps))
    BY <1>1, <1>5 DEF Canonical, StartsAt, IsEmpty
  <2> QED BY <1>2, <1>5, <2>1 DEF DirOf, Enters
<1> QED BY <1>4, <1>5

\* What is compared is what is opened, when its directory is there.
LEMMA ResolvedIsOpened ==
  ASSUME NEW p, NamesFile(p), Enters(p) # Missing
  PROVE  ResolvedFile(p) = Opens(p)
<1> DEFINE last == Last(p.steps)
           f == Append(Enters(p), last)
<1>1. last # "." /\ last # ".."
  BY DEF NamesFile
<1>2. Canonical(p) = Walk(Enters(p), last) /\ Canonical(DirOf(p)) = Enters(p)
  BY DirFacts
<1>3. Walk(Enters(p), last) = IF f \in DOMAIN Links THEN Links[f] ELSE IF Exists(f) THEN f ELSE Missing
  BY <1>1 DEF Walk
<1>4. (f \in DOMAIN Links => Links[f] # Missing) /\ (Exists(f) => f # Missing)
  BY FilesAreInFolders DEF Exists
<1>5. Opens(p) = IF f \in DOMAIN Links THEN Links[f] ELSE f
  BY DEF Opens
<1>6. ResolvedFile(p) = IF Canonical(p) # Missing THEN Canonical(p)
                        ELSE IF Canonical(DirOf(p)) # Missing THEN f ELSE p.steps
  BY <1>2 DEF ResolvedFile, DirOf
<1> HIDE DEF f, last
<1> QED BY <1>2, <1>3, <1>4, <1>5, <1>6

LEMMA FrontOfAppend ==
  ASSUME NEW S, NEW s \in Seq(S), NEW x \in S
  PROVE  Append(s, x) # <<>> /\ Front(Append(s, x)) = s
BY DEF Front

LEMMA OpensApart ==
  ASSUME NEW p, NEW q, NamesFile(p), NamesFile(q), Enters(q) \in Folders, ResolvedFile(p) # ResolvedFile(q)
  PROVE  Opens(p) # Opens(q)
<1>1. Enters(q) # Missing /\ ResolvedFile(q) = Opens(q)
  BY FilesAreInFolders, ResolvedIsOpened
<1>2. CASE Enters(p) # Missing
  BY <1>1, <1>2, ResolvedIsOpened
<1>3. CASE Enters(p) = Missing
  <2> DEFINE f == Append(Missing, Last(p.steps))
             g == Append(Enters(q), Last(q.steps))
  <2>1. f # <<>> /\ Front(f) = Missing
    <3>1. Missing \in Seq({"missing", Last(p.steps)})
      BY DEF Missing
    <3> HIDE DEF Missing
    <3> QED BY <3>1, FrontOfAppend
  <2>2. f \notin Folders \cup Files \cup DOMAIN Links
    BY <2>1, FilesAreInFolders
  <2>3. Opens(p) = f
    BY <1>3, <2>2 DEF Opens
  <2>4. Front(g) = Enters(q)
    <3>1. IsList(Enters(q))
      BY FilesAreInFolders
    <3>2. Enters(q) \in Seq(ToSet(Enters(q)) \cup {Last(q.steps)})
      BY <3>1 DEF IsList
    <3> QED BY <3>2, FrontOfAppend
  <2>5. Opens(q) \in Folders \cup Files \cup {g}
    BY FilesAreInFolders DEF Opens
  <2> QED BY <1>1, <2>1, <2>2, <2>3, <2>4, <2>5
<1> QED BY <1>2, <1>3

-----------------------------------------------------------------------------
(* What the layers spell *)

Settings == DOMAIN Default
Filed == IF deployment.bundle THEN OfBundle(FromFile) ELSE FromFile

\* The settings a property looks into, and those nothing but their layers decides.
Typed == {"workers", "openapiPath", "swaggerPath", "liveness", "readiness", "handler", "database", "testDatabase"}
Layered == (FromEnviron \cup Carried \cup Typed) \ {"dev", "migrations"}

DevSaid == ~deployment.bundle /\ (deployment.devFlag \/ Said("dev")[1])

\* Which settings have the values of their layers, and that these are of their types.
Spelled(c, names) == Settings \subseteq DOMAIN c /\ \A s \in names : c[s] = Said(s) /\ HasType(s, c[s])

\* nitr test runs on its own database if one is configured.
OwnDatabase(c) ==
  c.database # <<>> =>
    /\ Said("database") # <<>>
    /\ \/ c.testDatabase = <<>> /\ c.database = <<Scratch>>
       \/ /\ c.testDatabase # <<>> /\ c.database = c.testDatabase
          /\ ResolvedFile(Said("database")[1]) # ResolvedFile(c.testDatabase[1])

\* What Config::validate() answers for of a configuration that is served.
Answered(c) == ValuesHold(c) /\ DocsHold(c) /\ ProbesHold(c) /\ PlacesHold(c)

BootInv ==
  /\ deployment \in Deployments
  /\ boot = "start" => environ = deployment.env
  /\ boot = "envfile" => conf = Filed /\ environ = deployment.env
  /\ boot = "environ" => conf = Filed /\ \A s : Lookup(environ, s) = Variable(s)
  /\ boot = "flags" => conf = [s \in DOMAIN conf |-> conf[s]] /\ Spelled(conf, Layered \cup {"dev"})
  /\ boot = "test" => /\ conf = [s \in DOMAIN conf |-> conf[s]] /\ Spelled(conf, Layered) /\ conf.dev = <<DevSaid>>
                      /\ deployment.command = "test"
  /\ boot \in {"validate", "serving"} =>
       /\ Spelled(conf, Layered \ {"static", "database"}) /\ conf.dev = <<DevSaid>>
       /\ deployment.command = "test" => OwnDatabase(conf)
  /\ boot = "serving" => Answered(conf)
  /\ boot \in {"start", "envfile", "environ", "flags", "test", "validate", "serving", "refused"}

LEMMA DefaultFacts ==
  /\ Layered \cup {"dev", "envFile", "output", "migrations", "static", "database"} \subseteq Settings
  /\ Default.envFile = <<>> /\ Default.database = <<>>
  /\ \A s \in Typed : HasType(s, Default[s])
  /\ Default = [s \in Settings |-> Default[s]]
<1>1. /\ Default = [s \in Settings |-> Default[s]]
      /\ Settings = {"handler", "configScript", "templating", "static", "uploads", "database", "migrations", "tests",
           "testDatabase", "seed", "workers", "streams", "dev", "envFile", "output", "openapi", "openapiPath",
           "swagger", "swaggerPath", "options", "specUrl", "externalSpec", "health", "healthBind", "liveness",
           "readiness", "tls", "cert", "key", "handshake", "minVersion", "cookies", "connections",
           "probeConnections", "poolWait", "exec", "maxHeader", "maxUri", "memory", "rate", "requests", "window",
           "origins", "credentials", "malformed", "features", "proxy", "noProxy", "privateNets", "hosts"}
  BY DEF Settings, Default
<1>2. Layered \cup {"dev", "envFile", "output", "migrations", "static", "database"} \subseteq Settings
  BY <1>1 DEF Layered, Typed, FromEnviron, Carried
<1>3. Default.envFile = <<>> /\ Default.database = <<>> /\ Default.testDatabase = <<>>
  BY DEF Default
<1>4. /\ Default.workers = <<2>> /\ Default.openapiPath = << <<"openapi.json">> >>
      /\ Default.swaggerPath = << <<"docs">> >> /\ Default.liveness = << <<"healthz">> >>
      /\ Default.readiness = << <<"readyz">> >> /\ Default.handler = <<Here(<<"scripts", "handler.lua">>)>>
  BY DEF Default
<1>5. \A x : IsList(<<x>>) /\ IsOne(<<x>>) /\ <<x>>[1] = x
  <2>1. \A x : ToSet(<<x>>) = {x} /\ <<x>> \in Seq({x})
    BY DEF ToSet
  <2>2. \A x : Len(<<x>>) = 1
    OBVIOUS
  <2> QED BY <2>1, <2>2 DEF IsList, IsOne
<1>6. NamesFile(Here(<<"scripts", "handler.lua">>))
  <2> DEFINE l == <<"scripts", "handler.lua">>
  <2>1. ToSet(l) = {"scripts", "handler.lua"} /\ l \in Seq({"scripts", "handler.lua"}) /\ l # <<>> /\ Last(l) = "handler.lua"
    BY DEF ToSet, Last
  <2> HIDE DEF l
  <2>2. Here(l) = [abs |-> FALSE, steps |-> l]
    BY DEF Here
  <2>3. NamesFile([abs |-> FALSE, steps |-> l])
    BY <2>1 DEF NamesFile, IsList
  <2> QED BY <2>2, <2>3 DEF l
<1>7. \A s \in Typed : HasType(s, Default[s])
  <2>1. HasType("workers", Default["workers"])
    BY <1>4, <1>5 DEF HasType
  <2>2. HasType("openapiPath", Default["openapiPath"])
    BY <1>4, <1>5 DEF HasType
  <2>3. HasType("swaggerPath", Default["swaggerPath"])
    BY <1>4, <1>5 DEF HasType
  <2>4. HasType("liveness", Default["liveness"])
    BY <1>4, <1>5 DEF HasType
  <2>5. HasType("readiness", Default["readiness"])
    BY <1>4, <1>5 DEF HasType
  <2>6. HasType("handler", Default["handler"])
    BY <1>4, <1>5, <1>6 DEF HasType
  <2>7. HasType("database", Default["database"]) /\ HasType("testDatabase", Default["testDatabase"])
    BY <1>3 DEF HasType
  <2> QED BY <2>1, <2>2, <2>3, <2>4, <2>5, <2>6, <2>7 DEF Typed
<1> QED BY <1>1, <1>2, <1>3, <1>7

LEMMA AnchoredNames ==
  ASSUME NEW p, NamesFile(p)
  PROVE  NamesFile(Anchored(p))
<1>1. CASE p.abs
  BY <1>1 DEF Anchored
<1>2. CASE ~p.abs
  <2> DEFINE l == BundleRoot \o p.steps
             S == ToSet(BundleRoot) \cup ToSet(p.steps)
  <2>1. BundleRoot \in Seq(S) /\ p.steps \in Seq(S) /\ p.steps # <<>> /\ Last(p.steps) \notin {".", ".."}
    BY FilesAreInFolders DEF NamesFile, IsList
  <2>2. l \in Seq(S) /\ l # <<>> /\ Last(l) = Last(p.steps)
    BY <2>1 DEF Last
  <2>3. l \in Seq(ToSet(l))
    <3> HIDE DEF l, S
    <3>1. l = [i \in 1..Len(l) |-> l[i]] /\ Len(l) \in Nat /\ \A i \in 1..Len(l) : l[i] \in ToSet(l)
      BY <2>2 DEF ToSet
    <3>2. l \in [1..Len(l) -> ToSet(l)]
      BY <3>1
    <3> QED BY <3>1, <3>2, SeqDef
  <2>4. Anchored(p) = [abs |-> TRUE, steps |-> l]
    BY <1>2 DEF Anchored
  <2> HIDE DEF l
  <2>5. NamesFile([abs |-> TRUE, steps |-> l])
    BY <2>1, <2>2, <2>3 DEF NamesFile, IsList
  <2> QED BY <2>4, <2>5
<1> QED BY <1>1, <1>2

LEMMA FileFacts ==
  ASSUME deployment \in Deployments
  PROVE  /\ Settings \subseteq DOMAIN Filed /\ Filed = [s \in DOMAIN Filed |-> Filed[s]]
         /\ \A s \in Settings \ {"output", "migrations"} : Filed[s] = FileSaid(s)
         /\ \A s \in Settings : HasType(s, FromFile[s]) /\ HasType(s, FileSaid(s))
         /\ Filed["envFile"] = Lookup(deployment.file, "envFile")
         /\ FromFile["database"] = Lookup(deployment.file, "database")
<1>1. /\ DOMAIN FromFile = DOMAIN deployment.file \cup Settings
      /\ FromFile = [s \in DOMAIN FromFile |-> FromFile[s]]
      /\ \A s \in Settings : FromFile[s] = IF s \in DOMAIN deployment.file THEN deployment.file[s] ELSE Default[s]
  <2> DEFINE d == Default
  <2>1. FromFile = [s \in DOMAIN deployment.file \cup DOMAIN d |-> IF s \in DOMAIN deployment.file THEN deployment.file[s] ELSE d[s]]
    BY DEF FromFile, Layer
  <2> HIDE DEF d
  <2> QED BY <2>1 DEF Settings, d
<1>2. \A s \in Settings : HasType(s, FromFile[s])
  <2>1. \A s \in DOMAIN deployment.file : HasType(s, deployment.file[s])
    BY DeploymentsAreTyped
  <2>2. \A s \in Settings : HasType(s, Default[s])
    <3>1. \A s, v : s \notin Typed => HasType(s, v)
      BY DEF Typed, HasType
    <3> QED BY <3>1, DefaultFacts
  <2> QED BY <1>1, <2>1, <2>2
<1>3. \A s \in Settings : HasType(s, FileSaid(s))
  <2> SUFFICES ASSUME NEW s \in Settings PROVE HasType(s, FileSaid(s))
    OBVIOUS
  <2>1. CASE ~(deployment.bundle /\ s \in Carried /\ FromFile[s] # <<>>)
    BY <1>2, <2>1 DEF FileSaid
  <2>2. CASE deployment.bundle /\ s \in Carried /\ FromFile[s] # <<>>
    <3>1. FileSaid(s) = <<Anchored(FromFile[s][1])>>
      BY <2>2 DEF FileSaid
    <3>2. CASE s = "handler"
      <4>1. NamesFile(FromFile[s][1])
        BY <1>2, <3>2 DEF HasType
      <4> DEFINE a == Anchored(FromFile[s][1])
      <4>2. NamesFile(a)
        BY <4>1, AnchoredNames
      <4> HIDE DEF a
      <4>3. IsOne(<<a>>) /\ <<a>>[1] = a
        <5>1. ToSet(<<a>>) = {a} /\ <<a>> \in Seq({a}) /\ Len(<<a>>) = 1
          BY DEF ToSet
        <5> QED BY <5>1 DEF IsOne, IsList
      <4>4. HasType("handler", <<a>>)
        BY <4>2, <4>3 DEF HasType
      <4> QED BY <3>1, <3>2, <4>4 DEF a
    <3>3. CASE s # "handler"
      BY <2>2, <3>3 DEF HasType, Carried
    <3> QED BY <3>2, <3>3
  <2> QED BY <2>1, <2>2
<1>4. "envFile" \in Settings /\ "database" \in Settings /\ Default.envFile = <<>> /\ Default.database = <<>>
  BY DefaultFacts
<1>5. FromFile["envFile"] = Lookup(deployment.file, "envFile") /\ FromFile["database"] = Lookup(deployment.file, "database")
  BY <1>1, <1>4 DEF Lookup
<1>6. CASE ~deployment.bundle
  BY <1>1, <1>2, <1>3, <1>5, <1>6 DEF Filed, FileSaid
<1>7. CASE deployment.bundle
  <2> DEFINE r == Rebase(FromFile)
             beside == [abs |-> TRUE, steps |-> BundleRoot \o <<"migrations">>]
             m == IF r.database # <<>> /\ r.migrations = <<>> /\ IsDir(beside) THEN <<beside>> ELSE r.migrations
  <2>1. Filed = [r EXCEPT !.output = <<>>, !.migrations = m]
    BY <1>7 DEF Filed, OfBundle
  <2>2. /\ DOMAIN r = DOMAIN FromFile /\ r = [s \in DOMAIN r |-> r[s]]
        /\ \A s \in DOMAIN FromFile : r[s] = FileSaid(s)
    BY <1>1, <1>7 DEF Rebase, FileSaid
  <2> HIDE DEF r, m
  <2>3. /\ DOMAIN Filed = DOMAIN r /\ Filed = [s \in DOMAIN Filed |-> Filed[s]]
        /\ \A s \in DOMAIN r \ {"output", "migrations"} : Filed[s] = r[s]
    BY <2>1, <2>2
  <2>4. FileSaid("envFile") = FromFile["envFile"]
    BY DEF FileSaid, Carried
  <2> QED BY <1>1, <1>2, <1>3, <1>4, <1>5, <2>2, <2>3, <2>4
<1> QED BY <1>6, <1>7

\* What a variable of the environment says is of its setting's type, or does not parse.
LEMMA VariableFacts ==
  ASSUME deployment \in Deployments, NEW s, Variable(s) # <<>>
  PROVE  /\ (s \in Parsed /\ Variable(s) = <<Unparseable>>) \/ HasType(s, Variable(s))
         /\ \E l \in EnvLayers(deployment) : s \in DOMAIN l /\ l[s] = Variable(s)
<1> DEFINE e == IF s \in DOMAIN deployment.env THEN deployment.env ELSE EnvFileSaid
<1>1. Variable(s) = Lookup(e, s)
  BY DEF Variable
<1>2. s \in DOMAIN e /\ Variable(s) = e[s]
  BY <1>1 DEF Lookup
<1>3. e \in EnvLayers(deployment)
  <2>1. CASE s \in DOMAIN deployment.env
    BY <2>1 DEF EnvLayers
  <2>2. CASE s \notin DOMAIN deployment.env
    <3>1. s \in DOMAIN EnvFileSaid
      BY <1>2, <2>2
    <3>2. EnvFileSaid \in {deployment.dotenvs[n] : n \in DOMAIN deployment.dotenvs}
      BY <3>1 DEF EnvFileSaid
    <3> QED BY <2>2, <3>2 DEF EnvLayers
  <2> QED BY <2>1, <2>2
<1>4. e[s] = <<>> \/ (s \in Parsed /\ e[s] = <<Unparseable>>) \/ HasType(s, e[s])
  BY <1>2, <1>3, DeploymentsAreTyped
<1> QED BY <1>2, <1>3, <1>4

\* Nothing a step does changes what the layers say.
LEMMA SaidStays ==
  ASSUME deployment' = deployment
  PROVE  /\ Filed' = Filed /\ DevSaid' = DevSaid
         /\ \A s : Said(s)' = Said(s) /\ Variable(s)' = Variable(s)
<1>1. FromFile' = FromFile /\ EnvFileSaid' = EnvFileSaid
  BY DEF FromFile, EnvFileSaid
<1>2. \A s : Variable(s)' = Variable(s) /\ FileSaid(s)' = FileSaid(s)
  BY <1>1 DEF Variable, FileSaid
<1>3. \A s : Said(s)' = Said(s)
  BY <1>2 DEF Said
<1> QED BY <1>1, <1>2, <1>3 DEF Filed, DevSaid

LEMMA SpelledStays ==
  ASSUME deployment' = deployment, NEW names, Spelled(conf', names)
  PROVE  Spelled(conf, names)'
BY SaidStays DEF Spelled

LEMMA OwnStays ==
  ASSUME deployment' = deployment, OwnDatabase(conf')
  PROVE  OwnDatabase(conf)'
BY SaidStays DEF OwnDatabase

LEMMA ReadConfigStep ==
  ASSUME BootInv, ReadConfig
  PROVE  BootInv'
<1>1. boot = "start" /\ deployment' = deployment /\ deployment \in Deployments /\ environ = deployment.env
  BY DEF BootInv, ReadConfig, Refuse, Proceed
<1>2. CASE boot' = "refused"
  BY <1>1, <1>2 DEF BootInv
<1>3. CASE boot' = "envfile" /\ conf' = Filed /\ environ' = environ
  <2>1. Filed' = Filed
    BY <1>1, SaidStays
  <2> QED BY <1>1, <1>3, <2>1 DEF BootInv
<1> QED BY <1>2, <1>3 DEF ReadConfig, Refuse, Proceed, Filed

\* The name the file and the environment give the environment file is the one read.
LEMMA LoadEnvFileStep ==
  ASSUME BootInv, LoadEnvFile
  PROVE  BootInv'
<1>1. /\ boot = "envfile" /\ deployment' = deployment /\ deployment \in Deployments
      /\ conf = Filed /\ environ = deployment.env
  BY DEF BootInv, LoadEnvFile, Refuse, Proceed
<1> DEFINE name == IF EnvFileNamed = <<>> THEN ".env" ELSE EnvFileNamed[1]
<1>2. EnvFileNamed = Lookup(deployment.env, "NITR_ENV_FILE") \o Lookup(deployment.file, "envFile")
  BY <1>1, FileFacts DEF EnvFileNamed
<1>3. EnvFileSaid = IF name \in DOMAIN deployment.dotenvs THEN deployment.dotenvs[name] ELSE [x \in {} |-> <<>>]
  BY <1>2 DEF EnvFileSaid
<1>4. CASE boot' = "refused"
  BY <1>1, <1>4 DEF BootInv
<1>5. ASSUME boot' = "environ", conf' = conf, \A s : Lookup(environ', s) = Variable(s)
      PROVE  BootInv'
  <2>1. Filed' = Filed /\ \A s : Variable(s)' = Variable(s)
    BY <1>1, SaidStays
  <2>2. \A s : Lookup(environ, s)' = Lookup(environ', s)
    BY DEF Lookup
  <2>3. (conf = Filed /\ \A s : Lookup(environ, s) = Variable(s))'
    BY <1>1, <1>5, <2>1, <2>2
  <2> QED BY <1>1, <1>5, <2>3 DEF BootInv
<1>6. CASE /\ name \in DOMAIN deployment.dotenvs /\ environ' = Loaded(environ, deployment.dotenvs[name])
           /\ boot' = "environ" /\ conf' = conf
  <2>1. \A s : Lookup(environ', s) = Variable(s)
    BY <1>1, <1>3, <1>6 DEF Loaded, Layer, Lookup, Variable
  <2> QED BY <1>5, <1>6, <2>1
<1>7. CASE name \notin DOMAIN deployment.dotenvs /\ boot' = "environ" /\ conf' = conf /\ environ' = environ
  <2>1. \A s : Lookup(environ', s) = Variable(s)
    BY <1>1, <1>3, <1>7 DEF Lookup, Variable
  <2> QED BY <1>5, <1>7, <2>1
<1> HIDE DEF name
<1>8. \/ boot' = "refused"
      \/ /\ name \in DOMAIN deployment.dotenvs /\ environ' = Loaded(environ, deployment.dotenvs[name])
         /\ boot' = "environ" /\ conf' = conf
      \/ name \notin DOMAIN deployment.dotenvs /\ boot' = "environ" /\ conf' = conf /\ environ' = environ
  BY DEF LoadEnvFile, Refuse, Proceed, name
<1> QED BY <1>4, <1>6, <1>7, <1>8

\* A value that does not parse ends the start before it is used.
LEMMA ApplyEnvStep ==
  ASSUME BootInv, ApplyEnv
  PROVE  BootInv'
<1>1. /\ boot = "environ" /\ deployment' = deployment /\ deployment \in Deployments
      /\ conf = Filed /\ \A s : Lookup(environ, s) = Variable(s)
  BY DEF BootInv, ApplyEnv, Refuse, Proceed
<1> DEFINE set == {s \in DOMAIN environ : environ[s] # <<>>}
<1>2. CASE boot' = "refused"
  BY <1>1, <1>2 DEF BootInv
<1>3. CASE /\ ~\E s \in set \cap Parsed : environ[s] = <<Unparseable>>
           /\ conf' = [s \in DOMAIN conf |-> IF s \in set \cap FromEnviron THEN environ[s] ELSE conf[s]]
           /\ boot' = "flags"
  <2>1. \A s : (s \in set <=> Variable(s) # <<>>) /\ (s \in set => environ[s] = Variable(s))
    BY <1>1 DEF Lookup
  <2> HIDE DEF set
  <2>2. DOMAIN conf' = DOMAIN Filed /\ Settings \subseteq DOMAIN conf' /\ conf' = [s \in DOMAIN conf' |-> conf'[s]]
    BY <1>1, <1>3, FileFacts
  <2>3. ASSUME NEW s \in Layered \cup {"dev"} PROVE conf'[s] = Said(s) /\ HasType(s, conf'[s])
    <3>1. s \in Settings /\ s \notin {"output", "migrations"}
      BY DefaultFacts DEF Layered, FromEnviron, Carried, Typed
    <3>2. conf[s] = FileSaid(s) /\ HasType(s, FileSaid(s)) /\ s \in DOMAIN conf
      BY <1>1, <3>1, FileFacts
    <3>3. CASE s \in set \cap FromEnviron
      <4>1. conf'[s] = Variable(s) /\ Variable(s) # <<>> /\ Said(s) = Variable(s)
        BY <1>3, <2>1, <3>2, <3>3 DEF Said
      <4>2. ~(s \in Parsed /\ Variable(s) = <<Unparseable>>)
        BY <1>3, <2>1, <3>3
      <4> QED BY <1>1, <4>1, <4>2, VariableFacts
    <3>4. CASE s \notin set \cap FromEnviron
      <4>1. conf'[s] = conf[s]
        BY <1>3, <3>2, <3>4
      <4>2. Said(s) = FileSaid(s)
        BY <2>1, <3>4 DEF Said
      <4> QED BY <3>2, <4>1, <4>2
    <3> QED BY <3>3, <3>4
  <2>4. Spelled(conf', Layered \cup {"dev"})
    BY <2>2, <2>3 DEF Spelled
  <2>5. Spelled(conf, Layered \cup {"dev"})'
    BY <1>1, <2>4, SpelledStays
  <2> QED BY <1>1, <1>3, <2>2, <2>5 DEF BootInv
<1> QED BY <1>2, <1>3 DEF ApplyEnv, Refuse, Proceed

LEMMA ApplyFlagsStep ==
  ASSUME BootInv, ApplyFlags
  PROVE  BootInv'
<1>1. /\ boot = "flags" /\ deployment' = deployment /\ deployment \in Deployments
      /\ conf = [s \in DOMAIN conf |-> conf[s]] /\ Spelled(conf, Layered \cup {"dev"})
      /\ conf' = [conf EXCEPT !.dev = <<~deployment.bundle /\ (deployment.devFlag \/ @[1])>>]
      /\ boot' = deployment.command
  BY DEF BootInv, ApplyFlags, Proceed
<1>2. deployment.command \in {"validate", "test"}
  BY <1>1, DeploymentsAreTyped
<1>3. "dev" \in DOMAIN conf /\ conf.dev = Said("dev") /\ "dev" \notin Layered
  BY <1>1, DefaultFacts DEF Spelled, Layered, Typed
<1>4. conf' = [conf EXCEPT !.dev = <<DevSaid>>]
  BY <1>1, <1>3 DEF DevSaid
<1>5. /\ DOMAIN conf' = DOMAIN conf /\ conf' = [s \in DOMAIN conf' |-> conf'[s]] /\ conf'["dev"] = <<DevSaid>>
      /\ \A s \in DOMAIN conf \ {"dev"} : conf'[s] = conf[s]
  BY <1>1, <1>3, <1>4
<1>6. Spelled(conf', Layered)
  <2>1. Layered \subseteq DOMAIN conf \ {"dev"}
    BY <1>1, <1>3, DefaultFacts DEF Spelled
  <2> QED BY <1>1, <1>5, <2>1 DEF Spelled
<1>7. Spelled(conf', Layered \ {"static", "database"})
  BY <1>6 DEF Spelled
<1>8. Spelled(conf, Layered)' /\ Spelled(conf, Layered \ {"static", "database"})'
  BY <1>1, <1>6, <1>7, SpelledStays
<1>9. DevSaid' = DevSaid /\ (conf.dev = <<DevSaid>>)'
  BY <1>1, <1>5, SaidStays
<1>10. CASE deployment.command = "validate"
  BY <1>1, <1>8, <1>9, <1>10 DEF BootInv
<1>11. CASE deployment.command = "test"
  BY <1>1, <1>5, <1>8, <1>9, <1>11 DEF BootInv
<1> QED BY <1>2, <1>10, <1>11

\* The tests take their own database, and validate_testing() told it from the live one.
LEMMA ValidateTestingStep ==
  ASSUME BootInv, ValidateTesting
  PROVE  BootInv'
<1>1. /\ boot = "test" /\ deployment' = deployment /\ deployment \in Deployments /\ deployment.command = "test"
      /\ conf = [s \in DOMAIN conf |-> conf[s]] /\ Spelled(conf, Layered) /\ conf.dev = <<DevSaid>>
  BY DEF BootInv, ValidateTesting, Refuse, Proceed
<1> DEFINE c == IF conf.static # <<>> /\ ~IsDir(conf.static[1]) THEN [conf EXCEPT !.static = <<>>] ELSE conf
           own == IF c.testDatabase # <<>> THEN c.testDatabase ELSE <<Scratch>>
<1>2. CASE boot' = "refused"
  BY <1>1, <1>2 DEF BootInv
<1>3. CASE TestsHold(c) /\ conf' = [c EXCEPT !.database = IF @ = <<>> THEN @ ELSE own] /\ boot' = "validate"
  <2>1. {"static", "database", "testDatabase", "dev"} \subseteq Settings /\ Settings \subseteq DOMAIN conf
    BY <1>1, DefaultFacts DEF Spelled, Layered, Typed
  <2>2. /\ DOMAIN c = DOMAIN conf /\ c = [s \in DOMAIN c |-> c[s]]
        /\ \A s \in DOMAIN conf \ {"static"} : c[s] = conf[s]
    BY <1>1, <2>1
  <2> HIDE DEF c
  <2>3. /\ DOMAIN conf' = DOMAIN conf /\ \A s \in DOMAIN conf \ {"static", "database"} : conf'[s] = conf[s]
        /\ conf'["database"] = IF c["database"] = <<>> THEN <<>> ELSE own
    BY <1>3, <2>1, <2>2
  <2>4. Layered \subseteq DOMAIN conf /\ "dev" \in DOMAIN conf
    BY <2>1, DefaultFacts
  <2>5. Spelled(conf', Layered \ {"static", "database"})
    BY <1>1, <2>1, <2>3, <2>4 DEF Spelled
  <2>6. conf["database"] = Said("database") /\ c["database"] = conf["database"]
    <3>1. "database" \in Layered
      BY DEF Layered, Typed
    <3> QED BY <1>1, <2>1, <2>2, <3>1 DEF Spelled
  <2>7. c["testDatabase"] = conf'["testDatabase"]
    BY <2>1, <2>2, <2>3
  <2>8. OwnDatabase(conf')
    <3> SUFFICES ASSUME conf'["database"] # <<>>
                 PROVE  /\ Said("database") # <<>>
                        /\ \/ conf'["testDatabase"] = <<>> /\ conf'["database"] = <<Scratch>>
                           \/ /\ conf'["testDatabase"] # <<>> /\ conf'["database"] = conf'["testDatabase"]
                              /\ ResolvedFile(Said("database")[1]) # ResolvedFile(conf'["testDatabase"][1])
      BY DEF OwnDatabase
    <3>1. Said("database") # <<>> /\ conf'["database"] = own
      BY <2>3, <2>6
    <3>2. CASE c["testDatabase"] = <<>>
      BY <2>7, <3>1, <3>2
    <3>3. CASE c["testDatabase"] # <<>>
      <4>1. ResolvedFile(c["database"][1]) # ResolvedFile(c["testDatabase"][1])
        BY <1>3, <2>6, <3>1, <3>3 DEF TestsHold, BothSet
      <4> QED BY <2>6, <2>7, <3>1, <3>3, <4>1
    <3> QED BY <3>2, <3>3
  <2>9. Spelled(conf, Layered \ {"static", "database"})' /\ OwnDatabase(conf)'
    BY <1>1, <2>5, <2>8, SpelledStays, OwnStays
  <2>10. (conf.dev = <<DevSaid>>)'
    <3>1. DevSaid' = DevSaid
      BY <1>1, SaidStays
    <3> QED BY <1>1, <2>3, <2>4, <3>1
  <2> QED BY <1>1, <1>3, <2>9, <2>10 DEF BootInv
<1> QED BY <1>2, <1>3 DEF ValidateTesting, Refuse, Proceed

LEMMA ValidateStep ==
  ASSUME BootInv, Validate
  PROVE  BootInv'
<1>1. /\ boot = "validate" /\ deployment' = deployment /\ deployment \in Deployments /\ conf.dev = <<DevSaid>>
      /\ Spelled(conf, Layered \ {"static", "database"}) /\ (deployment.command = "test" => OwnDatabase(conf))
  BY DEF BootInv, Validate, Refuse, Proceed
<1>2. CASE boot' = "refused"
  BY <1>1, <1>2 DEF BootInv
<1>3. CASE boot' = "serving" /\ conf' = conf /\ Valid(conf)
  <2>1. Spelled(conf, Layered \ {"static", "database"})'
    BY <1>1, <1>3, SpelledStays
  <2>2. (deployment.command = "test" => OwnDatabase(conf))'
    BY <1>1, <1>3, OwnStays
  <2>3. (conf.dev = <<DevSaid>>)'
    BY <1>1, <1>3, SaidStays
  <2>4. Answered(conf)'
    <3>1. Answered(conf)
      BY <1>3 DEF Valid, Answered
    <3> QED BY <1>3, <3>1
  <2> QED BY <1>1, <1>3, <2>1, <2>2, <2>3, <2>4 DEF BootInv
<1> QED BY <1>2, <1>3 DEF Validate, Refuse, Proceed

LEMMA BootStutters ==
  ASSUME BootInv, UNCHANGED bootVars
  PROVE  BootInv'
<1>1. deployment' = deployment /\ environ' = environ /\ conf' = conf /\ boot' = boot
  BY DEF bootVars
<1>2. /\ \A names : Spelled(conf, names)' = Spelled(conf, names) /\ OwnDatabase(conf)' = OwnDatabase(conf)
      /\ DevSaid' = DevSaid /\ Filed' = Filed /\ (\A s : Variable(s)' = Variable(s)) /\ Answered(conf)' = Answered(conf)
  BY <1>1, SaidStays DEF Spelled, OwnDatabase
<1>3. \A s : Lookup(environ, s)' = Lookup(environ, s)
  BY <1>1
<1> QED BY <1>1, <1>2, <1>3 DEF BootInv

-----------------------------------------------------------------------------
(* What is served *)

\* What is written and what is run are told apart where the paths lead.
LEMMA ServedPlaces ==
  ASSUME BootInv, boot = "serving"
  PROVE  PlacesApart
<1>1. /\ deployment \in Deployments /\ PlacesHold(conf) /\ Spelled(conf, Layered \ {"static", "database"})
      /\ (deployment.command = "test" => OwnDatabase(conf))
  BY DEF BootInv, Answered
<1>2. HasType("handler", conf["handler"]) /\ HasType("testDatabase", conf["testDatabase"])
  <2>1. {"handler", "testDatabase"} \subseteq Layered \ {"static", "database"}
    BY DEF Layered, Typed
  <2> QED BY <1>1, <2>1 DEF Spelled
<1>3. NamesFile(conf.handler[1])
  BY <1>2 DEF HasType
<1>4. PackageDir(conf) = DirOf(conf.handler[1])
  BY DEF PackageDir, DirOf
<1>5. Canonical(PackageDir(conf)) = Enters(conf.handler[1]) /\ Enters(conf.handler[1]) # Missing
  <2>1. Canonical(conf.handler[1]) \in Files /\ Missing \notin Files
    BY <1>1, FilesAreInFolders DEF PlacesHold, PlacesExist, IsFile
  <2>2. Canonical(conf.handler[1]) = Walk(Enters(conf.handler[1]), Last(conf.handler[1].steps))
    BY <1>3, DirFacts
  <2>3. \A name : Walk(Missing, name) = Missing
    BY DEF Walk
  <2> QED BY <1>3, <1>4, <2>1, <2>2, <2>3, DirFacts
<1>6. ASSUME NEW s \in {"templating", "static", "uploads"}, conf[s] # <<>>
      PROVE  Canonical(conf[s][1]) # Missing
  BY <1>1, <1>6, FilesAreInFolders DEF PlacesHold, PlacesExist, IsDir
<1>7. conf.uploads # <<>> =>
        /\ ~IsPrefix(Enters(conf.handler[1]), Canonical(conf.uploads[1]))
        /\ conf.templating # <<>> => ~IsPrefix(Canonical(conf.templating[1]), Canonical(conf.uploads[1]))
  BY <1>1, <1>5, <1>6 DEF PlacesHold, Within, BothSet
<1>8. conf.static # <<>> =>
        /\ ~IsPrefix(Canonical(conf.static[1]), Enters(conf.handler[1]))
        /\ conf.templating # <<>> => ~IsPrefix(Canonical(conf.static[1]), Canonical(conf.templating[1]))
  BY <1>1, <1>5, <1>6 DEF PlacesHold, Within, BothSet
<1>9. ASSUME deployment.command = "test", conf.database # <<>>
      PROVE  Opens(conf.database[1]) # Opens(Said("database")[1])
  <2> DEFINE live == Said("database")
  <2>1. live # <<>> /\ \E l \in {deployment.file} \cup EnvLayers(deployment) : "database" \in DOMAIN l /\ l["database"] = live
    <3>1. live # <<>>
      BY <1>1, <1>9 DEF OwnDatabase
    <3>2. CASE live = Variable("database")
      BY <1>1, <3>1, <3>2, VariableFacts
    <3>3. CASE live = FileSaid("database")
      <4>1. live = Lookup(deployment.file, "database")
        BY <1>1, <3>3, FileFacts DEF FileSaid, Carried
      <4> QED BY <3>1, <4>1 DEF Lookup
    <3> QED BY <3>2, <3>3 DEF Said
  <2>2. HasType("database", live)
    <3>1. "database" \notin Parsed /\ "database" \in Settings
      BY DefaultFacts DEF Parsed
    <3>2. HasType("database", FileSaid("database"))
      BY <1>1, <3>1, FileFacts
    <3>3. Variable("database") # <<>> => HasType("database", Variable("database"))
      BY <1>1, <3>1, VariableFacts
    <3> QED BY <3>2, <3>3 DEF Said
  <2>3. NamesFile(live[1])
    BY <2>1, <2>2 DEF HasType
  <2> HIDE DEF live
  <2>4. CASE conf.testDatabase = <<>> /\ conf.database = <<Scratch>>
    <3>1. Opens(live[1]) # Opens(Scratch)
      BY <1>1, <2>1, ScratchIsFresh
    <3> QED BY <2>4, <3>1 DEF live
  <2>5. CASE /\ conf.testDatabase # <<>> /\ conf.database = conf.testDatabase
             /\ ResolvedFile(live[1]) # ResolvedFile(conf.testDatabase[1])
    <3> DEFINE own == conf.testDatabase[1]
    <3>1. NamesFile(own)
      BY <1>2, <2>5 DEF HasType
    <3>2. IsEmpty(Parent(own)) \/ IsDir(Parent(own))
      BY <1>1, <1>9, <2>5 DEF PlacesHold
    <3>3. Enters(own) \in Folders
      BY <3>1, <3>2, DirFacts, FilesAreInFolders DEF IsDir
    <3>4. Opens(live[1]) # Opens(own)
      BY <2>3, <2>5, <3>1, <3>3, OpensApart
    <3> QED BY <2>5, <3>4 DEF live
  <2> QED BY <1>1, <1>9, <2>4, <2>5 DEF OwnDatabase, live
<1> QED BY <1>7, <1>8, <1>9 DEF PlacesApart

LEMMA PrefixFacts ==
  ASSUME NEW S, NEW s \in Seq(S), NEW t \in Seq(S)
  PROVE  /\ IsPrefix(s, s \o t) /\ IsPrefix(s, s)
         /\ t # <<>> => s \o t # s
<1>1. Len(s) \in Nat /\ Len(s \o t) = Len(s) + Len(t) /\ Len(t) \in Nat /\ Len(s) <= Len(s \o t)
  OBVIOUS
<1>2. SubSeq(s \o t, 1, Len(s)) = SubSeq(s, 1, Len(s))
  <2>1. \A i \in 1..Len(s) : (s \o t)[i] = s[i]
    OBVIOUS
  <2> QED BY <1>1, <2>1
<1>3. ASSUME t # <<>> PROVE s \o t # s
  <2>1. Len(t) > 0
    BY <1>3
  <2> QED BY <1>1, <2>1
<1> QED BY <1>1, <1>2, <1>3 DEF IsPrefix

\* No endpoint hides another one.
LEMMA ServedEndpoints ==
  ASSUME BootInv, boot = "serving"
  PROVE  EndpointsAnswer
<1>1. DocsHold(conf) /\ ProbesHold(conf) /\ PathsHold(conf) /\ Spelled(conf, Layered \ {"static", "database"})
  BY DEF BootInv, Answered, DocsHold
<1>2. ASSUME NEW s \in {"openapiPath", "swaggerPath", "liveness", "readiness"}
      PROVE  IsOne(conf[s]) /\ IsList(conf[s][1])
  <2>1. s \in Layered \ {"static", "database"}
    BY DEF Layered, Typed
  <2>2. HasType(s, conf[s])
    BY <1>1, <2>1 DEF Spelled
  <2> QED BY <2>2 DEF HasType
<1> DEFINE live == conf.liveness[1]
           ready == conf.readiness[1]
           doc == conf.openapiPath[1]
           page == conf.swaggerPath[1]
           asset == AssetOf(conf)
<1>3. ProbesOnMain(conf) => live # ready
  <2>1. conf.liveness # conf.readiness => live # ready
    <3>1. IsOne(conf.liveness) /\ IsOne(conf.readiness)
      BY <1>2
    <3> QED BY <3>1 DEF IsOne, IsList
  <2> QED BY <1>1, <2>1 DEF ProbesHold, ProbesOnMain
<1>4. ProbesOnMain(conf) => (conf.openapi[1] => doc \notin {live, ready}) /\ (conf.swagger[1] => page \notin {live, ready})
  BY <1>1 DEF PathsHold
<1>5. /\ conf.openapi[1] /\ conf.swagger[1] => doc # page /\ doc # asset
      /\ asset # page
  <2> DEFINE rest == <<"assets", "v", "ui.js">>
             S == ToSet(page) \cup {"assets", "v", "ui.js"}
  <2>1. page \in Seq(S) /\ rest \in Seq(S)
    <3>1. page \in Seq(ToSet(page))
      BY <1>2 DEF IsList
    <3> QED BY <3>1
  <2>2. asset = page \o rest
    BY DEF AssetOf
  <2>5. rest # <<>>
    OBVIOUS
  <2> HIDE DEF page, rest, S, asset
  <2>3. IsPrefix(page, page) /\ IsPrefix(page, asset)
    BY <2>1, <2>2, PrefixFacts
  <2>4. asset # page
    BY <2>1, <2>2, <2>5, PrefixFacts
  <2> QED BY <1>1, <2>3, <2>4 DEF PathsHold, Overlap, page
<1>6. conf.swagger[1] /\ conf.specUrl = <<>> => conf.openapi[1]
  BY <1>1 DEF DocsHold
<1> HIDE DEF live, ready, doc, page, asset
<1>7. \A url : AnsweredBy(conf, url) = IF ProbesOnMain(conf) /\ url = live THEN "liveness"
                                       ELSE IF ProbesOnMain(conf) /\ url = ready THEN "readiness"
                                       ELSE IF conf.openapi[1] /\ url = doc THEN "document"
                                       ELSE IF conf.swagger[1] /\ url = page THEN "page"
                                       ELSE IF conf.swagger[1] /\ url = asset THEN "asset"
                                       ELSE "application"
  BY DEF AnsweredBy, live, ready, doc, page, asset
<1>8. ProbesOnMain(conf) => AnsweredBy(conf, live) = "liveness" /\ AnsweredBy(conf, ready) = "readiness"
  BY <1>3, <1>7
<1>9. conf.openapi[1] => AnsweredBy(conf, doc) = "document"
  BY <1>4, <1>7
<1>10. conf.swagger[1] =>
         /\ AnsweredBy(conf, page) = "page"
         /\ AnsweredBy(conf, asset) = "asset" \/ (ProbesOnMain(conf) /\ asset \in {live, ready})
  BY <1>4, <1>5, <1>7
<1> QED BY <1>6, <1>8, <1>9, <1>10 DEF EndpointsAnswer, live, ready, doc, page, asset

LEMMA ServedStreams ==
  ASSUME BootInv, boot = "serving"
  PROVE  StreamsFit
<1>1. ValuesHold(conf) /\ conf.workers[1] \in Nat
  <2>1. ValuesHold(conf) /\ Spelled(conf, Layered \ {"static", "database"})
    BY DEF BootInv, Answered
  <2>2. HasType("workers", conf["workers"])
    BY <2>1 DEF Spelled, Layered, Typed
  <2> QED BY <2>1, <2>2 DEF HasType
<1>2. conf.streams # <<>> => conf.streams[1] \in 1..AtLeastOne(conf.workers[1])
  BY <1>1 DEF ValuesHold
<1>3. \A n \in Nat : AtLeastOne(AtLeastOne(n) - 1) \in 1..AtLeastOne(n)
  BY DEF AtLeastOne
<1> QED BY <1>1, <1>2, <1>3 DEF StreamsFit, MaxStreams

LEMMA ServedLayers ==
  ASSUME BootInv, boot = "serving"
  PROVE  LayersHold
<1>1. Spelled(conf, Layered \ {"static", "database"}) /\ conf.dev = <<DevSaid>>
  BY DEF BootInv
<1>2. (FromEnviron \cup Carried) \ {"dev", "database", "static", "migrations"} \subseteq Layered \ {"static", "database"}
  BY DEF Layered
<1>3. conf.dev[1] = DevSaid
  BY <1>1
<1> QED BY <1>1, <1>2, <1>3 DEF LayersHold, Spelled, DevSaid

\* Every configuration that is served is the one its layers spell, has its upload
\* directory not in the handler's or the templates' directory and its static one
\* around neither, runs the tests on a database of their own, and answers at every
\* endpoint it promises (load_config, Config::validate).
THEOREM DeploymentsProved == BootSpec => []DeploymentsHold
<1>1. BootInit => BootInv
  BY DEF BootInit, BootInv
<1>2. BootInv /\ [BootNext]_bootVars => BootInv'
  BY ReadConfigStep, LoadEnvFileStep, ApplyEnvStep, ApplyFlagsStep, ValidateTestingStep, ValidateStep, BootStutters
     DEF BootNext
<1>3. BootInv => DeploymentsHold
  BY ServedLayers, ServedPlaces, ServedEndpoints, ServedStreams DEF DeploymentsHold
<1> QED BY <1>1, <1>2, <1>3, PTL DEF BootSpec
=============================================================================
