------------------------------- MODULE Cache --------------------------------
(***************************************************************************)
(* The cache every Lua state shares, crates/nitr-std/src/cache.rs: a map   *)
(* with two ordered indexes beside it, by last use and by expiry, and a    *)
(* hand-kept byte count, behind one lock.                                  *)
(*                                                                         *)
(* A caller reads the clock and takes its tick before it locks, so ticks   *)
(* reach the indexes out of order.  What happens under the lock is one     *)
(* step.  The clock is read and the tick taken in one step: nothing        *)
(* relates the two.  The hit and miss counters are left out.               *)
(***************************************************************************)
EXTENDS Integers, Sequences, FiniteSets, Functions, SequencesExt, FiniteSetsExt

CONSTANTS
  Callers,       \* Lua states that use the cache at the same time
  Keys,          \* the keys
  Costs,         \* what an entry, key and value, may cost
  Ttls,          \* what a caller may ask for; 0 never expires
  MaxEntries,    \* max_entries
  MaxBytes,      \* max_bytes
  MaxTicks,      \* bound: how many ticks are taken
  MaxTime        \* bound: how far the clock goes

ASSUME CacheBoundsArePositive == MaxEntries \in Nat /\ MaxBytes \in Nat
ASSUME CostsAreNatural == Costs \subseteq Nat /\ Ttls \subseteq Nat

VARIABLES
  inner,         \* what the lock guards
  ticks,         \* the counter ticks come from
  time,          \* the monotonic clock
  call           \* what each caller is at

cacheVars == <<inner, ticks, time, call>>

Absent == [absent |-> TRUE]
Never == -1
NoCall == [op |-> "none"]

\* Inner::default()
Empty ==
  [entries |-> [k \in Keys |-> Absent], lru |-> <<>>, expiry |-> <<>>, bytes |-> 0,
   evictions |-> 0]

Present(in) == {k \in Keys : in.entries[k] # Absent}

IsLive(e, now) == e.expires = Never \/ e.expires > now

Without(map, x) == Restrict(map, DOMAIN map \ {x})

With(map, x, k) == [y \in DOMAIN map \cup {x} |-> IF y = x THEN k ELSE map[y]]

\* Mutant: the expiry index is searched by the entry's last use.
RemoveEntry_wrongTick(in, k) ==
  LET e == in.entries[k]
  IN  IF e = Absent THEN in
      ELSE [in EXCEPT !.entries[k] = Absent,
                      !.lru = Without(@, e.touched),
                      !.expiry = Without(@, <<e.expires, e.touched>>),
                      !.bytes = Max({0, @ - e.cost})]

\* Inner::remove(): the map, both indexes, and a debit that floors at zero.
RemoveEntry(in, k) ==
  LET e == in.entries[k]
  IN  IF e = Absent THEN in
      ELSE [in EXCEPT !.entries[k] = Absent,
                      !.lru = Without(@, e.touched),
                      !.expiry = Without(@, <<e.expires, e.inserted>>),
                      !.bytes = Max({0, @ - e.cost})]

\* set_raw() under the lock, up to the eviction.
InsertEntry(in, k, cost, expires, tick) ==
  LET old == RemoveEntry(in, k)
  IN  [old EXCEPT
        !.entries[k] = [cost |-> cost, expires |-> expires, touched |-> tick,
                        inserted |-> tick],
        !.lru = With(@, tick, k),
        !.expiry = IF expires = Never THEN @ ELSE With(@, <<expires, tick>>, k),
        !.bytes = @ + cost]

\* get_raw() on a live entry: it is ranked anew under the reader's tick.
TouchEntry(in, k, tick) ==
  LET was == in.entries[k].touched
  IN  [in EXCEPT !.entries[k].touched = tick,
                 !.lru = IF was \in DOMAIN @ THEN With(Without(@, was), tick, k) ELSE @]

\* The order of the expiry index: by instant, then by the tick of the write.
Sooner(x, y) == x[1] < y[1] \/ (x[1] = y[1] /\ x[2] < y[2])

\* The first key of the expiry index, when it has expired.
Expired(in, now) ==
  {x \in DOMAIN in.expiry :
     x[1] <= now /\ \A y \in DOMAIN in.expiry : x = y \/ Sooner(x, y)}

Over(in) == Cardinality(Present(in)) > MaxEntries \/ in.bytes > MaxBytes

\* Mutant: the least recently used entry goes first, expired ones or not.
EvictOne_lruFirst(in, now) ==
  IF ~Over(in) \/ DOMAIN in.lru = {} THEN in
  ELSE [RemoveEntry(in, in.lru[Min(DOMAIN in.lru)]) EXCEPT !.evictions = @ + 1]

\* One turn of evict()'s loop: an expired entry, or the least recently used one.
EvictOne(in, now) ==
  CASE ~Over(in) -> in
    [] Over(in) /\ Expired(in, now) # {} ->
         RemoveEntry(in, in.expiry[CHOOSE x \in Expired(in, now) : TRUE])
    [] OTHER ->
         IF DOMAIN in.lru = {} THEN in
         ELSE [RemoveEntry(in, in.lru[Min(DOMAIN in.lru)]) EXCEPT !.evictions = @ + 1]

\* evict(): every turn takes an entry, so there are no more turns than entries.
Evict(in, now) ==
  LET turns == Cardinality(Present(in))
      after[n \in 0..turns] == IF n = 0 THEN in ELSE EvictOne(after[n - 1], now)
  IN  after[turns]

-----------------------------------------------------------------------------
(* The callers. *)

\* tick(), before the lock.
TakeTick(c, next) ==
  /\ ticks < MaxTicks
  /\ ticks' = ticks + 1
  /\ call' = [call EXCEPT ![c] = next]
  /\ UNCHANGED <<inner, time>>

\* cache:get(key), or the lookup cache:remember(key, fn) starts with.
StartGet(c, k, fill) ==
  /\ call[c] = NoCall
  /\ TakeTick(c, [op |-> "get", key |-> k, now |-> time, tick |-> ticks, fill |-> fill])

\* get_raw() under the lock; an expired entry is dropped on the way past.
Get(c) ==
  LET g == call[c]
      e == inner.entries[g.key]
      hit == e # Absent /\ IsLive(e, g.now)
  IN  /\ g.op = "get"
      /\ inner' = IF hit THEN TouchEntry(inner, g.key, g.tick)
                  ELSE RemoveEntry(inner, g.key)
      /\ call' = [call EXCEPT ![c] = IF hit \/ ~g.fill THEN NoCall
                                     ELSE [op |-> "compute", key |-> g.key]]
      /\ UNCHANGED <<ticks, time>>

\* The instant a TTL ends at.
ExpiresAt(ttl) == IF ttl > 0 THEN time + ttl ELSE Never

\* set_raw() before the lock: an entry larger than the cache is refused.
StartSet(c, k, cost, ttl) ==
  /\ call[c] = NoCall \/ call[c] = [op |-> "compute", key |-> k]
  /\ cost <= MaxBytes
  /\ TakeTick(c, [op |-> "set", key |-> k, cost |-> cost, expires |-> ExpiresAt(ttl),
                  tick |-> ticks])

\* set_raw() under the lock.
Set(c) ==
  LET s == call[c]
  IN  /\ s.op = "set"
      /\ inner' = Evict(InsertEntry(inner, s.key, s.cost, s.expires, s.tick), time)
      /\ call' = [call EXCEPT ![c] = NoCall]
      /\ UNCHANGED <<ticks, time>>

\* The function of cache:remember answered nil, failed, or was dropped.
ComputeNothing(c) ==
  /\ call[c].op = "compute"
  /\ call' = [call EXCEPT ![c] = NoCall]
  /\ UNCHANGED <<inner, ticks, time>>

\* cache:delete(key), and cache:set(key, nil).
Delete(c, k) ==
  /\ call[c] = NoCall
  /\ inner' = RemoveEntry(inner, k)
  /\ UNCHANGED <<ticks, time, call>>

\* cache:clear(): the counters stay.
Clear(c) ==
  /\ call[c] = NoCall
  /\ inner' = [Empty EXCEPT !.evictions = inner.evictions]
  /\ UNCHANGED <<ticks, time, call>>

TimePasses ==
  /\ time < MaxTime
  /\ time' = time + 1
  /\ UNCHANGED <<inner, ticks, call>>

CacheInit ==
  /\ inner = Empty
  /\ ticks = 0
  /\ time = 0
  /\ call = [c \in Callers |-> NoCall]

CacheNext ==
  \/ \E c \in Callers, k \in Keys, fill \in BOOLEAN : StartGet(c, k, fill)
  \/ \E c \in Callers, k \in Keys, cost \in Costs, ttl \in Ttls : StartSet(c, k, cost, ttl)
  \/ \E c \in Callers : Get(c) \/ Set(c) \/ ComputeNothing(c) \/ Clear(c)
  \/ \E c \in Callers, k \in Keys : Delete(c, k)
  \/ TimePasses

CacheSpec == CacheInit /\ [][CacheNext]_cacheVars

-----------------------------------------------------------------------------
(* Properties. *)

\* The map and both indexes name the same entries under the same ticks, and the byte
\* count is what the entries cost, whatever order the ticks arrive in (struct Inner).
IndexesAgree ==
  LET es == inner.entries
  IN  /\ inner.lru \in [DOMAIN inner.lru -> Present(inner)] /\ IsInjective(inner.lru)
      /\ \A k \in Present(inner) :
           es[k].touched \in DOMAIN inner.lru /\ inner.lru[es[k].touched] = k
      /\ inner.expiry \in [DOMAIN inner.expiry -> Present(inner)]
      /\ IsInjective(inner.expiry)
      /\ DOMAIN inner.expiry =
           {<<es[k].expires, es[k].inserted>> :
              k \in {j \in Present(inner) : es[j].expires # Never}}
      /\ inner.bytes = MapThenSumSet(LAMBDA k : es[k].cost, Present(inner))

\* Whenever the lock is free the cache is within both bounds (set_raw, evict).
WithinBounds == Cardinality(Present(inner)) <= MaxEntries /\ inner.bytes <= MaxBytes

\* A cache is sound when its books agree and it is within its bounds: whatever two
\* callers do, nothing is counted twice, forgotten or kept past the configured size.
CacheSound == IndexesAgree /\ WithinBounds

\* A write that evicts an entry that is still alive leaves no expired one behind: dead
\* weight goes first (evict).
ExpiredGoFirst ==
  [][inner'.evictions > inner.evictions =>
       \A k \in Present(inner') : IsLive(inner'.entries[k], time)]_cacheVars

=============================================================================
