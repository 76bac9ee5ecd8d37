-------------------------------- MODULE RateLimit --------------------------------
(***************************************************************************)
(* The rate limit of the API: RateLimitGuard asks DistributedRateLimitService *)
(* for each request, which counts it in Redis, or, when the call to Redis     *)
(* fails, in the map of its process.  Both count from the first request of a  *)
(* window to the end of the window.                                        *)
(*                                                                         *)
(* The time of a request is read before Redis is called; the map may be       *)
(* consulted at a later time with it.  A call to Redis may fail with its       *)
(* effect or without it.                                                   *)
(***************************************************************************)
EXTENDS Integers, FiniteSetsExt

CONSTANTS
  Keys,         \* a policy with a client each
  Processes,    \* of the API
  Handlers,     \* requests served at a time
  Limit,        \* maxRequests
  Window,       \* windowMs
  PruneEvery,   \* inMemoryRateLimitPruneIntervalMs
  MaxBuckets,   \* maxInMemoryRateLimitBuckets
  MaxClock,     \* bound: the clock
  MaxAsks,      \* bound: requests
  MaxRedisFailures  \* bound: calls to Redis that fail

VARIABLES
  clock,
  counters,   \* Redis: for each key its count and when that expires
  buckets,    \* of each process, each with its place in the order of insertion
  prunedAt,   \* lastPrunedAt of each process
  call,       \* the request that each handler serves
  used,       \* history: how often each store has counted a key within the limit, up to each time
  denied,     \* history: the times at which each store has refused a key
  evicted,    \* history: keys a process has dropped before their window ended
  lingered,   \* history: the clock has moved on while a call to Redis failed
  asked, redisFailures  \* how many

history == <<used, denied, evicted, lingered>>
vars == <<clock, counters, buckets, prunedAt, call, history, asked, redisFailures>>

Redis == "redis"
Stores == Processes \cup {Redis}
NoCall == [key |-> "none"]
NoCounter == [count |-> 0, until |-> 0]

Init ==
  /\ clock = 1
  /\ counters = [k \in Keys |-> NoCounter]
  /\ buckets = [p \in Processes |-> {}]
  /\ prunedAt = [p \in Processes |-> 0]
  /\ call = [h \in Handlers |-> NoCall]
  /\ used = [s \in Stores |-> [k \in Keys |-> [t \in 0 .. MaxClock |-> 0]]]
  /\ denied = [s \in Stores |-> [k \in Keys |-> {}]]
  /\ evicted = {}
  /\ lingered = FALSE
  /\ asked = 0
  /\ redisFailures = 0

\* canActivate, for a request that a policy bears on.
Ask(h, p, k) ==
  /\ call[h] = NoCall
  /\ asked < MaxAsks /\ asked' = asked + 1
  /\ call' = [call EXCEPT ![h] = [key |-> k, process |-> p, now |-> clock]]
  /\ UNCHANGED <<clock, counters, buckets, prunedAt, history, redisFailures>>

Within(u, store, k, count) ==
  IF count <= Limit
    THEN [u EXCEPT ![store][k] = [t \in 0 .. MaxClock |-> IF t >= clock THEN @[t] + 1 ELSE @[t]]]
    ELSE u

Refusing(store, k, count) ==
  denied' = IF count > Limit THEN [denied EXCEPT ![store][k] = @ \cup {clock}] ELSE denied

\* Mistake: every request begins the window anew.
CountedSliding(k) ==
  LET c == counters[k]
  IN  [count |-> IF c.until > clock THEN c.count + 1 ELSE 1, until |-> clock + Window]

\* redisRateLimitScript: a key without a time to live is given one.
Counted(k) ==
  LET c == counters[k]
  IN  IF c.until > clock THEN [c EXCEPT !.count = @ + 1]
      ELSE [count |-> 1, until |-> clock + Window]

CountInRedis(h) ==
  LET k == call[h].key
  IN  /\ call[h] # NoCall
      /\ counters' = [counters EXCEPT ![k] = Counted(k)]
      /\ used' = Within(used, Redis, k, counters'[k].count)
      /\ Refusing(Redis, k, counters'[k].count)
      /\ call' = [call EXCEPT ![h] = NoCall]
      /\ UNCHANGED <<clock, buckets, prunedAt, evicted, lingered, asked, redisFailures>>

\* pruneExpiredBuckets: the expired ones go, then the oldest over the limit.
Prunes(p, now) ==
  Cardinality(buckets[p]) > MaxBuckets \/ now - prunedAt[p] >= PruneEvery

Unexpired(p, now) == {b \in buckets[p] : b.until > now}

Pruned(p, now) ==
  IF Prunes(p, now)
    THEN LET bs == Unexpired(p, now)
         IN  {b \in bs : Cardinality({c \in bs : c.place > b.place}) < MaxBuckets}
    ELSE buckets[p]

\* A bucket that has expired begins anew, at its place in the map.
Bumped(b, now) ==
  IF b.until > now THEN [b EXCEPT !.count = @ + 1]
  ELSE [b EXCEPT !.count = 1, !.until = now + Window]

\* InMemoryRateLimitService.consume.
Consumed(bs, k, now) ==
  IF \E b \in bs : b.key = k
    THEN {IF b.key = k THEN Bumped(b, now) ELSE b : b \in bs}
    ELSE bs \cup {[key |-> k, count |-> 1, until |-> now + Window,
                   place |-> 1 + Max({0} \cup {b.place : b \in bs})]}

CountHere(h) ==
  LET k   == call[h].key
      p   == call[h].process
      now == call[h].now
      bs  == Pruned(p, now)
  IN  /\ call[h] # NoCall
      /\ redisFailures < MaxRedisFailures /\ redisFailures' = redisFailures + 1
      /\ buckets' = [buckets EXCEPT ![p] = Consumed(bs, k, now)]
      /\ \E b \in buckets'[p], counts \in BOOLEAN :
            /\ b.key = k
            /\ counters' = IF counts THEN [counters EXCEPT ![k] = Counted(k)] ELSE counters
            /\ used' = Within(IF counts THEN Within(used, Redis, k, counters'[k].count) ELSE used,
                              p, k, b.count)
            /\ Refusing(p, k, b.count)
      /\ prunedAt' = IF Prunes(p, now) THEN [prunedAt EXCEPT ![p] = now] ELSE prunedAt
      /\ lingered' = (lingered \/ now < clock)
      /\ evicted' = evicted \cup {b.key : b \in Unexpired(p, now) \ bs}
      /\ call' = [call EXCEPT ![h] = NoCall]
      /\ UNCHANGED <<clock, asked>>

Advance ==
  /\ clock < MaxClock
  /\ clock' = clock + 1
  /\ UNCHANGED <<counters, buckets, prunedAt, call, history, asked, redisFailures>>

Next ==
  \/ \E h \in Handlers :
        \/ \E p \in Processes, k \in Keys : Ask(h, p, k)
        \/ CountInRedis(h) \/ CountHere(h)
  \/ Advance

Spec == Init /\ [][Next]_vars

-----------------------------------------------------------------------------
(* Properties                                                              *)

\* How much of its limit a store has let a key use in the window that ends with a time.
UsedOf(store, k, t) ==
  used[store][k][t] - used[store][k][IF t < Window THEN 0 ELSE t - Window]

\* A process keeps to the limit if it drops no bucket early and no call to Redis takes so
\* long that the clock moves on.
Keeps(store, k) == store = Redis \/ (~lingered /\ k \notin evicted)

\* No client is allowed more than twice the limit in a time as long as a window (of two
\* windows that it overlaps each allows the limit),
NeverFarOverLimit ==
  \A s \in Stores, k \in Keys, t \in 1 .. clock :
    Keeps(s, k) => UsedOf(s, k, t) <= 2 * Limit

\* and none is refused that has not used the limit up in a time as short as a window:
\* asking again while refused does not prolong the refusal.
RefusedForCause ==
  \A s \in Stores, k \in Keys, t \in 1 .. clock :
    Keeps(s, k) /\ t \in denied[s][k] => UsedOf(s, k, t) >= Limit

\* Both, for each store by itself; a request that Redis has counted before its answer was
\* lost counts twice.
LimitKept == NeverFarOverLimit /\ RefusedForCause
=============================================================================
