------------------------------ MODULE BindCodeStore ------------------------------
(***************************************************************************)
(* The one-time codes by which a browser extension that missed the bridge  *)
(* message collects its bind result: extension-bind-code-store.ts of the   *)
(* web application.  Several instances of the server share one Redis; each *)
(* keeps a map of its own for when Redis fails, unless the deployment      *)
(* requires the shared store.                                              *)
(*                                                                         *)
(* One action runs from one await to the next.  A call to Redis may fail   *)
(* with its effect or without it.                                          *)
(***************************************************************************)
EXTENDS Integers, FiniteSets

CONSTANTS
  Instances,    \* server processes
  Handlers,     \* requests served at a time
  Codes,        \* codes that are issued
  Contexts,     \* what a code is bound to: installation, request, nonce, origin
  TTL,          \* ttlSeconds
  Cooldown,     \* REDIS_FAILURE_COOLDOWN_MS
  MaxActive,    \* MAX_ACTIVE_CODES
  MaxTime,      \* bound: the clock
  MaxFailures   \* bound: calls to Redis that fail

ASSUME InputAssumption ==
  /\ TTL \in Nat \ {0} /\ Cooldown \in Nat \ {0} /\ MaxActive \in Nat \ {0}
  /\ MaxTime \in Nat /\ MaxFailures \in Nat

VARIABLES
  required,       \* isSharedStoreRequired()
  url,            \* REDIS_URL is set
  time,
  redis,          \* records in Redis, each with the time at which its key goes
  memory,         \* bindCodeRecords of each instance
  disabledUntil,  \* redisStoreDisabledUntilMs of each instance
  job,            \* what each handler is at
  issued,         \* codes in use, whether or not their client has got them
  returned,       \* codes that a client has got, with their records
  redeemed,       \* history: how often each code has been redeemed
  refused,        \* history: codes refused though valid
  failures

vars == <<required, url, time, redis, memory, disabledUntil, job, issued, returned,
          redeemed, refused, failures>>
environment == <<required, url>>

Idle == [kind |-> "idle"]

Record(c, ctx) == [code |-> c, created |-> time, expires |-> time + TTL, ctx |-> ctx]

Init ==
  /\ required \in BOOLEAN
  /\ url \in BOOLEAN
  /\ time = 0
  /\ redis = {}
  /\ memory = [i \in Instances |-> {}]
  /\ disabledUntil = [i \in Instances |-> 0]
  /\ job = [h \in Handlers |-> Idle]
  /\ issued = {}
  /\ returned = {}
  /\ redeemed = [c \in Codes |-> 0]
  /\ refused = {}
  /\ failures = 0

Without(rs, c) == {r \in rs : r.code # c}
Pruned(i) == {r \in memory[i] : r.expires > time}

\* withRedisStore makes the call unless Redis is not configured or failed of late.
Tries(i) == url /\ disabledUntil[i] <= time

End(h) == job' = [job EXCEPT ![h] = Idle]

Connected(j) == j.tries /\ disabledUntil[j.inst] <= j.now

\* disableRedisStore disconnects the client: the other calls in flight on it fail too.
CallFails(j) ==
  /\ j.tries
  /\ IF Connected(j) THEN failures < MaxFailures /\ failures' = failures + 1
                     ELSE UNCHANGED failures
  /\ disabledUntil' = [disabledUntil EXCEPT ![j.inst] = j.now + Cooldown]

Skipped(j) == ~j.tries /\ UNCHANGED <<failures, disabledUntil>>

-----------------------------------------------------------------------------
(* issueBindFallbackCode                                                   *)

\* trimStoreToLimit drops the oldest records over the limit.
Trimmed(rs) ==
  IF Cardinality(rs) <= MaxActive THEN {rs}
  ELSE {kept \in SUBSET rs : /\ Cardinality(kept) = MaxActive
                             /\ \A r \in rs \ kept, k \in kept : r.created <= k.created}

Issue(h, i, c, ctx) ==
  /\ job[h] = Idle /\ c \notin issued
  /\ issued' = issued \cup {c}
  /\ \E kept \in Trimmed(Pruned(i) \cup {Record(c, ctx)}) : memory' = [memory EXCEPT ![i] = kept]
  /\ job' = [job EXCEPT ![h] = [kind |-> "store", inst |-> i, now |-> time, tries |-> Tries(i),
                                 record |-> Record(c, ctx)]]
  /\ UNCHANGED <<environment, time, redis, disabledUntil, returned, redeemed, refused, failures>>

Forget(i, c) == memory' = [memory EXCEPT ![i] = Without(@, c)]

InRedis(r) == redis \cup {[record |-> r, until |-> time + TTL]}

\* Redis becomes the source of truth for this code.
Stored(h) ==
  /\ job[h].kind = "store"
  /\ Connected(job[h])
  /\ redis' = InRedis(job[h].record)
  /\ Forget(job[h].inst, job[h].record.code)
  /\ returned' = returned \cup {job[h].record}
  /\ End(h)
  /\ UNCHANGED <<environment, time, disabledUntil, issued, redeemed, refused, failures>>

\* The code stays in the map, or, when that will not do, its client gets an error.
NotStored(h) ==
  /\ job[h].kind = "store"
  /\ \/ Skipped(job[h]) /\ UNCHANGED redis
     \/ CallFails(job[h]) /\ (UNCHANGED redis \/ redis' = InRedis(job[h].record))
  /\ IF required
       THEN Forget(job[h].inst, job[h].record.code) /\ UNCHANGED returned
       ELSE returned' = returned \cup {job[h].record} /\ UNCHANGED memory
  /\ End(h)
  /\ UNCHANGED <<environment, time, issued, redeemed, refused>>

-----------------------------------------------------------------------------
(* redeemBindFallbackCode                                                  *)

\* A request for a code, as its context has it or not.
Redeem(h, i, r, ctx) ==
  /\ job[h] = Idle /\ r \in returned
  /\ memory' = [memory EXCEPT ![i] = Pruned(i)]
  /\ job' = [job EXCEPT ![h] = [kind |-> "redeem", inst |-> i, now |-> time, tries |-> Tries(i),
                                 record |-> r, ctx |-> ctx]]
  /\ UNCHANGED <<environment, time, redis, disabledUntil, issued, returned, redeemed, refused, failures>>

Won(c) == redeemed' = [redeemed EXCEPT ![c] = @ + 1] /\ UNCHANGED refused

\* Refused while nobody has redeemed it, though its context is right and it is time still.
Lost(j) ==
  /\ refused' = IF redeemed[j.record.code] = 0 /\ j.record.ctx = j.ctx /\ j.record.expires > time
                  THEN refused \cup {j.record.code} ELSE refused
  /\ UNCHANGED redeemed

Entry(c) == {e \in redis : e.record.code = c}
Expired(rs, now) == \A r \in rs : r.expires <= now

\* Mistake: a request in the wrong context uses the code up.
ScriptOnce(j, left, won) ==
  LET found == Entry(j.record.code)
  IN  /\ left = redis \ found
      /\ won = (~Expired({e.record : e \in found}, j.now) /\ \A e \in found : e.record.ctx = j.ctx)

\* What the script leaves of a code, with whether it hands it over.
Script(j, left, won) ==
  LET found == Entry(j.record.code)
      match == \A e \in found : e.record.ctx = j.ctx
      gone  == Expired({e.record : e \in found}, j.now)
  IN  /\ left = IF match \/ gone THEN redis \ found ELSE redis
      /\ won = (~gone /\ match)

\* Mistake: the script leaves the code where it is.
RedeemInRedisKeeps(h) ==
  /\ job[h].kind = "redeem"
  /\ Connected(job[h])
  /\ \E left \in {redis, redis \ Entry(job[h].record.code)}, won \in BOOLEAN :
        /\ Script(job[h], left, won)
        /\ IF won THEN Won(job[h].record.code) ELSE Lost(job[h])
  /\ Forget(job[h].inst, job[h].record.code)
  /\ End(h)
  /\ UNCHANGED <<environment, time, redis, disabledUntil, issued, returned, failures>>

\* One script, run by Redis alone; an answer other than a mismatch clears the map.
RedeemInRedis(h) ==
  LET j == job[h]
      found == Entry(j.record.code)
  IN  /\ j.kind = "redeem"
      /\ Connected(j)
      /\ \E left \in {redis, redis \ found}, won \in BOOLEAN :
            /\ Script(j, left, won)
            /\ redis' = left
            /\ IF won THEN Won(j.record.code) ELSE Lost(j)
            /\ IF won \/ Expired({e.record : e \in found}, j.now)
                 THEN Forget(j.inst, j.record.code) ELSE UNCHANGED memory
      /\ End(h)
      /\ UNCHANGED <<environment, time, disabledUntil, issued, returned, failures>>

\* The map decides: the checks are those of the script.
FromMemory(j) ==
  LET found == {r \in memory[j.inst] : r.code = j.record.code}
      gone  == Expired(found, j.now)
      match == \A r \in found : r.ctx = j.ctx
  IN  /\ IF ~gone /\ match THEN Won(j.record.code) ELSE Lost(j)
      /\ IF gone \/ match THEN Forget(j.inst, j.record.code) ELSE UNCHANGED memory

\* Redis gives no answer, though it may have run the script.
RedeemWithout(h) ==
  LET j == job[h]
  IN  /\ j.kind = "redeem"
      /\ \/ Skipped(j) /\ UNCHANGED redis
         \/ /\ CallFails(j)
            /\ \/ UNCHANGED redis
               \/ \E left \in {redis \ Entry(j.record.code)}, won \in BOOLEAN :
                     Script(j, left, won) /\ redis' = left
      /\ IF required THEN Forget(j.inst, j.record.code) /\ Lost(j) ELSE FromMemory(j)
      /\ End(h)
      /\ UNCHANGED <<environment, time, issued, returned>>

-----------------------------------------------------------------------------

RedisExpires(e) ==
  /\ e \in redis /\ e.until <= time
  /\ redis' = redis \ {e}
  /\ UNCHANGED <<environment, time, memory, disabledUntil, job, issued, returned, redeemed,
                 refused, failures>>

Tick ==
  /\ time < MaxTime
  /\ time' = time + 1
  /\ UNCHANGED <<environment, redis, memory, disabledUntil, job, issued, returned, redeemed,
                 refused, failures>>

Next ==
  \/ \E h \in Handlers, i \in Instances, c \in Codes, ctx \in Contexts : Issue(h, i, c, ctx)
  \/ \E h \in Handlers, i \in Instances, r \in returned, ctx \in Contexts : Redeem(h, i, r, ctx)
  \/ \E h \in Handlers : Stored(h) \/ NotStored(h) \/ RedeemInRedis(h) \/ RedeemWithout(h)
  \/ \E e \in redis : RedisExpires(e)
  \/ Tick

Spec == Init /\ [][Next]_vars

-----------------------------------------------------------------------------
(* Properties                                                              *)

\* redeemBindFallbackCode hands a code over once, whichever instances are asked at a
\* time, if the shared store is required or no call to it has failed.
RedeemedOnce == required \/ failures = 0 => \A c \in Codes : redeemed[c] <= 1

\* "When shared store write succeeds, Redis becomes source of truth for this code":
\* with no failed call, a client that asks in its context and in time is not refused
\* a code nobody has redeemed, whichever instance it asks.
ValidIsRedeemed == url /\ failures = 0 => refused = {}
=============================================================================
