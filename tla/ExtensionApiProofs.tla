---------------------------- MODULE ExtensionApiProofs ----------------------------
(***************************************************************************)
(* What MCExtensionApi checks, for all values of the constants: RedeemedOnce  *)
(* and ValidIsRedeemed of BindCodeStore, and EventsAccountedFor of UsageEvents. *)
(*                                                                         *)
(* The invariant of BindCodeStore says where a code may be while it can     *)
(* still be redeemed. Where Redis decides (InRedisOnce), it is about to be  *)
(* stored, or stored, or neither; where there is no Redis (InMemoryOnce),   *)
(* it is in the map of one instance; and in neither case has it been        *)
(* redeemed. Which of the two decides is a matter of the deployment as      *)
(* long as no call has failed (Reaches).                                    *)
(***************************************************************************)
EXTENDS MCExtensionApi, Sequences, FiniteSetTheorems, TLAPS

RecordType == [code : Codes, created : Nat, expires : Nat, ctx : Contexts]

StoreJobs  == [kind : {"store"}, inst : Instances, now : Nat, tries : BOOLEAN,
               record : RecordType]
RedeemJobs == [kind : {"redeem"}, inst : Instances, now : Nat, tries : BOOLEAN,
               record : RecordType, ctx : Contexts]

Typed ==
  /\ required \in BOOLEAN /\ url \in BOOLEAN
  /\ time \in Nat /\ failures \in Nat
  /\ redis \subseteq [record : RecordType, until : Nat]
  /\ memory \in [Instances -> SUBSET RecordType]
  /\ disabledUntil \in [Instances -> Nat]
  /\ job \in [Handlers -> {Idle} \cup StoreJobs \cup RedeemJobs]
  /\ issued \subseteq Codes /\ returned \subseteq RecordType
  /\ redeemed \in [Codes -> Nat]

Storing(c) == {h \in Handlers : job[h].kind = "store" /\ job[h].record.code = c}

\* Until a call fails, all the requests try Redis or none does.
Reaches ==
  /\ failures = 0 => /\ \A i \in Instances : disabledUntil[i] = 0
                     /\ \A h \in Handlers : job[h].kind # "idle" => job[h].tries = url
  /\ ~url => redis = {} /\ \A h \in Handlers : job[h].kind # "idle" => ~job[h].tries

InRedisOnce ==
  required \/ (url /\ failures = 0) =>
    \A c \in Codes :
      /\ \A g, h \in Storing(c) : g = h
      /\ Storing(c) # {} => Entry(c) = {} /\ redeemed[c] = 0
      /\ Entry(c) # {} => redeemed[c] = 0
      /\ c \notin issued => Storing(c) = {} /\ Entry(c) = {} /\ redeemed[c] = 0

InMemoryOnce ==
  ~url =>
    /\ \A i, k \in Instances : \A r \in memory[i], s \in memory[k] : r.code = s.code => i = k
    /\ \A i \in Instances : \A r \in memory[i] : r.code \in issued /\ redeemed[r.code] = 0
    /\ \A c \in Codes : c \notin issued => redeemed[c] = 0

Inv == Typed /\ Reaches /\ InRedisOnce /\ InMemoryOnce /\ RedeemedOnce

LEMMA InitEstablishes == ASSUME Init PROVE Inv
<1>1. \A h \in Handlers : job[h].kind = "idle"
  BY DEF Init, Idle
<1>2. Typed
  BY DEF Init, Typed
<1>3. Reaches
  BY <1>1 DEF Init, Reaches
<1>4. InRedisOnce
  BY <1>1 DEF Init, InRedisOnce, Storing, Entry
<1>5. InMemoryOnce /\ RedeemedOnce
  BY DEF Init, InMemoryOnce, RedeemedOnce
<1> QED
  BY <1>2, <1>3, <1>4, <1>5 DEF Inv

LEMMA JobByKind ==
  ASSUME Typed, NEW h \in Handlers
  PROVE  /\ job[h].kind = "idle" => job[h] = Idle
         /\ job[h].kind = "store" => job[h] \in StoreJobs
         /\ job[h].kind = "redeem" => job[h] \in RedeemJobs
         /\ job[h].kind \in {"idle", "store", "redeem"}
  BY DEF Typed, Idle, StoreJobs, RedeemJobs

\* A request ends, having left the maps as they are or without the records of its code.
LEMMA EndsTyped ==
  ASSUME Typed, NEW h \in Handlers, job[h].kind # "idle", End(h),
         UNCHANGED <<environment, time, issued>>,
         memory' = memory \/ Forget(job[h].inst, job[h].record.code),
         redis' \subseteq [record : RecordType, until : Nat],
         returned' \subseteq RecordType,
         redeemed' \in [Codes -> Nat], failures' \in Nat,
         disabledUntil' \in [Instances -> Nat]
  PROVE  /\ Typed'
         /\ \A g \in Handlers : job'[g] = IF g = h THEN Idle ELSE job[g]
         /\ \A c \in Codes : Storing(c)' = Storing(c) \ {h}
         /\ \A i \in Instances : memory'[i] \subseteq memory[i]
<1>1. \A g \in Handlers : job'[g] = IF g = h THEN Idle ELSE job[g]
  BY DEF End, Typed
<1>2. \A i \in Instances : memory'[i] \subseteq memory[i]
  BY DEF Forget, Without, Typed
<1>3. memory' \in [Instances -> SUBSET RecordType]
  BY DEF Forget, Without, Typed
<1>4. job' \in [Handlers -> {Idle} \cup StoreJobs \cup RedeemJobs]
  BY DEF End, Typed
<1>5. Typed'
  BY <1>3, <1>4 DEF Typed, environment
<1>6. \A c \in Codes : Storing(c)' = Storing(c) \ {h}
  BY <1>1 DEF Storing, Idle
<1> QED
  BY <1>1, <1>2, <1>5, <1>6

\* A request ends, having reached Redis or not.
LEMMA EndsReaching ==
  ASSUME Inv, NEW h \in Handlers, UNCHANGED environment,
         \A g \in Handlers : job'[g] = IF g = h THEN Idle ELSE job[g],
         failures' = 0 => failures = 0 /\ UNCHANGED disabledUntil,
         ~url => redis' \subseteq redis
  PROVE  Reaches'
<1>1. \A g \in Handlers : job'[g].kind # "idle" => job'[g] = job[g]
  BY DEF Idle
<1>2. required' = required /\ url' = url
  BY DEF environment
<1> QED
  BY <1>1, <1>2 DEF Inv, Reaches

\* Which calls fail, and what it shows.
LEMMA Failing ==
  ASSUME Inv, NEW h \in Handlers, job[h].kind # "idle", CallFails(job[h])
  PROVE  /\ url /\ failures' \in Nat /\ failures' # 0
         /\ disabledUntil' \in [Instances -> Nat]
<1>1. /\ job[h].tries /\ job[h].inst \in Instances /\ job[h].now \in Nat
  BY JobByKind DEF Inv, CallFails, StoreJobs, RedeemJobs
<1>2. url
  BY <1>1 DEF Inv, Reaches
<1>3. failures' \in Nat /\ failures' # 0
  <2>1. CASE Connected(job[h])
    BY <2>1 DEF CallFails, Inv, Typed
  <2>2. CASE ~Connected(job[h])
    BY <1>1, <2>2 DEF CallFails, Connected, Inv, Typed, Reaches
  <2> QED
    BY <2>1, <2>2
<1>4. disabledUntil' \in [Instances -> Nat]
  BY <1>1, InputAssumption DEF CallFails, Inv, Typed
<1> QED
  BY <1>2, <1>3, <1>4

LEMMA IssueKeeps ==
  ASSUME Inv, NEW h \in Handlers, NEW i \in Instances, NEW c \in Codes, NEW ctx \in Contexts,
         Issue(h, i, c, ctx)
  PROVE  Inv'
<1>a. Record(c, ctx) \in RecordType /\ Record(c, ctx).code = c /\ Tries(i) \in BOOLEAN
  BY InputAssumption DEF Record, RecordType, Inv, Typed, Tries
<1> PICK r \in RecordType : r = Record(c, ctx) /\ r.code = c
  BY <1>a
<1> PICK q \in StoreJobs : q = [kind |-> "store", inst |-> i, now |-> time, tries |-> Tries(i),
      record |-> r]
  BY <1>a DEF StoreJobs, Inv, Typed
<1>1. /\ q.kind = "store" /\ q.record = r /\ q.tries = Tries(i)
      /\ job' = [job EXCEPT ![h] = q] /\ job[h] = Idle /\ c \notin issued
      /\ issued' = issued \cup {c}
      /\ UNCHANGED <<required, url, time, redis, disabledUntil, returned, redeemed, failures>>
  BY DEF Issue, environment
<1>2. /\ \A g \in Handlers : job'[g] = IF g = h THEN q ELSE job[g]
      /\ job[h].kind = "idle"
  BY <1>1 DEF Inv, Typed, Idle
<1>3. PICK kept : /\ kept \subseteq memory[i] \cup {r} /\ memory' = [memory EXCEPT ![i] = kept]
  BY DEF Issue, Trimmed, Pruned
<1>4. /\ memory' \in [Instances -> SUBSET RecordType]
      /\ \A k \in Instances : memory'[k] \subseteq IF k = i THEN memory[i] \cup {r} ELSE memory[k]
  BY <1>3 DEF Inv, Typed
<1>5. Typed'
  BY <1>1, <1>4 DEF Inv, Typed
<1>6. Reaches'
  BY <1>1, <1>2 DEF Inv, Typed, Reaches, Tries
<1>7. InRedisOnce'
  <2>1. /\ Storing(c)' = Storing(c) \cup {h}
        /\ \A d \in Codes \ {c} : Storing(d)' = Storing(d)
    BY <1>1, <1>2 DEF Storing
  <2>2. \A d \in Codes : Entry(d)' = Entry(d)
    BY <1>1 DEF Entry
  <2> QED
    BY <1>1, <2>1, <2>2 DEF Inv, InRedisOnce
<1>8. InMemoryOnce'
  BY <1>1, <1>4 DEF Inv, InMemoryOnce
<1> QED
  BY <1>1, <1>5, <1>6, <1>7, <1>8 DEF Inv, RedeemedOnce

LEMMA RedeemKeeps ==
  ASSUME Inv, NEW h \in Handlers, NEW i \in Instances, NEW r \in returned, NEW ctx \in Contexts,
         Redeem(h, i, r, ctx)
  PROVE  Inv'
<1>0. Tries(i) \in BOOLEAN
  BY DEF Tries, Inv, Typed
<1> PICK q \in RedeemJobs : q = [kind |-> "redeem", inst |-> i, now |-> time, tries |-> Tries(i),
                                 record |-> r, ctx |-> ctx]
  BY <1>0 DEF RedeemJobs, Inv, Typed
<1>1. /\ q.kind = "redeem" /\ q.tries = Tries(i)
      /\ job' = [job EXCEPT ![h] = q] /\ job[h] = Idle
      /\ UNCHANGED <<required, url, time, redis, disabledUntil, issued, returned, redeemed,
           failures>>
  BY DEF Redeem, environment
<1>2. /\ \A g \in Handlers : job'[g] = IF g = h THEN q ELSE job[g]
      /\ job[h].kind = "idle"
  BY <1>1 DEF Inv, Typed, Idle
<1>3. /\ memory' \in [Instances -> SUBSET RecordType]
      /\ \A k \in Instances : memory'[k] \subseteq memory[k]
  BY DEF Redeem, Pruned, Inv, Typed
<1>4. Typed'
  BY <1>1, <1>3 DEF Inv, Typed
<1>5. Reaches'
  BY <1>1, <1>2 DEF Inv, Typed, Reaches, Tries
<1>6. InRedisOnce'
  <2>1. \A d \in Codes : Storing(d)' = Storing(d) /\ Entry(d)' = Entry(d)
    BY <1>1, <1>2 DEF Storing, Entry
  <2> QED
    BY <1>1, <2>1 DEF Inv, InRedisOnce
<1>7. InMemoryOnce'
  BY <1>1, <1>3 DEF Inv, InMemoryOnce
<1> QED
  BY <1>1, <1>4, <1>5, <1>6, <1>7 DEF Inv, RedeemedOnce

LEMMA StoredKeeps ==
  ASSUME Inv, NEW h \in Handlers, Stored(h)
  PROVE  Inv'
<1> PICK r : r = job[h].record
  OBVIOUS
<1> PICK e : e = [record |-> r, until |-> time + TTL]
  OBVIOUS
<1>1. /\ job[h] \in StoreJobs /\ job[h].kind = "store" /\ r \in RecordType
      /\ job[h].tries /\ h \in Storing(r.code) /\ r.code \in Codes
  BY JobByKind DEF Stored, Connected, Inv, StoreJobs, RecordType, Storing
<1>2. /\ redis' = redis \cup {e} /\ returned' = returned \cup {r} /\ End(h)
      /\ memory' = memory \/ Forget(job[h].inst, job[h].record.code)
      /\ UNCHANGED <<environment, time, disabledUntil, issued, redeemed, failures>>
  BY DEF Stored, InRedis
<1>3. e \in [record : RecordType, until : Nat] /\ e.record = r
  BY <1>1, InputAssumption DEF Inv, Typed
<1>4. /\ redis' \subseteq [record : RecordType, until : Nat] /\ returned' \subseteq RecordType
      /\ redeemed' \in [Codes -> Nat] /\ failures' \in Nat /\ disabledUntil' \in [Instances -> Nat]
  BY <1>1, <1>2, <1>3 DEF Inv, Typed
<1>5. /\ Typed'
      /\ \A g \in Handlers : job'[g] = IF g = h THEN Idle ELSE job[g]
      /\ \A c \in Codes : Storing(c)' = Storing(c) \ {h}
      /\ \A i \in Instances : memory'[i] \subseteq memory[i]
  BY <1>1, <1>2, <1>4, EndsTyped DEF Inv
<1>6. url
  BY <1>1 DEF Inv, Reaches
<1>7. Reaches'
  BY <1>2, <1>5, <1>6, EndsReaching DEF Inv
<1>8. InRedisOnce'
  <2>1. \A c \in Codes : Entry(c)' = IF c = r.code THEN Entry(c) \cup {e} ELSE Entry(c)
    BY <1>2, <1>3 DEF Entry
  <2> QED
    BY <1>1, <1>2, <1>5, <2>1 DEF Inv, InRedisOnce, environment
<1>9. InMemoryOnce'
  BY <1>2, <1>6 DEF InMemoryOnce, environment
<1> QED
  BY <1>2, <1>5, <1>7, <1>8, <1>9 DEF Inv, RedeemedOnce, environment

LEMMA NotStoredKeeps ==
  ASSUME Inv, NEW h \in Handlers, NotStored(h)
  PROVE  Inv'
<1> PICK r : r = job[h].record
  OBVIOUS
<1> PICK e : e = [record |-> r, until |-> time + TTL]
  OBVIOUS
<1>1. /\ job[h] \in StoreJobs /\ job[h].kind = "store" /\ r \in RecordType
      /\ h \in Storing(r.code) /\ r.code \in Codes
  BY JobByKind DEF NotStored, Inv, StoreJobs, RecordType, Storing
<1>2. /\ returned' \in {returned, returned \cup {r}} /\ End(h)
      /\ memory' = memory \/ Forget(job[h].inst, job[h].record.code)
      /\ UNCHANGED <<environment, time, issued, redeemed>>
  BY DEF NotStored
<1>3. e \in [record : RecordType, until : Nat] /\ e.record = r
  BY <1>1, InputAssumption DEF Inv, Typed
<1>4. \/ redis' = redis /\ UNCHANGED <<failures, disabledUntil>> /\ ~job[h].tries
      \/ CallFails(job[h]) /\ redis' \in {redis, redis \cup {e}}
  BY DEF NotStored, Skipped, InRedis
<1>5. CallFails(job[h]) => /\ url /\ failures' \in Nat /\ failures' # 0
                           /\ disabledUntil' \in [Instances -> Nat]
  BY <1>1, Failing
<1>6. /\ redis' \subseteq [record : RecordType, until : Nat] /\ returned' \subseteq RecordType
      /\ redeemed' \in [Codes -> Nat] /\ failures' \in Nat /\ disabledUntil' \in [Instances -> Nat]
  BY <1>1, <1>2, <1>3, <1>4, <1>5 DEF Inv, Typed
<1>7. /\ Typed'
      /\ \A g \in Handlers : job'[g] = IF g = h THEN Idle ELSE job[g]
      /\ \A c \in Codes : Storing(c)' = Storing(c) \ {h}
      /\ \A i \in Instances : memory'[i] \subseteq memory[i]
  BY <1>1, <1>2, <1>6, EndsTyped DEF Inv
<1>8. Reaches'
  BY <1>2, <1>4, <1>5, <1>7, EndsReaching DEF Inv
<1>9. InRedisOnce'
  <2>1. \A c \in Codes : Entry(c)' \subseteq IF c = r.code THEN Entry(c) \cup {e} ELSE Entry(c)
    BY <1>3, <1>4 DEF Entry
  <2>2. failures' = 0 => failures = 0
    BY <1>4, <1>5
  <2> QED
    BY <1>1, <1>2, <1>7, <2>1, <2>2 DEF Inv, InRedisOnce, environment
<1>10. InMemoryOnce'
  BY <1>2, <1>7 DEF Inv, InMemoryOnce, environment
<1>11. RedeemedOnce'
  <2>1. failures' = 0 => failures = 0
    BY <1>4, <1>5
  <2> QED
    BY <1>2, <2>1 DEF Inv, RedeemedOnce, environment
<1> QED
  BY <1>7, <1>8, <1>9, <1>10, <1>11 DEF Inv

\* Redis hands a code over only if it holds it, and then no longer.
LEMMA RedeemInRedisPreserves ==
  ASSUME Inv, NEW h \in Handlers, RedeemInRedis(h)
  PROVE  Inv'
<1> PICK c : c = job[h].record.code
  OBVIOUS
<1>1. /\ job[h] \in RedeemJobs /\ job[h].kind = "redeem" /\ job[h].tries /\ c \in Codes
  BY JobByKind DEF RedeemInRedis, Connected, Inv, RedeemJobs, RecordType
<1>2. url
  BY <1>1 DEF Inv, Reaches
<1>3. /\ End(h) /\ UNCHANGED <<environment, time, disabledUntil, issued, returned, failures>>
      /\ memory' = memory \/ Forget(job[h].inst, job[h].record.code)
      /\ redis' \subseteq redis
      /\ \/ redeemed' = redeemed
         \/ /\ redeemed' = [redeemed EXCEPT ![c] = @ + 1]
            /\ Entry(c) # {} /\ redis' = redis \ Entry(c)
  BY DEF RedeemInRedis, Script, Won, Lost, Expired
<1>4. redeemed' \in [Codes -> Nat]
  BY <1>1, <1>3 DEF Inv, Typed
<1>5. /\ Typed'
      /\ \A g \in Handlers : job'[g] = IF g = h THEN Idle ELSE job[g]
      /\ \A d \in Codes : Storing(d)' = Storing(d) \ {h}
  BY <1>1, <1>3, <1>4, EndsTyped DEF Inv, Typed
<1>6. Reaches'
  BY <1>3, <1>5, EndsReaching DEF Inv
<1>7. h \notin Storing(c) /\ \A d \in Codes : Storing(d)' = Storing(d)
  BY <1>1, <1>5 DEF Storing
<1>8. /\ \A d \in Codes : Entry(d)' \subseteq Entry(d)
      /\ redeemed' # redeemed => Entry(c)' = {}
  BY <1>3 DEF Entry
<1>9. \A d \in Codes : redeemed'[d] = redeemed[d]
                         \/ (d = c /\ redeemed'[d] = redeemed[d] + 1 /\ Entry(d) # {}
                            /\ Entry(d)' = {})
  BY <1>1, <1>3, <1>8 DEF Inv, Typed, Entry
<1>10. InRedisOnce'
  BY <1>3, <1>7, <1>8, <1>9 DEF Inv, InRedisOnce, environment
<1>11. InMemoryOnce'
  BY <1>2, <1>3 DEF InMemoryOnce, environment
<1>12. RedeemedOnce'
  BY <1>2, <1>3, <1>9 DEF Inv, RedeemedOnce, InRedisOnce, environment, Typed
<1> QED
  BY <1>5, <1>6, <1>10, <1>11, <1>12 DEF Inv

\* Where a request does without Redis, none has been asked, or it is the map's turn only
\* after a failure.
LEMMA RedeemWithoutKeeps ==
  ASSUME Inv, NEW h \in Handlers, RedeemWithout(h)
  PROVE  Inv'
<1> PICK c : c = job[h].record.code
  OBVIOUS
<1> PICK i : i = job[h].inst
  OBVIOUS
<1>1. job[h] \in RedeemJobs /\ job[h].kind = "redeem" /\ c \in Codes /\ i \in Instances
  BY JobByKind DEF RedeemWithout, Inv, RedeemJobs, RecordType
<1>2. /\ End(h) /\ UNCHANGED <<environment, time, issued, returned>>
      /\ memory' = memory \/ Forget(job[h].inst, job[h].record.code)
      /\ \/ redeemed' = redeemed
         \/ /\ ~required /\ redeemed' = [redeemed EXCEPT ![c] = @ + 1]
            /\ \E r \in memory[i] : r.code = c
            /\ Forget(i, c)
  BY DEF RedeemWithout, FromMemory, Won, Lost, Expired
<1>3. \/ redis' = redis /\ UNCHANGED <<failures, disabledUntil>> /\ ~job[h].tries
      \/ CallFails(job[h]) /\ redis' \subseteq redis
  BY DEF RedeemWithout, Skipped
<1>4. CallFails(job[h]) => /\ url /\ failures' \in Nat /\ failures' # 0
                           /\ disabledUntil' \in [Instances -> Nat]
  BY <1>1, Failing
<1>5. /\ redis' \subseteq [record : RecordType, until : Nat] /\ returned' \subseteq RecordType
      /\ redeemed' \in [Codes -> Nat] /\ failures' \in Nat /\ disabledUntil' \in [Instances -> Nat]
  BY <1>1, <1>2, <1>3, <1>4 DEF Inv, Typed
<1>6. /\ Typed'
      /\ \A g \in Handlers : job'[g] = IF g = h THEN Idle ELSE job[g]
      /\ \A d \in Codes : Storing(d)' = Storing(d) \ {h}
      /\ \A k \in Instances : memory'[k] \subseteq memory[k]
  BY <1>1, <1>2, <1>5, EndsTyped DEF Inv
<1>7. Reaches'
  BY <1>2, <1>3, <1>4, <1>6, EndsReaching DEF Inv
<1>8. failures' = 0 => failures = 0 /\ ~job[h].tries
  BY <1>3, <1>4
<1>9. /\ \A d \in Codes : Storing(d)' = Storing(d) /\ Entry(d)' \subseteq Entry(d)
      /\ required' = required /\ url' = url /\ issued' = issued
  BY <1>1, <1>2, <1>3, <1>6 DEF Storing, Entry, environment
<1>10. InRedisOnce'
  <2> SUFFICES ASSUME required \/ (url /\ failures' = 0) PROVE InRedisOnce'
    BY <1>9 DEF InRedisOnce
  <2>1. required \/ (failures = 0 /\ url)
    BY <1>8
  <2>2. redeemed' = redeemed
    BY <1>1, <1>2, <1>8 DEF Inv, Reaches
  <2> QED
    BY <1>9, <2>1, <2>2 DEF Inv, InRedisOnce
<1>11. ~url /\ redeemed' # redeemed =>
         /\ c \in issued /\ redeemed[c] = 0
         /\ redeemed' = [redeemed EXCEPT ![c] = @ + 1]
         /\ \A k \in Instances : \A r \in memory'[k] : r.code # c
  <2> SUFFICES ASSUME ~url, redeemed' # redeemed
               PROVE  /\ c \in issued /\ redeemed[c] = 0
                      /\ redeemed' = [redeemed EXCEPT ![c] = @ + 1]
                      /\ \A k \in Instances : \A r \in memory'[k] : r.code # c
    OBVIOUS
  <2>1. PICK r \in memory[i] : r.code = c
    BY <1>2
  <2>2. \A k \in Instances : \A s \in memory[k] : s.code = c => k = i
    BY <1>1, <2>1 DEF Inv, InMemoryOnce
  <2>3. \A s \in memory'[i] : s.code # c
    BY <1>1, <1>2 DEF Forget, Without, Inv, Typed
  <2> QED
    BY <1>1, <1>2, <1>6, <2>1, <2>2, <2>3 DEF Inv, InMemoryOnce
<1>12. InMemoryOnce'
  <2> SUFFICES ASSUME ~url PROVE InMemoryOnce'
    BY <1>9 DEF InMemoryOnce
  <2>1. CASE redeemed' = redeemed
    BY <1>6, <1>9, <2>1 DEF Inv, InMemoryOnce
  <2>2. CASE redeemed' # redeemed
    <3>1. \A d \in Codes : d # c => redeemed'[d] = redeemed[d]
      BY <1>11, <2>2 DEF Inv, Typed
    <3>2. \A k \in Instances : \A r \in memory'[k] : r.code \in Codes /\ r \in memory[k]
      BY <1>6 DEF Inv, Typed, RecordType
    <3> QED
      BY <1>6, <1>9, <1>11, <2>2, <3>1, <3>2 DEF Inv, InMemoryOnce
  <2> QED
    BY <2>1, <2>2
<1>13. RedeemedOnce'
  <2> SUFFICES ASSUME required \/ failures' = 0 PROVE \A d \in Codes : redeemed'[d] <= 1
    BY <1>9 DEF RedeemedOnce
  <2>1. required \/ (failures = 0 /\ ~job[h].tries)
    BY <1>8
  <2>2. \A d \in Codes : redeemed[d] <= 1
    BY <2>1 DEF Inv, RedeemedOnce
  <2>3. CASE redeemed' = redeemed
    BY <2>2, <2>3
  <2>4. CASE redeemed' # redeemed
    <3>1. ~url
      BY <1>1, <1>2, <2>1, <2>4 DEF Inv, Reaches
    <3> QED
      BY <1>1, <1>11, <2>2, <2>4, <3>1 DEF Inv, Typed
  <2> QED
    BY <2>3, <2>4
<1> QED
  BY <1>6, <1>7, <1>10, <1>12, <1>13 DEF Inv

LEMMA TimeKeeps ==
  ASSUME Inv, Tick \/ \E e \in redis : RedisExpires(e)
  PROVE  Inv'
<1>1. /\ UNCHANGED <<environment, memory, disabledUntil, job, issued, returned, redeemed, failures>>
      /\ redis' \subseteq redis /\ time' \in Nat
  BY DEF Tick, RedisExpires, Inv, Typed
<1>2. required' = required /\ url' = url
  BY <1>1 DEF environment
<1>3. Typed' /\ RedeemedOnce' /\ InMemoryOnce'
  BY <1>1, <1>2 DEF Inv, Typed, RedeemedOnce, InMemoryOnce
<1>4. Reaches'
  BY <1>1, <1>2 DEF Inv, Reaches
<1>5. \A c \in Codes : Storing(c)' = Storing(c) /\ Entry(c)' \subseteq Entry(c)
  BY <1>1 DEF Storing, Entry
<1>6. InRedisOnce'
  BY <1>1, <1>2, <1>5 DEF Inv, InRedisOnce
<1> QED
  BY <1>3, <1>4, <1>6 DEF Inv

LEMMA NextKeeps == Inv /\ [Next]_vars => Inv'
<1> SUFFICES ASSUME Inv, [Next]_vars PROVE Inv'
  OBVIOUS
<1>1. CASE UNCHANGED vars
  <2>1. /\ UNCHANGED <<required, url, time, redis, memory, disabledUntil, job, issued, returned>>
        /\ UNCHANGED <<redeemed, failures>>
    BY <1>1 DEF vars
  <2>2. \A c \in Codes : Storing(c)' = Storing(c) /\ Entry(c)' = Entry(c)
    BY <2>1 DEF Storing, Entry
  <2> QED
    BY <2>1, <2>2 DEF Inv, Typed, Reaches, InRedisOnce, InMemoryOnce, RedeemedOnce
<1>2. ASSUME NEW h \in Handlers, NEW i \in Instances, NEW c \in Codes, NEW ctx \in Contexts,
             Issue(h, i, c, ctx)
      PROVE  Inv'
  BY <1>2, IssueKeeps
<1>3. ASSUME NEW h \in Handlers, NEW i \in Instances, NEW r \in returned, NEW ctx \in Contexts,
             Redeem(h, i, r, ctx)
      PROVE  Inv'
  BY <1>3, RedeemKeeps
<1>4. ASSUME NEW h \in Handlers,
             Stored(h) \/ NotStored(h) \/ RedeemInRedis(h) \/ RedeemWithout(h)
      PROVE  Inv'
  BY <1>4, StoredKeeps, NotStoredKeeps, RedeemInRedisPreserves, RedeemWithoutKeeps
<1> QED
  BY <1>1, <1>2, <1>3, <1>4, TimeKeeps DEF Next

\* A code is redeemed once at most, whichever instances are asked at a time and whatever
\* Redis does, if the deployment requires the shared store; and if it does not, as long as
\* no call to Redis has failed.
THEOREM RedeemedOnceCorrect == Spec => []RedeemedOnce
  BY NextKeeps, InitEstablishes, PTL DEF Spec, Inv

-----------------------------------------------------------------------------
(* A valid code is redeemed.  While no call fails and Redis is there, a code that  *)
(* a client has got, and that is neither redeemed nor too old, is in Redis, once,   *)
(* until its key goes, which is not before the code is too old.                    *)

\* A code on its way to Redis goes there in time, and only codes got are asked for.
JobsInTime ==
  \A h \in Handlers :
    /\ job[h].kind # "idle" => job[h].now <= time
    /\ job[h].kind = "store" => job[h].record.expires <= time + TTL
    /\ job[h].kind = "redeem" => job[h].record \in returned

Kept ==
  /\ \A e \in redis : e.record.expires <= e.until
  /\ \A e, f \in redis : e.record.code = f.record.code => e = f
  /\ \A r \in returned :
       r.expires > time /\ redeemed[r.code] = 0 => \E e \in redis : e.record = r

Served == url /\ failures = 0 => JobsInTime /\ Kept /\ refused = {}

LEMMA IssueServes ==
  ASSUME Inv, Served, NEW h \in Handlers, NEW i \in Instances, NEW c \in Codes,
         NEW ctx \in Contexts, Issue(h, i, c, ctx)
  PROVE  Served'
<1>1. UNCHANGED <<required, url, time, redis, returned, redeemed, refused, failures>>
  BY DEF Issue, environment
<1>2. Kept => Kept'
  BY <1>1 DEF Kept
<1>3. \A g \in Handlers \ {h} : job'[g] = job[g]
  BY DEF Issue, Inv, Typed
<1>4. /\ job'[h].kind = "store" /\ job'[h].now = time
      /\ job'[h].record.expires = time + TTL
  BY DEF Issue, Inv, Typed, Record
<1>5. time \in Nat /\ TTL \in Nat
  BY InputAssumption DEF Inv, Typed
<1>6. JobsInTime => JobsInTime'
  BY <1>1, <1>3, <1>4, <1>5 DEF JobsInTime
<1> QED
  BY <1>1, <1>2, <1>6 DEF Served

LEMMA RedeemServes ==
  ASSUME Inv, Served, NEW h \in Handlers, NEW i \in Instances, NEW r \in returned,
         NEW ctx \in Contexts, Redeem(h, i, r, ctx)
  PROVE  Served'
<1>1. UNCHANGED <<required, url, time, redis, returned, redeemed, refused, failures>>
  BY DEF Redeem, environment
<1>2. Kept => Kept'
  BY <1>1 DEF Kept
<1>3. \A g \in Handlers \ {h} : job'[g] = job[g]
  BY DEF Redeem, Inv, Typed
<1>4. job'[h].kind = "redeem" /\ job'[h].now = time /\ job'[h].record = r
  BY DEF Redeem, Inv, Typed
<1>5. time \in Nat
  BY DEF Inv, Typed
<1>6. JobsInTime => JobsInTime'
  BY <1>1, <1>3, <1>4, <1>5 DEF JobsInTime
<1> QED
  BY <1>1, <1>2, <1>6 DEF Served

\* Where no call has failed, none fails and all are made.
LEMMA NoneFails ==
  ASSUME Inv, NEW h \in Handlers, NotStored(h) \/ RedeemWithout(h), url'
  PROVE  failures' # 0
<1>1. job[h].kind # "idle" /\ (Skipped(job[h]) \/ CallFails(job[h])) /\ url' = url
  BY DEF NotStored, RedeemWithout, environment
<1>2. job[h] \in StoreJobs \cup RedeemJobs
  BY <1>1, JobByKind DEF Inv
<1>3. CASE Skipped(job[h])
  BY <1>1, <1>2, <1>3 DEF Skipped, Inv, Reaches
<1>4. CASE CallFails(job[h])
  BY <1>1, <1>2, <1>4, Failing
<1> QED
  BY <1>1, <1>3, <1>4

\* A request ends: those that remain are as they were.
LEMMA EndsInTime ==
  ASSUME Inv, JobsInTime, NEW h \in Handlers, End(h), time' = time,
         returned \subseteq returned'
  PROVE  JobsInTime'
<1>1. \A g \in Handlers : job'[g] = IF g = h THEN Idle ELSE job[g]
  BY DEF End, Inv, Typed
<1>2. Idle.kind = "idle"
  BY DEF Idle
<1> QED
  BY <1>1, <1>2 DEF JobsInTime

LEMMA StoredServes ==
  ASSUME Inv, Served, NEW h \in Handlers, Stored(h)
  PROVE  Served'
<1> SUFFICES ASSUME url, failures = 0 PROVE JobsInTime' /\ Kept' /\ refused' = {}
  BY DEF Served, Stored, environment
<1>0. JobsInTime /\ Kept /\ refused = {}
  BY DEF Served
<1> PICK r : r = job[h].record
  OBVIOUS
<1> PICK e : e = [record |-> r, until |-> time + TTL]
  OBVIOUS
<1>1. /\ job[h].kind = "store" /\ r \in RecordType /\ r.code \in Codes /\ h \in Storing(r.code)
  BY JobByKind DEF Stored, Inv, StoreJobs, RecordType, Storing
<1>2. /\ redis' = redis \cup {e} /\ returned' = returned \cup {r} /\ End(h)
      /\ UNCHANGED <<time, redeemed, refused>>
  BY DEF Stored, InRedis
<1>3. JobsInTime'
  BY <1>0, <1>2, EndsInTime
<1>4. e.record = r /\ e.until = time + TTL /\ r.expires <= time + TTL
  BY <1>0, <1>1 DEF JobsInTime
<1>5. \A f \in redis : f.record.code # r.code
  BY <1>1 DEF Inv, InRedisOnce, Entry
<1>6. Kept'
  BY <1>0, <1>2, <1>4, <1>5 DEF Kept
<1> QED
  BY <1>0, <1>2, <1>3, <1>6

\* A code that is still good is in Redis, and there alone: who asks for it in its
\* context gets it, and who asks in another leaves it there.
LEMMA RedeemInRedisServes ==
  ASSUME Inv, Served, NEW h \in Handlers, RedeemInRedis(h)
  PROVE  Served'
<1> SUFFICES ASSUME url, failures = 0 PROVE JobsInTime' /\ Kept' /\ refused' = {}
  BY DEF Served, RedeemInRedis, environment
<1>0. JobsInTime /\ Kept /\ refused = {}
  BY DEF Served
<1> PICK j : j = job[h]
  OBVIOUS
<1> PICK c : c = j.record.code
  OBVIOUS
<1>1. /\ j \in RedeemJobs /\ j.kind = "redeem" /\ c \in Codes
      /\ j.now \in Nat /\ j.record \in RecordType
  BY JobByKind DEF RedeemInRedis, Inv, RedeemJobs, RecordType
<1>2. j.now <= time /\ j.record \in returned /\ time \in Nat
  BY <1>0, <1>1 DEF JobsInTime, Inv, Typed
<1>3. End(h) /\ UNCHANGED <<time, returned>>
  BY DEF RedeemInRedis
<1>4. JobsInTime'
  BY <1>0, <1>3, EndsInTime
<1>5. \A r \in returned : r \in RecordType /\ r.expires \in Nat /\ r.code \in Codes
  BY DEF Inv, Typed, RecordType
<1>6. redeemed \in [Codes -> Nat]
  BY DEF Inv, Typed
<1>7. PICK won \in BOOLEAN : /\ Script(j, redis', won)
                             /\ IF won THEN Won(c) ELSE Lost(j)
  BY DEF RedeemInRedis
<1> DEFINE gone  == \A e \in Entry(c) : e.record.expires <= j.now
           match == \A e \in Entry(c) : e.record.ctx = j.ctx
<1>8. /\ redis' = IF match \/ gone THEN redis \ Entry(c) ELSE redis
      /\ won <=> (~gone /\ match)
  BY <1>7 DEF Script, Expired
<1>9. \A r \in returned : r.code = c /\ r.expires > time /\ redeemed[c] = 0 =>
        ~gone /\ \E e \in redis : Entry(c) = {e} /\ e.record = r
  BY <1>0, <1>1, <1>2, <1>5 DEF Kept, Entry
<1>10. CASE won
  <2>1. redeemed' = [redeemed EXCEPT ![c] = @ + 1] /\ refused' = refused
    BY <1>7, <1>10 DEF Won
  <2>2. redis' = redis \ Entry(c)
    BY <1>8, <1>10
  <2>3. redeemed'[c] # 0 /\ \A d \in Codes \ {c} : redeemed'[d] = redeemed[d]
    BY <1>1, <1>6, <2>1
  <2>4. Kept'
    BY <1>0, <1>3, <1>5, <2>2, <2>3 DEF Kept, Entry
  <2> QED
    BY <1>0, <1>4, <2>1, <2>4
<1>11. CASE ~won
  <2>1. Lost(j) /\ redeemed' = redeemed
    BY <1>7, <1>11 DEF Lost
  <2>2. redis' = IF gone THEN redis \ Entry(c) ELSE redis
    BY <1>8, <1>11
  <2>3. Kept'
    <3>1. CASE gone
      BY <1>0, <1>3, <1>5, <1>9, <2>1, <2>2, <3>1 DEF Kept, Entry
    <3>2. CASE ~gone
      BY <1>0, <1>3, <2>1, <2>2, <3>2 DEF Kept
    <3> QED
      BY <3>1, <3>2
  <2>4. ~(redeemed[c] = 0 /\ j.record.ctx = j.ctx /\ j.record.expires > time)
    BY <1>2, <1>8, <1>9, <1>11
  <2>5. refused' = refused
    BY <2>1, <2>4 DEF Lost
  <2> QED
    BY <1>0, <1>4, <2>3, <2>5
<1> QED
  BY <1>10, <1>11

LEMMA ExpiresServes ==
  ASSUME Inv, Served, NEW x \in redis, RedisExpires(x)
  PROVE  Served'
<1>1. /\ UNCHANGED <<url, time, job, returned, redeemed, refused, failures>>
      /\ redis' = redis \ {x} /\ x.until <= time
  BY DEF RedisExpires, environment
<1>2. /\ \A r \in returned : r.expires \in Nat
      /\ \A e \in redis : e.until \in Nat /\ e.record.expires \in Nat
      /\ time \in Nat
  BY DEF Inv, Typed, RecordType
<1>3. Kept => Kept'
  BY <1>1, <1>2 DEF Kept
<1>4. JobsInTime => JobsInTime'
  BY <1>1 DEF JobsInTime
<1> QED
  BY <1>1, <1>3, <1>4 DEF Served

LEMMA TickServes ==
  ASSUME Inv, Served, Tick
  PROVE  Served'
<1>1. /\ UNCHANGED <<url, redis, job, returned, redeemed, refused, failures>>
      /\ time' = time + 1
  BY DEF Tick, environment
<1>2. /\ \A r \in returned : r.expires \in Nat
      /\ time \in Nat /\ TTL \in Nat
  BY InputAssumption DEF Inv, Typed, RecordType
<1>3. \A h \in Handlers : /\ job[h].kind # "idle" => job[h].now \in Nat
                          /\ job[h].kind = "store" => job[h].record.expires \in Nat
  BY JobByKind DEF Inv, StoreJobs, RedeemJobs, RecordType
<1>4. Kept => Kept'
  BY <1>1, <1>2 DEF Kept
<1>5. JobsInTime => JobsInTime'
  BY <1>1, <1>2, <1>3 DEF JobsInTime
<1> QED
  BY <1>1, <1>4, <1>5 DEF Served

\* As long as Redis is there and answers, a client that asks in its context and in time
\* is not refused a code that nobody has redeemed, whichever instance it asks and
\* whatever the others do meanwhile.
THEOREM ValidIsRedeemedCorrect == Spec => []ValidIsRedeemed
<1>1. Init => Served
  BY DEF Init, Served, JobsInTime, Kept, Idle
<1>2. Inv /\ Served /\ [Next]_vars => Served'
  <2> SUFFICES ASSUME Inv, Served, [Next]_vars PROVE Served'
    OBVIOUS
  <2>1. CASE UNCHANGED vars
    BY <2>1 DEF vars, Served, JobsInTime, Kept
  <2>2. ASSUME NEW h \in Handlers, NEW i \in Instances, NEW c \in Codes, NEW ctx \in Contexts,
               Issue(h, i, c, ctx)
        PROVE  Served'
    BY <2>2, IssueServes
  <2>3. ASSUME NEW h \in Handlers, NEW i \in Instances, NEW r \in returned, NEW ctx \in Contexts,
               Redeem(h, i, r, ctx)
        PROVE  Served'
    BY <2>3, RedeemServes
  <2>4. ASSUME NEW h \in Handlers, NotStored(h) \/ RedeemWithout(h)
        PROVE  Served'
    BY <2>4, NoneFails DEF Served
  <2>5. ASSUME NEW h \in Handlers, Stored(h) \/ RedeemInRedis(h)
        PROVE  Served'
    BY <2>5, StoredServes, RedeemInRedisServes
  <2> QED
    BY <2>1, <2>2, <2>3, <2>4, <2>5, ExpiresServes, TickServes DEF Next
<1>3. Inv /\ Served => ValidIsRedeemed
  BY DEF Served, ValidIsRedeemed
<1> QED
  BY <1>1, <1>2, <1>3, InitEstablishes, NextKeeps, PTL DEF Spec

-----------------------------------------------------------------------------
(* UsageEvents                                                               *)
(*                                                                         *)
(* A job is in one place (Placed).  Each row there is, each attempt that may  *)
(* still write one although BullMQ has given its job to others (Adrift) and    *)
(* each job that is due is explained by the job's one row or by a doubt (Fair);  *)
(* that is why a worker which goes on without its lock is a doubt from then on. *)
(* An id is never forgotten without a row or a failure (Safe), and while       *)
(* nothing fails what the installation shows is as old as the work that is     *)
(* left (Current).                                                         *)

\* Requests that carry an event, jobs and attempts.
Requests == [id : Nat, event : Events, heard : BOOLEAN]
JobRows == [event : Events, attempts : Nat, stalled : BOOLEAN]
AttemptRows == [pc : {"touch", "create", "end"}, job : Usage!Ids, event : Events, locked : BOOLEAN]

\* The ids whose jobs a worker holds, and those it has not written the row of.
Holds(w, k) == work[w] # Usage!Idle /\ work[w].locked /\ work[w].job = k
Held == {k \in Usage!Ids : \E w \in Workers : Holds(w, k)}
Due == Usage!ToSet(waiting) \cup
       {k \in Usage!Ids : \E w \in Workers : Holds(w, k) /\ work[w].pc \in {"touch", "create"}}

\* Workers that have lost the lock of a job and go on all the same.
Adrift(k) == {w \in Workers : /\ work[w] # Usage!Idle /\ ~work[w].locked
                              /\ work[w].job = k /\ work[w].pc \in {"touch", "create"}}

UsageTyped ==
  /\ delivery \subseteq Requests /\ sends \in Nat
  /\ answered \subseteq Events
  /\ DOMAIN jobs \subseteq Usage!Ids
  /\ jobs \in [DOMAIN jobs -> JobRows]
  /\ waiting \in Seq(Usage!Ids) /\ completed \in Seq(Usage!Ids) /\ failed \in Seq(Usage!Ids)
  /\ exhausted \subseteq Usage!Ids
  /\ work \in [Workers -> {Usage!Idle} \cup AttemptRows]
  /\ telemetry \in [Usage!Ids -> Nat] /\ doubts \in [Usage!Ids -> Nat]
  /\ faults \in Nat /\ abreast \in BOOLEAN

\* A job is in one place as long as BullMQ knows it.
Placed ==
  /\ \A k \in DOMAIN jobs : KeyOf[jobs[k].event] = k
  /\ \A w \in Workers : work[w] # Usage!Idle => KeyOf[work[w].event] = work[w].job
  /\ \A i, j \in 1 .. Len(waiting) : waiting[i] = waiting[j] => i = j
  /\ \A w, v \in Workers, k \in Usage!Ids : Holds(w, k) /\ Holds(v, k) => w = v
  /\ Usage!ToSet(waiting) \subseteq DOMAIN jobs /\ Held \subseteq DOMAIN jobs
  /\ Usage!ToSet(completed) \subseteq DOMAIN jobs /\ Usage!ToSet(failed) \subseteq DOMAIN jobs
  /\ Usage!ToSet(waiting) \cap Held = {} /\ Usage!ToSet(completed) \cap Usage!ToSet(failed) = {}
  /\ (Usage!ToSet(waiting) \cup Held) \cap (Usage!ToSet(completed) \cup Usage!ToSet(failed)) = {}

\* Rows there are, rows there may be, and the doubts that explain them.
Fair(k) ==
  /\ telemetry[k] + Cardinality(Adrift(k)) + (IF k \in Due THEN 1 ELSE 0) <= 1 + doubts[k]
  /\ Cardinality(Adrift(k)) <= doubts[k]

\* TelemetryOnce, with what may still come.
Explained == \A k \in Usage!Ids : Fair(k)

\* Nothing is lost of an id that the queue has taken a job of.
Safe(k) == telemetry[k] > 0 \/ k \in Usage!ToSet(waiting) \/ k \in Held \/ k \in exhausted

JobsSafe ==
  /\ \A w \in Workers : work[w] # Usage!Idle /\ work[w].pc = "end" => telemetry[work[w].job] > 0
  /\ \A k \in DOMAIN jobs : Safe(k)
  /\ \A e \in answered : Safe(KeyOf[e])

\* As long as nothing fails and one worker is busy at a time.
Current ==
  faults = 0 /\ ~abreast =>
    /\ \A w, v \in Workers : work[w] # Usage!Idle /\ work[v] # Usage!Idle => w = v
    /\ \A w \in Workers : work[w] # Usage!Idle => work[w].locked
    /\ waiting # <<>> => jobs[waiting[Len(waiting)]].event = last
    /\ waiting = <<>> =>
         /\ \A w \in Workers : work[w] # Usage!Idle =>
              IF work[w].pc = "touch" THEN work[w].event = last ELSE shown = last
         /\ (\A w \in Workers : work[w] = Usage!Idle) => shown = last

\* The inductive invariant.
UsageInv == UsageTyped /\ Placed /\ Explained /\ JobsSafe /\ Current

\* Sequences without repetition.
Once(s) == \A i, j \in 1 .. Len(s) : s[i] = s[j] => i = j

\* The members of a sequence,
LEMMA MemberIs ==
  ASSUME NEW S, NEW s \in Seq(S)
  PROVE  /\ Usage!ToSet(s) \subseteq S
         /\ \A x : x \in Usage!ToSet(s) <=> \E i \in 1 .. Len(s) : s[i] = x
         /\ s # <<>> => Len(s) \in 1 .. Len(s) /\ s[Len(s)] \in Usage!ToSet(s)
BY DEF Usage!ToSet

\* after one is added behind,
LEMMA AppendIs ==
  ASSUME NEW S, NEW s \in Seq(S), NEW x \in S
  PROVE  /\ Append(s, x) \in Seq(S) /\ Usage!ToSet(Append(s, x)) = Usage!ToSet(s) \cup {x}
         /\ Append(s, x) # <<>> /\ Append(s, x)[Len(Append(s, x))] = x
         /\ Once(s) /\ x \notin Usage!ToSet(s) => Once(Append(s, x))
<1> DEFINE t == Append(s, x)
<1>1. t \in Seq(S) /\ Len(t) = Len(s) + 1 /\ t[Len(s) + 1] = x /\ Len(s) \in Nat /\ t # <<>>
      /\ \A i \in 1 .. Len(s) : t[i] = s[i]
  OBVIOUS
<1> HIDE DEF t
<1>2. Usage!ToSet(t) = Usage!ToSet(s) \cup {x}
  <2>1. ASSUME NEW y PROVE y \in Usage!ToSet(t) <=> y \in Usage!ToSet(s) \cup {x}
    <3>1. y \in Usage!ToSet(t) <=> \E i \in 1 .. Len(t) : t[i] = y
      BY <1>1, MemberIs
    <3>2. y \in Usage!ToSet(s) <=> \E i \in 1 .. Len(s) : s[i] = y
      BY MemberIs
    <3> QED
      BY <1>1, <3>1, <3>2
  <2> QED
    BY <2>1
<1>3. ASSUME Once(s), x \notin Usage!ToSet(s) PROVE Once(t)
  <2>1. \A i \in 1 .. Len(s) : s[i] # x
    BY <1>3, MemberIs
  <2> QED
    BY <1>1, <1>3, <2>1 DEF Once
<1> QED
  BY <1>1, <1>2, <1>3 DEF t

\* after the first is taken,
LEMMA TailIs ==
  ASSUME NEW S, NEW s \in Seq(S), s # <<>>, Once(s)
  PROVE  /\ Tail(s) \in Seq(S) /\ Once(Tail(s)) /\ Head(s) \in Usage!ToSet(s) /\ Head(s) \in S
         /\ Usage!ToSet(Tail(s)) = Usage!ToSet(s) \ {Head(s)}
         /\ Tail(s) # <<>> => Tail(s)[Len(Tail(s))] = s[Len(s)]
         /\ Tail(s) = <<>> => s[Len(s)] = Head(s)
<1> DEFINE t == Tail(s)
           x == Head(s)
<1>1. t \in Seq(S) /\ Len(t) = Len(s) - 1 /\ Len(s) \in Nat /\ Len(s) >= 1 /\ x = s[1] /\ x \in S
  <2>1. Len(s) \in Nat /\ Len(s) >= 1
    OBVIOUS
  <2>2. t \in Seq(S) /\ Len(t) = Len(s) - 1
    OBVIOUS
  <2>3. x = s[1] /\ x \in S
    BY <2>1
  <2> QED
    BY <2>1, <2>2, <2>3
<1>b. \A i \in 1 .. Len(t) : t[i] = s[i + 1]
  OBVIOUS
<1>c. t = <<>> <=> Len(t) = 0
  <2> HIDE DEF t
  <2> QED
    BY <1>1
<1> HIDE DEF t, x
<1>2. Once(t)
  <2> SUFFICES ASSUME NEW i \in 1 .. Len(t), NEW j \in 1 .. Len(t), t[i] = t[j] PROVE i = j
    BY DEF Once
  <2>1. i + 1 \in 1 .. Len(s) /\ j + 1 \in 1 .. Len(s) /\ s[i + 1] = s[j + 1]
    BY <1>1, <1>b
  <2>2. i + 1 = j + 1
    BY <2>1 DEF Once
  <2> QED
    BY <2>2
<1>3. Usage!ToSet(t) = Usage!ToSet(s) \ {x}
  <2>1. ASSUME NEW y PROVE y \in Usage!ToSet(t) <=> y \in Usage!ToSet(s) \ {x}
    <3>1. y \in Usage!ToSet(t) <=> \E i \in 1 .. Len(t) : t[i] = y
      BY <1>1, MemberIs
    <3>2. y \in Usage!ToSet(s) <=> \E i \in 1 .. Len(s) : s[i] = y
      BY MemberIs
    <3>3. ASSUME NEW i \in 1 .. Len(t), t[i] = y PROVE y \in Usage!ToSet(s) \ {x}
      <4>1. i + 1 \in 1 .. Len(s) /\ s[i + 1] = y /\ i + 1 # 1 /\ 1 \in 1 .. Len(s)
        BY <1>1, <1>b, <3>3
      <4>2. s[i + 1] # s[1]
        BY <4>1 DEF Once
      <4> QED
        BY <1>1, <3>2, <4>1, <4>2
    <3>4. ASSUME NEW i \in 1 .. Len(s), s[i] = y, y # x PROVE y \in Usage!ToSet(t)
      <4>1. i # 1 /\ i - 1 \in 1 .. Len(t) /\ t[i - 1] = s[i]
        BY <1>1, <1>b, <3>4
      <4> QED
        BY <3>1, <3>4, <4>1
    <3> QED
      BY <3>1, <3>2, <3>3, <3>4
  <2> QED
    BY <2>1
<1>4. x \in Usage!ToSet(s)
  BY <1>1, MemberIs
<1>5. t # <<>> => t[Len(t)] = s[Len(s)]
  <2> SUFFICES ASSUME t # <<>> PROVE t[Len(t)] = s[Len(s)]
    OBVIOUS
  <2>1. Len(t) \in 1 .. Len(t) /\ Len(t) + 1 = Len(s)
    BY <1>1, <1>c
  <2>2. t[Len(t)] = s[Len(t) + 1]
    BY <1>b, <2>1
  <2> QED
    BY <2>1, <2>2
<1>6. t = <<>> => s[Len(s)] = x
  <2>1. t = <<>> => Len(s) = 1
    BY <1>1, <1>c
  <2> QED
    BY <1>1, <2>1
<1> QED
  BY <1>1, <1>2, <1>3, <1>4, <1>5, <1>6 DEF t, x

\* after one is put before them,
LEMMA PushIs ==
  ASSUME NEW S, NEW s \in Seq(S), NEW x \in S
  PROVE  /\ <<x>> \o s \in Seq(S) /\ Usage!ToSet(<<x>> \o s) = Usage!ToSet(s) \cup {x}
         /\ Once(s) /\ x \notin Usage!ToSet(s) => Once(<<x>> \o s)
<1> DEFINE t == <<x>> \o s
<1>1. t \in Seq(S) /\ Len(t) = Len(s) + 1 /\ t[1] = x /\ Len(s) \in Nat
      /\ \A i \in 1 .. Len(s) : t[i + 1] = s[i]
  OBVIOUS
<1> HIDE DEF t
<1>2. \A i \in 1 .. Len(t) : i # 1 => i - 1 \in 1 .. Len(s) /\ t[i] = s[i - 1]
  <2> SUFFICES ASSUME NEW i \in 1 .. Len(t), i # 1
               PROVE  i - 1 \in 1 .. Len(s) /\ t[i] = s[i - 1]
    OBVIOUS
  <2>1. i - 1 \in 1 .. Len(s) /\ (i - 1) + 1 = i
    BY <1>1
  <2> QED
    BY <1>1, <2>1
<1>3. Usage!ToSet(t) = Usage!ToSet(s) \cup {x}
  <2>1. ASSUME NEW y PROVE y \in Usage!ToSet(t) <=> y \in Usage!ToSet(s) \cup {x}
    <3>1. y \in Usage!ToSet(t) <=> \E i \in 1 .. Len(t) : t[i] = y
      BY <1>1, MemberIs
    <3>2. y \in Usage!ToSet(s) <=> \E i \in 1 .. Len(s) : s[i] = y
      BY MemberIs
    <3>3. ASSUME NEW i \in 1 .. Len(t), t[i] = y PROVE y \in Usage!ToSet(s) \cup {x}
      BY <1>1, <1>2, <3>2, <3>3
    <3>4. ASSUME NEW i \in 1 .. Len(s), s[i] = y PROVE y \in Usage!ToSet(t)
      <4>1. i + 1 \in 1 .. Len(t) /\ t[i + 1] = y
        BY <1>1, <3>4
      <4> QED
        BY <3>1, <4>1
    <3>5. 1 \in 1 .. Len(t)
      BY <1>1
    <3> QED
      BY <1>1, <3>1, <3>2, <3>3, <3>4, <3>5
  <2> QED
    BY <2>1
<1>4. ASSUME Once(s), x \notin Usage!ToSet(s) PROVE Once(t)
  <2>1. \A i \in 1 .. Len(s) : s[i] # x
    BY <1>4, MemberIs
  <2> SUFFICES ASSUME NEW i \in 1 .. Len(t), NEW j \in 1 .. Len(t), t[i] = t[j] PROVE i = j
    BY DEF Once
  <2>2. i = 1 <=> j = 1
    BY <1>1, <1>2, <2>1
  <2>3. ASSUME i # 1, j # 1 PROVE i = j
    <3>1. i - 1 \in 1 .. Len(s) /\ j - 1 \in 1 .. Len(s) /\ s[i - 1] = s[j - 1]
      BY <1>2, <2>3
    <3>2. i - 1 = j - 1
      BY <1>4, <3>1 DEF Once
    <3> QED
      BY <3>2
  <2> QED
    BY <2>2, <2>3
<1> QED
  BY <1>1, <1>3, <1>4 DEF t

\* and when only the last of them are kept.
LEMMA KeptIs ==
  ASSUME NEW S, NEW s \in Seq(S), NEW n \in Nat
  PROVE  Usage!Kept(s, n) \in Seq(S) /\ Usage!ToSet(Usage!Kept(s, n)) \subseteq Usage!ToSet(s)
<1> DEFINE m == IF Len(s) > n THEN Len(s) - n + 1 ELSE 1
           t == SubSeq(s, m, Len(s))
<1>1. m \in Nat /\ m >= 1 /\ Len(s) \in Nat /\ m <= Len(s) + 1
  OBVIOUS
<1> HIDE DEF m
<1>2. t \in Seq(S) /\ Len(t) = Len(s) - m + 1 /\ \A i \in 1 .. Len(t) : t[i] = s[i + m - 1]
  BY <1>1
<1> HIDE DEF t
<1>3. ASSUME NEW y \in Usage!ToSet(t) PROVE y \in Usage!ToSet(s)
  <2>1. PICK i \in 1 .. Len(t) : t[i] = y
    BY <1>2, MemberIs
  <2>2. s[i + m - 1] = y
    BY <1>2, <2>1
  <2>3. i + m - 1 \in 1 .. Len(s)
    <3>1. i \in Nat /\ i >= 1 /\ i <= Len(s) - m + 1
      BY <1>1, <1>2
    <3> QED
      BY <1>1, <3>1
  <2> QED
    BY <2>2, <2>3, MemberIs
<1>4. Usage!Kept(s, n) = t
  BY DEF Usage!Kept, t, m
<1> QED
  BY <1>2, <1>3, <1>4

\* An attempt, and how it moves on.
At(a, p, j, e, locked) ==
  a \in AttemptRows /\ a.pc = p /\ a.job = j /\ a.event = e /\ a.locked = locked

\* No attempt is taken for an idle worker.
LEMMA AttemptIs ==
  ASSUME NEW a \in AttemptRows
  PROVE  /\ a # Usage!Idle /\ a.pc # "idle" /\ a.pc \in {"touch", "create", "end"}
            /\ a.job \in Usage!Ids
         /\ a.event \in Events /\ a.locked \in BOOLEAN
         /\ \A p \in {"create", "end"} : At([a EXCEPT !.pc = p], p, a.job, a.event, a.locked)
         /\ At([a EXCEPT !.locked = FALSE], a.pc, a.job, a.event, FALSE)
<1>1. /\ a = [pc |-> a.pc, job |-> a.job, event |-> a.event, locked |-> a.locked]
      /\ a.pc \in {"touch", "create", "end"} /\ a.job \in Usage!Ids /\ a.event \in Events
      /\ a.locked \in BOOLEAN
  BY DEF AttemptRows
<1>2. a # Usage!Idle /\ a.pc # "idle"
  BY <1>1 DEF Usage!Idle
<1>3. ASSUME NEW p \in {"create", "end"}
      PROVE  At([a EXCEPT !.pc = p], p, a.job, a.event, a.locked)
  <2>1. [a EXCEPT !.pc = p] = [pc |-> p, job |-> a.job, event |-> a.event, locked |-> a.locked]
    BY <1>1
  <2> QED
    BY <1>1, <2>1 DEF At, AttemptRows
<1>4. At([a EXCEPT !.locked = FALSE], a.pc, a.job, a.event, FALSE)
  <2> DEFINE b == [a EXCEPT !.locked = FALSE]
  <2>1. b \in AttemptRows
    BY DEF AttemptRows
  <2>2. b.pc = a.pc /\ b.job = a.job /\ b.event = a.event
    BY DEF AttemptRows
  <2>3. b.locked = FALSE
    BY DEF AttemptRows
  <2> HIDE DEF b
  <2>4. At(b, a.pc, a.job, a.event, FALSE)
    BY <2>1, <2>2, <2>3 DEF At
  <2> QED
    BY <2>4 DEF b
<1> QED
  BY <1>1, <1>2, <1>3, <1>4

\* A worker that is not idle is at an attempt.
LEMMA BusyIs ==
  ASSUME UsageTyped, NEW w \in Workers
  PROVE  /\ work[w] # Usage!Idle <=> work[w] \in AttemptRows
         /\ work[w] # Usage!Idle <=> work[w].pc # "idle"
<1>1. work[w] \in {Usage!Idle} \cup AttemptRows
  BY DEF UsageTyped
<1>2. Usage!Idle.pc = "idle"
  BY DEF Usage!Idle
<1> QED
  BY <1>1, <1>2, AttemptIs

\* A worker with a lock holds its job, and no other.
LEMMA HoldsTyped ==
  ASSUME UsageTyped, NEW w \in Workers
  PROVE  /\ work[w] # Usage!Idle /\ work[w].locked => Holds(w, work[w].job) /\ work[w].job \in Held
         /\ \A k : Holds(w, k) => k = work[w].job /\ k \in Held
BY BusyIs, AttemptIs DEF Holds, Held

\* A worker's step leaves the other workers alone.
LEMMA OthersStay ==
  ASSUME UsageTyped, NEW w \in Workers, NEW a, Usage!Sets(w, a)
  PROVE  /\ work'[w] = a
         /\ \A v \in Workers : v # w => work'[v] = work[v]
         /\ \A v \in Workers : \A k : v # w => (Holds(v, k)' <=> Holds(v, k))
<1>1. work'[w] = a /\ \A v \in Workers : v # w => work'[v] = work[v]
  BY DEF Usage!Sets, UsageTyped
<1>2. \A v \in Workers : \A k : v # w => (Holds(v, k)' <=> Holds(v, k))
  BY <1>1 DEF Holds
<1> QED
  BY <1>1, <1>2

\* Workers are idle or at an attempt.
LEMMA WorkTyped ==
  ASSUME UsageTyped, NEW w \in Workers, NEW a \in {Usage!Idle} \cup AttemptRows, Usage!Sets(w, a)
  PROVE  work' \in [Workers -> {Usage!Idle} \cup AttemptRows]
BY DEF Usage!Sets, UsageTyped

\* What a step of a worker does to the jobs that are held.
LEMMA HeldMoves ==
  ASSUME UsageTyped, NEW w \in Workers, NEW a, Usage!Sets(w, a), \A k : Holds(w, k)' <=> Holds(w, k)
  PROVE  Held' = Held
<1>1. \A v \in Workers : \A k : Holds(v, k)' <=> Holds(v, k)
  BY OthersStay
<1> QED
  BY <1>1 DEF Held

LEMMA HeldTakes ==
  ASSUME UsageTyped, NEW w \in Workers, NEW a, Usage!Sets(w, a), NEW k0 \in Usage!Ids,
         \A k : ~Holds(w, k), \A k : Holds(w, k)' <=> k = k0
  PROVE  Held' = Held \cup {k0}
<1>1. \A k : (\E v \in Workers : Holds(v, k)') <=> (\E v \in Workers : Holds(v, k)) \/ k = k0
  BY OthersStay
<1> QED
  BY <1>1 DEF Held

LEMMA HeldReleases ==
  ASSUME UsageTyped, Placed, NEW w \in Workers, NEW a, Usage!Sets(w, a), NEW k0 \in Usage!Ids,
         Holds(w, k0), \A k : ~Holds(w, k)'
  PROVE  Held' = Held \ {k0}
<1>1. \A k : Holds(w, k) => k = k0
  BY DEF Holds
<1>2. \A v \in Workers : Holds(v, k0) => v = w
  BY DEF Placed
<1>3. \A k : (\E v \in Workers : Holds(v, k)') <=> (\E v \in Workers : Holds(v, k)) /\ k # k0
  BY OthersStay, <1>1, <1>2
<1> QED
  BY <1>3 DEF Held

\* A worker without a lock holds nothing, whatever it does then.
LEMMA HeldIdle ==
  ASSUME UsageTyped, NEW w \in Workers, NEW a, Usage!Sets(w, a), \A k : ~Holds(w, k),
         \A k : ~Holds(w, k)'
  PROVE  Held' = Held
BY HeldMoves

\* A job that has come to its end is kept for a while, and at most one more is not.
LEMMA CompleteIs ==
  ASSUME UsageTyped, NEW k \in Usage!Ids, Usage!Complete(k)
  PROVE  /\ completed' \in Seq(Usage!Ids)
            /\ Usage!ToSet(completed') \subseteq Usage!ToSet(completed) \cup {k}
         /\ DOMAIN jobs' = DOMAIN jobs
                           \ ((Usage!ToSet(completed) \cup {k}) \ Usage!ToSet(completed'))
         /\ \A j \in DOMAIN jobs' : jobs'[j] = jobs[j]
         /\ jobs' \in [DOMAIN jobs' -> JobRows]
         /\ waiting' = waiting /\ failed' = failed /\ exhausted' = exhausted
<1> DEFINE ids == Append(completed, k)
<1>1. ids \in Seq(Usage!Ids) /\ Usage!ToSet(ids) = Usage!ToSet(completed) \cup {k}
      /\ KeepDone \in Nat
  BY AppendIs, UsageAssumption DEF UsageTyped
<1>2. completed' = Usage!Kept(ids, KeepDone)
      /\ jobs' = [j \in DOMAIN jobs
                     \ (Usage!ToSet(ids) \ Usage!ToSet(Usage!Kept(ids, KeepDone))) |-> jobs[j]]
      /\ waiting' = waiting /\ failed' = failed /\ exhausted' = exhausted
  BY DEF Usage!Complete, Usage!Forgetting
<1> HIDE DEF ids
<1>3. Usage!Kept(ids, KeepDone) \in Seq(Usage!Ids)
      /\ Usage!ToSet(Usage!Kept(ids, KeepDone)) \subseteq Usage!ToSet(ids)
  BY <1>1, KeptIs
<1>4. DOMAIN jobs' = DOMAIN jobs \ (Usage!ToSet(ids) \ Usage!ToSet(completed'))
      /\ \A j \in DOMAIN jobs' : jobs'[j] = jobs[j] /\ j \in DOMAIN jobs
  BY <1>2
<1>5. jobs' \in [DOMAIN jobs' -> JobRows]
  BY <1>2, <1>4 DEF UsageTyped
<1> QED
  BY <1>1, <1>2, <1>3, <1>4, <1>5

LEMMA FailForGoodIs ==
  ASSUME UsageTyped, NEW k \in Usage!Ids, Usage!FailForGood(k)
  PROVE  /\ failed' \in Seq(Usage!Ids)
            /\ Usage!ToSet(failed') \subseteq Usage!ToSet(failed) \cup {k}
         /\ DOMAIN jobs' = DOMAIN jobs \ ((Usage!ToSet(failed) \cup {k}) \ Usage!ToSet(failed'))
         /\ \A j \in DOMAIN jobs' : jobs'[j] = jobs[j]
         /\ jobs' \in [DOMAIN jobs' -> JobRows]
         /\ waiting' = waiting /\ completed' = completed /\ exhausted' = exhausted \cup {k}
<1> DEFINE ids == Append(failed, k)
<1>1. ids \in Seq(Usage!Ids) /\ Usage!ToSet(ids) = Usage!ToSet(failed) \cup {k}
      /\ KeepFailed \in Nat
  BY AppendIs, UsageAssumption DEF UsageTyped
<1>2. failed' = Usage!Kept(ids, KeepFailed)
      /\ jobs' = [j \in DOMAIN jobs
                     \ (Usage!ToSet(ids) \ Usage!ToSet(Usage!Kept(ids, KeepFailed))) |-> jobs[j]]
      /\ waiting' = waiting /\ completed' = completed /\ exhausted' = exhausted \cup {k}
  BY DEF Usage!FailForGood, Usage!Forgetting
<1> HIDE DEF ids
<1>3. Usage!Kept(ids, KeepFailed) \in Seq(Usage!Ids)
      /\ Usage!ToSet(Usage!Kept(ids, KeepFailed)) \subseteq Usage!ToSet(ids)
  BY <1>1, KeptIs
<1>4. DOMAIN jobs' = DOMAIN jobs \ (Usage!ToSet(ids) \ Usage!ToSet(failed'))
      /\ \A j \in DOMAIN jobs' : jobs'[j] = jobs[j] /\ j \in DOMAIN jobs
  BY <1>2
<1>5. jobs' \in [DOMAIN jobs' -> JobRows]
  BY <1>2, <1>4 DEF UsageTyped
<1> QED
  BY <1>1, <1>2, <1>3, <1>4, <1>5

\* Workers that go on without a lock: one comes, goes or stays.
LEMMA AdriftIs ==
  ASSUME UsageTyped, NEW w \in Workers, NEW a, Usage!Sets(w, a), NEW k
  PROVE  /\ IsFiniteSet(Adrift(k)) /\ Cardinality(Adrift(k)) \in Nat
         /\ Cardinality(Adrift(k)') \in Nat
         /\ (w \in Adrift(k)' <=> w \in Adrift(k))
              => Cardinality(Adrift(k)') = Cardinality(Adrift(k))
         /\ w \in Adrift(k)' /\ w \notin Adrift(k) =>
              Cardinality(Adrift(k)') = Cardinality(Adrift(k)) + 1
         /\ w \notin Adrift(k)' /\ w \in Adrift(k) =>
              Cardinality(Adrift(k)') = Cardinality(Adrift(k)) - 1
<1> DEFINE A == Adrift(k)
           B == Adrift(k)'
<1>1. A \subseteq Workers /\ B \subseteq Workers
  BY DEF Adrift
<1>2. \A v \in Workers : v # w => (v \in A <=> v \in B)
  BY OthersStay DEF Adrift
<1> HIDE DEF A, B
<1>3. IsFiniteSet(A) /\ IsFiniteSet(B) /\ Cardinality(A) \in Nat /\ Cardinality(B) \in Nat
  BY <1>1, UsageAssumption, FS_Subset, FS_CardinalityType
<1>4. ASSUME w \in A <=> w \in B PROVE Cardinality(B) = Cardinality(A)
  <2>1. A = B
    BY <1>1, <1>2, <1>4
  <2> QED
    BY <2>1
<1>5. ASSUME w \in B, w \notin A PROVE Cardinality(B) = Cardinality(A) + 1
  <2>1. B = A \cup {w}
    BY <1>1, <1>2, <1>5
  <2> QED
    BY <1>3, <1>5, <2>1, FS_AddElement
<1>6. ASSUME w \notin B, w \in A PROVE Cardinality(B) = Cardinality(A) - 1
  <2>1. B = A \ {w}
    BY <1>1, <1>2, <1>6
  <2> QED
    BY <1>3, <1>6, <2>1, FS_RemoveElement
<1> QED
  BY <1>3, <1>4, <1>5, <1>6 DEF A, B

\* A job is due where it waits, or where a worker that holds it has not written its row.
LEMMA DueIs ==
  ASSUME UsageTyped, NEW w \in Workers, NEW a, Usage!Sets(w, a), NEW k \in Usage!Ids, k \in Due',
         k \notin Usage!ToSet(waiting'), ~(Holds(w, k)' /\ work'[w].pc \in {"touch", "create"})
  PROVE  k \in Due
<1>1. PICK v \in Workers : Holds(v, k)' /\ work'[v].pc \in {"touch", "create"}
  BY DEF Due
<1>2. v # w
  BY <1>1
<1>3. Holds(v, k) /\ work[v].pc \in {"touch", "create"}
  BY <1>1, <1>2, OthersStay
<1> QED
  BY <1>3 DEF Due

\* A job has one holder, if none is taken from another.
LEMMA HoldersStay ==
  ASSUME UsageTyped, Placed, NEW w \in Workers, NEW a, Usage!Sets(w, a),
         \A k \in Usage!Ids : Holds(w, k)' => Holds(w, k) \/ k \notin Held
  PROVE  \A u, v \in Workers, k \in Usage!Ids : Holds(u, k)' /\ Holds(v, k)' => u = v
<1> SUFFICES ASSUME NEW u \in Workers, NEW v \in Workers, NEW k \in Usage!Ids,
                    Holds(u, k)', Holds(v, k)', u # v
             PROVE  FALSE
  OBVIOUS
<1>1. ASSUME NEW x \in Workers, NEW y \in Workers, x # y, x # w, Holds(x, k)', Holds(y, k)'
      PROVE  FALSE
  <2>1. Holds(x, k)
    BY <1>1, OthersStay
  <2>2. k \in Held
    BY <2>1 DEF Held
  <2>3. Holds(y, k)
    BY <1>1, <2>2, OthersStay
  <2> QED
    BY <1>1, <2>1, <2>3 DEF Placed
<1>2. u # w \/ v # w
  OBVIOUS
<1> QED
  BY <1>1, <1>2

\* The queue takes a job that it does not know.
LEMMA AddPlaced ==
  ASSUME UsageTyped, Placed, NEW d, d.event \in Events, Usage!Add(d),
         UNCHANGED <<completed, failed, work>>
  PROVE  /\ DOMAIN jobs' \subseteq Usage!Ids /\ jobs' \in [DOMAIN jobs' -> JobRows]
         /\ waiting' \in Seq(Usage!Ids) /\ doubts' \in [Usage!Ids -> Nat]
         /\ Placed'
<1> DEFINE k == Usage!JobId(d)
<1>1. k \in Usage!Ids /\ KeyOf[d.event] = k
  BY DEF Usage!JobId, Usage!Ids
<1>2. Held' = Held /\ completed' = completed /\ failed' = failed /\ work' = work
      /\ \A w \in Workers : \A j : Holds(w, j)' <=> Holds(w, j)
  <2>1. work' = work
    OBVIOUS
  <2>2. \A w \in Workers : \A j : Holds(w, j)' <=> Holds(w, j)
    BY <2>1 DEF Holds
  <2> QED
    BY <2>1, <2>2 DEF Held
<1>3. CASE k \in DOMAIN jobs
  <2>1. UNCHANGED <<jobs, waiting, last, doubts>>
    BY <1>3 DEF Usage!Add
  <2> QED
    BY <1>2, <2>1 DEF UsageTyped, Placed
<1>4. CASE k \notin DOMAIN jobs
  <2> DEFINE r == [event |-> d.event, attempts |-> 0, stalled |-> FALSE]
  <2>1. /\ jobs' = [j \in DOMAIN jobs \cup {k} |-> IF j = k THEN r ELSE jobs[j]]
        /\ waiting' = Append(waiting, k)
        /\ doubts' = [i \in Usage!Ids |-> IF i = KeyOf[d.event] /\ telemetry[i] > 0
                                       THEN doubts[i] + 1 ELSE doubts[i]]
    BY <1>4 DEF Usage!Add
  <2>2. r \in JobRows /\ r.event = d.event
    BY DEF JobRows
  <2> HIDE DEF k, r
  <2>3. DOMAIN jobs' = DOMAIN jobs \cup {k} /\ jobs'[k] = r
        /\ \A j \in DOMAIN jobs : jobs'[j] = jobs[j]
    BY <1>4, <2>1
  <2>4. jobs' \in [DOMAIN jobs' -> JobRows]
    BY <2>1, <2>2, <2>3 DEF UsageTyped
  <2>5. k \notin Usage!ToSet(waiting)
    BY <1>4 DEF Placed
  <2>6. waiting' \in Seq(Usage!Ids) /\ Usage!ToSet(waiting') = Usage!ToSet(waiting) \cup {k}
        /\ Once(waiting')
    <3>1. waiting \in Seq(Usage!Ids) /\ Once(waiting)
      BY DEF UsageTyped, Placed, Once
    <3> QED
      BY <1>1, <2>1, <2>5, <3>1, AppendIs
  <2>7. doubts' \in [Usage!Ids -> Nat]
    BY <2>1 DEF UsageTyped
  <2>8. \A j \in DOMAIN jobs' : KeyOf[jobs'[j].event] = j
    BY <1>1, <2>2, <2>3 DEF Placed
  <2>9. Placed'
    BY <1>2, <1>4, <2>3, <2>6, <2>8 DEF Placed, Once
  <2> QED
    BY <1>1, <2>3, <2>4, <2>6, <2>7, <2>9 DEF UsageTyped
<1> QED
  BY <1>3, <1>4

\* Attempts know whose they are.
KeysFit == \A w \in Workers : work[w] # Usage!Idle => KeyOf[work[w].event] = work[w].job

\* They still do when one worker has moved.
LEMMA KeysFitStay ==
  ASSUME UsageTyped, Placed, NEW w \in Workers, NEW a, Usage!Sets(w, a), a # Usage!Idle
         => KeyOf[a.event] = a.job
  PROVE  KeysFit'
<1>1. work'[w] = a /\ \A v \in Workers : v # w => work'[v] = work[v]
  BY OthersStay
<1> QED
  BY <1>1 DEF Placed, KeysFit

\* What a step of a worker leaves of the queue, by the sets of ids.
LEMMA PlacedAgain ==
  ASSUME UsageTyped, Placed, KeysFit', Once(waiting'),
         \A u, v \in Workers, k \in Usage!Ids : Holds(u, k)' /\ Holds(v, k)' => u = v,
         \A k \in DOMAIN jobs' : k \in DOMAIN jobs /\ jobs'[k].event = jobs[k].event,
         Usage!ToSet(waiting') \subseteq DOMAIN jobs', Held' \subseteq DOMAIN jobs',
         Usage!ToSet(completed') \subseteq DOMAIN jobs',
           Usage!ToSet(failed') \subseteq DOMAIN jobs',
         Usage!ToSet(waiting') \cap Held' = {},
           Usage!ToSet(completed') \cap Usage!ToSet(failed') = {},
         (Usage!ToSet(waiting') \cup Held')
         \cap (Usage!ToSet(completed') \cup Usage!ToSet(failed')) = {}
  PROVE  Placed'
<1>1. \A k \in DOMAIN jobs' : KeyOf[jobs'[k].event] = k
  BY DEF Placed
<1> QED
  BY <1>1 DEF Placed, KeysFit, Once

\* A worker takes a job, which is the first that waits.
LEMMA TakePlaced ==
  ASSUME UsageTyped, Placed, NEW w \in Workers, Usage!Take(w)
  PROVE  UsageTyped' /\ Placed'
<1> DEFINE k == Head(waiting)
           a == [pc |-> "touch", job |-> k, event |-> jobs[k].event, locked |-> TRUE]
           r == [jobs[k] EXCEPT !.attempts = jobs[k].attempts + 1]
<1>1. /\ work[w] = Usage!Idle /\ waiting # <<>> /\ Usage!Sets(w, a) /\ waiting' = Tail(waiting)
      /\ jobs' = [jobs EXCEPT ![k] = r]
      /\ UNCHANGED <<delivery, sends, answered, completed, failed, exhausted, telemetry, doubts,
           faults>>
      /\ abreast' \in BOOLEAN
  BY DEF Usage!Take, Usage!client, Usage!rows
<1>2. /\ waiting' \in Seq(Usage!Ids) /\ Once(waiting') /\ k \in Usage!ToSet(waiting)
         /\ k \in Usage!Ids
      /\ Usage!ToSet(waiting') = Usage!ToSet(waiting) \ {k}
  <2>1. waiting \in Seq(Usage!Ids) /\ Once(waiting)
    BY DEF UsageTyped, Placed, Once
  <2> QED
    BY <1>1, <2>1, TailIs
<1>3. k \in DOMAIN jobs /\ jobs[k] \in JobRows /\ KeyOf[jobs[k].event] = k /\ k \notin Held
  BY <1>2 DEF UsageTyped, Placed
<1> HIDE DEF k
<1>4. r \in JobRows /\ r.event = jobs[k].event
  BY <1>3 DEF JobRows
<1>5. a \in AttemptRows /\ a # Usage!Idle /\ KeyOf[a.event] = a.job /\ a.job = k /\ a.locked
  BY <1>2, <1>3 DEF AttemptRows, JobRows, Usage!Idle
<1> HIDE DEF a, r
<1>6. DOMAIN jobs' = DOMAIN jobs /\ jobs' \in [DOMAIN jobs' -> JobRows]
      /\ \A j \in DOMAIN jobs' : j \in DOMAIN jobs /\ jobs'[j].event = jobs[j].event
  BY <1>1, <1>3, <1>4 DEF UsageTyped
<1>7. Held' = Held \cup {k}
  <2>1. \A j : ~Holds(w, j)
    BY <1>1 DEF Holds
  <2>2. \A j : Holds(w, j)' <=> j = k
    BY <1>1, <1>5, OthersStay DEF Holds
  <2> QED
    BY <1>1, <1>2, <2>1, <2>2, HeldTakes
<1>8. \A u, v \in Workers, j \in Usage!Ids : Holds(u, j)' /\ Holds(v, j)' => u = v
  <2>1. \A j \in Usage!Ids : Holds(w, j)' => j \notin Held
    BY <1>1, <1>3, <1>5, OthersStay DEF Holds
  <2> QED
    BY <1>1, <2>1, HoldersStay
<1>9. KeysFit'
  BY <1>1, <1>5, KeysFitStay
<1>10. UsageTyped'
  BY <1>1, <1>2, <1>5, <1>6, WorkTyped DEF UsageTyped
<1>11. Placed'
  <2>1. /\ Usage!ToSet(waiting) \subseteq DOMAIN jobs /\ Held \subseteq DOMAIN jobs
        /\ Usage!ToSet(completed) \subseteq DOMAIN jobs /\ Usage!ToSet(failed) \subseteq DOMAIN jobs
        /\ Usage!ToSet(waiting) \cap Held = {}
           /\ Usage!ToSet(completed) \cap Usage!ToSet(failed) = {}
        /\ (Usage!ToSet(waiting) \cup Held)
           \cap (Usage!ToSet(completed) \cup Usage!ToSet(failed)) = {}
    BY DEF Placed
  <2>2. completed' = completed /\ failed' = failed
    BY <1>1
  <2>3. /\ Usage!ToSet(waiting') \subseteq DOMAIN jobs' /\ Held' \subseteq DOMAIN jobs'
        /\ Usage!ToSet(completed') \subseteq DOMAIN jobs'
           /\ Usage!ToSet(failed') \subseteq DOMAIN jobs'
        /\ Usage!ToSet(waiting') \cap Held' = {}
           /\ Usage!ToSet(completed') \cap Usage!ToSet(failed') = {}
        /\ (Usage!ToSet(waiting') \cup Held')
           \cap (Usage!ToSet(completed') \cup Usage!ToSet(failed')) = {}
    BY <1>2, <1>3, <1>6, <1>7, <2>1, <2>2
  <2> QED
    BY <1>2, <1>6, <1>8, <1>9, <2>3, PlacedAgain
<1> QED
  BY <1>10, <1>11

\* A worker that goes on with what it holds, if it holds anything.
LEMMA StillPlaced ==
  ASSUME UsageTyped, Placed, NEW w \in Workers, NEW a, Usage!Sets(w, a), a # Usage!Idle
         => KeyOf[a.event] = a.job,
         \A k : Holds(w, k)' <=> Holds(w, k), UNCHANGED <<jobs, waiting, completed, failed>>
  PROVE  Placed'
<1>1. Held' = Held
  BY HeldMoves
<1>2. \A u, v \in Workers, k \in Usage!Ids : Holds(u, k)' /\ Holds(v, k)' => u = v
  BY HoldersStay
<1>3. KeysFit'
  BY KeysFitStay
<1>4. Once(waiting')
  BY DEF Placed, Once
<1>5. jobs' = jobs /\ waiting' = waiting /\ completed' = completed /\ failed' = failed
  OBVIOUS
<1> QED
  BY <1>1, <1>2, <1>3, <1>4, <1>5, PlacedAgain DEF Placed

\* What becomes of a job that a worker no longer holds.
Retried(k) ==
  /\ waiting' \in {Append(waiting, k), <<k>> \o waiting}
  /\ DOMAIN jobs' = DOMAIN jobs /\ jobs' \in [DOMAIN jobs -> JobRows]
  /\ \A j \in DOMAIN jobs : jobs'[j].event = jobs[j].event
  /\ UNCHANGED <<completed, failed, exhausted>>

\* The part of UsageTyped that is about the queue.
QueueTyped ==
  /\ DOMAIN jobs \subseteq Usage!Ids /\ jobs \in [DOMAIN jobs -> JobRows]
  /\ waiting \in Seq(Usage!Ids) /\ completed \in Seq(Usage!Ids) /\ failed \in Seq(Usage!Ids)
  /\ exhausted \subseteq Usage!Ids

\* A worker gives a job back, and the job goes to one place.
LEMMA ReleasePlaced ==
  ASSUME UsageTyped, Placed, NEW w \in Workers, NEW k \in Usage!Ids, Holds(w, k),
         NEW a, Usage!Sets(w, a), a # Usage!Idle => KeyOf[a.event] = a.job, \A j : ~Holds(w, j)',
         Usage!Complete(k) \/ Usage!FailForGood(k) \/ Retried(k)
  PROVE  QueueTyped' /\ Placed'
<1>1. Held' = Held \ {k}
  BY HeldReleases
<1>2. \A u, v \in Workers, j \in Usage!Ids : Holds(u, j)' /\ Holds(v, j)' => u = v
  BY HoldersStay
<1>3. KeysFit'
  BY KeysFitStay
<1>4. /\ Usage!ToSet(waiting) \subseteq DOMAIN jobs /\ Held \subseteq DOMAIN jobs
      /\ Usage!ToSet(completed) \subseteq DOMAIN jobs /\ Usage!ToSet(failed) \subseteq DOMAIN jobs
      /\ Usage!ToSet(waiting) \cap Held = {} /\ Usage!ToSet(completed) \cap Usage!ToSet(failed) = {}
      /\ (Usage!ToSet(waiting) \cup Held)
         \cap (Usage!ToSet(completed) \cup Usage!ToSet(failed)) = {}
  BY DEF Placed
<1>5. k \in Held
  BY DEF Held
<1>6. waiting \in Seq(Usage!Ids) /\ Once(waiting) /\ DOMAIN jobs \subseteq Usage!Ids
      /\ completed \in Seq(Usage!Ids)
      /\ failed \in Seq(Usage!Ids) /\ exhausted \subseteq Usage!Ids
  BY DEF UsageTyped, Placed, Once
<1>7. CASE Usage!Complete(k)
  <2>1. /\ completed' \in Seq(Usage!Ids)
           /\ Usage!ToSet(completed') \subseteq Usage!ToSet(completed) \cup {k}
        /\ DOMAIN jobs' = DOMAIN jobs
                          \ ((Usage!ToSet(completed) \cup {k}) \ Usage!ToSet(completed'))
        /\ \A j \in DOMAIN jobs' : jobs'[j] = jobs[j]
        /\ jobs' \in [DOMAIN jobs' -> JobRows]
        /\ waiting' = waiting /\ failed' = failed /\ exhausted' = exhausted
    BY <1>7, CompleteIs
  <2>2. QueueTyped'
    BY <1>6, <2>1 DEF QueueTyped
  <2>3. /\ Usage!ToSet(waiting') \subseteq DOMAIN jobs' /\ Held' \subseteq DOMAIN jobs'
        /\ Usage!ToSet(completed') \subseteq DOMAIN jobs'
           /\ Usage!ToSet(failed') \subseteq DOMAIN jobs'
        /\ Usage!ToSet(waiting') \cap Held' = {}
           /\ Usage!ToSet(completed') \cap Usage!ToSet(failed') = {}
        /\ (Usage!ToSet(waiting') \cup Held')
           \cap (Usage!ToSet(completed') \cup Usage!ToSet(failed')) = {}
    BY <1>1, <1>4, <1>5, <2>1
  <2>4. Once(waiting') /\ \A j \in DOMAIN jobs' : j \in DOMAIN jobs
        /\ jobs'[j].event = jobs[j].event
    BY <1>6, <2>1
  <2> QED
    BY <1>2, <1>3, <2>2, <2>3, <2>4, PlacedAgain
<1>8. CASE Usage!FailForGood(k)
  <2>1. /\ failed' \in Seq(Usage!Ids) /\ Usage!ToSet(failed') \subseteq Usage!ToSet(failed) \cup {k}
        /\ DOMAIN jobs' = DOMAIN jobs \ ((Usage!ToSet(failed) \cup {k}) \ Usage!ToSet(failed'))
        /\ \A j \in DOMAIN jobs' : jobs'[j] = jobs[j]
        /\ jobs' \in [DOMAIN jobs' -> JobRows]
        /\ waiting' = waiting /\ completed' = completed /\ exhausted' = exhausted \cup {k}
    BY <1>8, FailForGoodIs
  <2>2. QueueTyped'
    BY <1>6, <2>1 DEF QueueTyped
  <2>3. /\ Usage!ToSet(waiting') \subseteq DOMAIN jobs' /\ Held' \subseteq DOMAIN jobs'
        /\ Usage!ToSet(completed') \subseteq DOMAIN jobs'
           /\ Usage!ToSet(failed') \subseteq DOMAIN jobs'
        /\ Usage!ToSet(waiting') \cap Held' = {}
           /\ Usage!ToSet(completed') \cap Usage!ToSet(failed') = {}
        /\ (Usage!ToSet(waiting') \cup Held')
           \cap (Usage!ToSet(completed') \cup Usage!ToSet(failed')) = {}
    BY <1>1, <1>4, <1>5, <2>1
  <2>4. Once(waiting') /\ \A j \in DOMAIN jobs' : j \in DOMAIN jobs
        /\ jobs'[j].event = jobs[j].event
    BY <1>6, <2>1
  <2> QED
    BY <1>2, <1>3, <2>2, <2>3, <2>4, PlacedAgain
<1>9. CASE Retried(k)
  <2>1. /\ DOMAIN jobs' = DOMAIN jobs /\ jobs' \in [DOMAIN jobs -> JobRows]
        /\ \A j \in DOMAIN jobs' : j \in DOMAIN jobs /\ jobs'[j].event = jobs[j].event
        /\ completed' = completed /\ failed' = failed /\ exhausted' = exhausted
        /\ waiting' \in {Append(waiting, k), <<k>> \o waiting}
    BY <1>9 DEF Retried
  <2>2. k \notin Usage!ToSet(waiting)
    BY <1>4, <1>5
  <2>3. waiting' \in Seq(Usage!Ids) /\ Usage!ToSet(waiting') = Usage!ToSet(waiting) \cup {k}
        /\ Once(waiting')
    <3>1. CASE waiting' = Append(waiting, k)
      BY <1>6, <2>2, <3>1, AppendIs
    <3>2. CASE waiting' = <<k>> \o waiting
      BY <1>6, <2>2, <3>2, PushIs
    <3> QED
      BY <2>1, <3>1, <3>2
  <2>4. QueueTyped'
    BY <1>6, <2>1, <2>3 DEF QueueTyped
  <2>5. /\ Usage!ToSet(waiting') \subseteq DOMAIN jobs' /\ Held' \subseteq DOMAIN jobs'
        /\ Usage!ToSet(completed') \subseteq DOMAIN jobs'
           /\ Usage!ToSet(failed') \subseteq DOMAIN jobs'
        /\ Usage!ToSet(waiting') \cap Held' = {}
           /\ Usage!ToSet(completed') \cap Usage!ToSet(failed') = {}
        /\ (Usage!ToSet(waiting') \cup Held')
           \cap (Usage!ToSet(completed') \cup Usage!ToSet(failed')) = {}
    BY <1>1, <1>4, <1>5, <2>1, <2>3
  <2> QED
    BY <1>2, <1>3, <2>1, <2>3, <2>4, <2>5, PlacedAgain
<1> QED
  BY <1>7, <1>8, <1>9

\* The steps that leave Placed as it is for the queue and the other workers, by what the worker
\* has held and what becomes of it.
Releases(w, a, k) ==
  /\ Holds(w, k) /\ ~(a # Usage!Idle /\ a.locked)
  /\ Usage!Complete(k) \/ Usage!FailForGood(k) \/ Retried(k)

Keeps(w, a) ==
  /\ a.locked <=> work[w].locked
  /\ a.job = work[w].job /\ a # Usage!Idle
  /\ UNCHANGED Usage!queue

Abandons(w, a) == ~work[w].locked /\ a = Usage!Idle /\ UNCHANGED Usage!queue

\* So jobs are in one place after any step of a worker at one.
LEMMA WorkPlaced ==
  ASSUME UsageTyped, Placed, NEW w \in Workers, work[w] # Usage!Idle,
         NEW a \in {Usage!Idle} \cup AttemptRows,
         Usage!Sets(w, a), a # Usage!Idle => a.event = work[w].event /\ a.job = work[w].job,
         Releases(w, a, work[w].job) \/ Keeps(w, a) \/ Abandons(w, a),
         telemetry' \in [Usage!Ids -> Nat], doubts' \in [Usage!Ids -> Nat], faults' \in Nat,
         UNCHANGED <<Usage!client, abreast>>
  PROVE  UsageTyped' /\ Placed'
<1> DEFINE k == work[w].job
<1>1. k \in Usage!Ids /\ (a # Usage!Idle => KeyOf[a.event] = a.job) /\ work'[w] = a
  BY BusyIs, AttemptIs, OthersStay DEF Placed
<1>2. QueueTyped
  BY DEF UsageTyped, QueueTyped
<1> HIDE DEF k
<1>3. QueueTyped' /\ Placed'
  <2>1. CASE Releases(w, a, k)
    <3>1. \A j : ~Holds(w, j)'
      BY <1>1, <2>1 DEF Releases, Holds
    <3> QED
      BY <1>1, <2>1, <3>1, ReleasePlaced DEF Releases
  <2>2. CASE Keeps(w, a)
    <3>1. \A j : Holds(w, j)' <=> Holds(w, j)
      BY <1>1, <2>2 DEF Keeps, Holds
    <3> QED
      BY <1>1, <1>2, <2>2, <3>1, StillPlaced DEF Keeps, Usage!queue, QueueTyped
  <2>3. CASE Abandons(w, a)
    <3>1. \A j : Holds(w, j)' <=> Holds(w, j)
      BY <1>1, <2>3 DEF Abandons, Holds
    <3> QED
      BY <1>1, <1>2, <2>3, <3>1, StillPlaced DEF Abandons, Usage!queue, QueueTyped
  <2> QED
    BY <2>1, <2>2, <2>3 DEF k
<1>4. work' \in [Workers -> {Usage!Idle} \cup AttemptRows]
  BY WorkTyped
<1> QED
  BY <1>3, <1>4 DEF UsageTyped, QueueTyped, Usage!client

\* A worker at a job moves on: what it becomes, and what of the job.
Moves(w, a) ==
  /\ work[w] # Usage!Idle /\ a \in {Usage!Idle} \cup AttemptRows /\ Usage!Sets(w, a)
  /\ a # Usage!Idle => a.event = work[w].event /\ a.job = work[w].job
  /\ Releases(w, a, work[w].job) \/ Keeps(w, a) \/ Abandons(w, a)

\* Where jobs are after it.
LEMMA PlacesAfter ==
  ASSUME UsageTyped, Placed, NEW w \in Workers, NEW a, Moves(w, a)
  PROVE  LET k == work[w].job
         IN  /\ k \in Usage!Ids /\ KeyOf[work[w].event] = k
             /\ Usage!ToSet(waiting) \subseteq Usage!ToSet(waiting')
             /\ Usage!ToSet(waiting') \subseteq Usage!ToSet(waiting) \cup {k}
             /\ Held \subseteq Held' \cup {k} /\ Held' \subseteq Held
             /\ exhausted \subseteq exhausted' /\ DOMAIN jobs' \subseteq DOMAIN jobs
             /\ k \in Held => \/ k \in Held' \/ k \in Usage!ToSet(waiting') \/ k \in exhausted'
                              \/ Releases(w, a, k) /\ Usage!Complete(k)
<1> DEFINE k == work[w].job
<1>1. k \in Usage!Ids /\ KeyOf[work[w].event] = k /\ Usage!Sets(w, a) /\ work'[w] = a
  BY BusyIs, AttemptIs, OthersStay DEF Placed, Moves
<1>2. waiting \in Seq(Usage!Ids)
  BY DEF UsageTyped
<1> HIDE DEF k
<1>3. CASE Releases(w, a, k)
  <2>1. Held' = Held \ {k} /\ k \in Held
    <3>1. \A j : ~Holds(w, j)'
      BY <1>1, <1>3 DEF Releases, Holds
    <3>2. Held' = Held \ {k}
      BY <1>1, <1>3, <3>1, HeldReleases DEF Releases
    <3> QED
      BY <1>1, <1>3, <3>2, HoldsTyped DEF Releases
  <2>2. CASE Usage!Complete(k)
    BY <1>1, <1>3, <2>1, <2>2, CompleteIs DEF k
  <2>3. CASE Usage!FailForGood(k)
    <3>1. /\ DOMAIN jobs' \subseteq DOMAIN jobs /\ waiting' = waiting
          /\ exhausted' = exhausted \cup {k}
      BY <1>1, <2>3, FailForGoodIs
    <3> QED
      BY <1>1, <2>1, <3>1 DEF k
  <2>4. CASE Retried(k)
    <3>1. DOMAIN jobs' = DOMAIN jobs /\ exhausted' = exhausted
          /\ waiting' \in {Append(waiting, k), <<k>> \o waiting}
      BY <2>4 DEF Retried
    <3>2. Usage!ToSet(waiting') = Usage!ToSet(waiting) \cup {k}
      <4>1. CASE waiting' = Append(waiting, k)
        BY <1>1, <1>2, <4>1, AppendIs
      <4>2. CASE waiting' = <<k>> \o waiting
        BY <1>1, <1>2, <4>2, PushIs
      <4> QED
        BY <3>1, <4>1, <4>2
    <3> QED
      BY <1>1, <2>1, <3>1, <3>2 DEF k
  <2> QED
    BY <1>3, <2>2, <2>3, <2>4 DEF Releases
<1>4. ASSUME Keeps(w, a) \/ Abandons(w, a)
      PROVE  Held' = Held /\ UNCHANGED Usage!queue
  <2>1. \A j : Holds(w, j)' <=> Holds(w, j)
    <3>1. CASE Keeps(w, a)
      BY <1>1, <3>1 DEF Keeps, Holds, Moves
    <3>2. CASE Abandons(w, a)
      BY <1>1, <3>2 DEF Abandons, Holds
    <3> QED
      BY <1>4, <3>1, <3>2
  <2>2. Held' = Held
    BY <1>1, <2>1, HeldMoves
  <2> QED
    BY <1>4, <2>2 DEF Keeps, Abandons
<1>5. CASE Keeps(w, a) \/ Abandons(w, a)
  <2>1. Held' = Held /\ jobs' = jobs /\ waiting' = waiting /\ exhausted' = exhausted
    BY <1>4, <1>5 DEF Usage!queue
  <2> QED
    BY <1>1, <2>1 DEF k
<1> QED
  BY <1>3, <1>5 DEF Moves, k

\* It loses nothing.
LEMMA WorkSafe ==
  ASSUME UsageTyped, Placed, JobsSafe, NEW w \in Workers, NEW a, Moves(w, a),
         telemetry' \in [Usage!Ids -> Nat], \A j \in Usage!Ids : telemetry'[j] >= telemetry[j],
         a # Usage!Idle /\ a.pc = "end" => telemetry'[work[w].job] > 0,
         Releases(w, a, work[w].job) /\ Usage!Complete(work[w].job) =>
           telemetry'[work[w].job] > 0 \/ work[w].job \in exhausted',
         answered' = answered
  PROVE  JobsSafe'
<1> DEFINE k == work[w].job
<1>1. /\ k \in Usage!Ids
      /\ Usage!ToSet(waiting) \subseteq Usage!ToSet(waiting')
      /\ Held \subseteq Held' \cup {k}
      /\ exhausted \subseteq exhausted' /\ DOMAIN jobs' \subseteq DOMAIN jobs
      /\ k \in Held => \/ k \in Held' \/ k \in Usage!ToSet(waiting') \/ k \in exhausted'
                       \/ Releases(w, a, k) /\ Usage!Complete(k)
  BY PlacesAfter
<1>2. work'[w] = a /\ (\A v \in Workers : v # w => work'[v] = work[v])
      /\ (a # Usage!Idle => a.job = k)
  BY OthersStay DEF Moves
<1> HIDE DEF k
<1>3. telemetry \in [Usage!Ids -> Nat] /\ answered \subseteq Events
      /\ DOMAIN jobs \subseteq Usage!Ids
  BY DEF UsageTyped
<1>4. Releases(w, a, k) /\ Usage!Complete(k) => telemetry'[k] > 0 \/ k \in exhausted'
  BY DEF k
<1>5. ASSUME NEW j \in Usage!Ids, Safe(j) PROVE Safe(j)'
  <2>1. telemetry[j] \in Nat /\ telemetry'[j] \in Nat /\ telemetry'[j] >= telemetry[j]
    BY <1>3
  <2>2. CASE telemetry[j] > 0
    BY <2>1, <2>2 DEF Safe
  <2>3. CASE j \in Usage!ToSet(waiting) \/ j \in exhausted
    BY <1>1, <2>3 DEF Safe
  <2>4. CASE j \in Held
    BY <1>1, <1>4, <2>4 DEF Safe
  <2> QED
    BY <1>5, <2>2, <2>3, <2>4 DEF Safe
<1>6. \A v \in Workers : work'[v] # Usage!Idle /\ work'[v].pc = "end"
        => telemetry'[work'[v].job] > 0
  <2> SUFFICES ASSUME NEW v \in Workers, work'[v] # Usage!Idle, work'[v].pc = "end"
               PROVE  telemetry'[work'[v].job] > 0
    OBVIOUS
  <2>1. CASE v = w
    BY <1>2, <2>1 DEF k
  <2>2. CASE v # w
    <3>1. work'[v] = work[v]
      BY <1>2, <2>2
    <3>2. work[v].job \in Usage!Ids /\ telemetry[work[v].job] > 0
      BY <3>1, BusyIs, AttemptIs DEF JobsSafe
    <3>3. telemetry'[work[v].job] >= telemetry[work[v].job] /\ telemetry[work[v].job] \in Nat
          /\ telemetry'[work[v].job] \in Nat
      BY <1>3, <3>2
    <3> QED
      BY <3>1, <3>2, <3>3
  <2> QED
    BY <2>1, <2>2
<1>7. \A e \in Events : KeyOf[e] \in Usage!Ids
  BY DEF Usage!Ids
<1>8. (\A j \in DOMAIN jobs' : Safe(j)') /\ \A e \in answered' : Safe(KeyOf[e])'
  BY <1>1, <1>3, <1>5, <1>7 DEF JobsSafe
<1> QED
  BY <1>6, <1>8 DEF JobsSafe

\* The ids of other jobs are as they were.
LEMMA OthersFair ==
  ASSUME UsageTyped, Placed, NEW w \in Workers, NEW a, Moves(w, a),
         NEW k \in Usage!Ids, k # work[w].job, Fair(k), telemetry'[k] = telemetry[k],
         doubts'[k] = doubts[k]
  PROVE  Fair(k)'
<1>1. Usage!ToSet(waiting') \subseteq Usage!ToSet(waiting) \cup {work[w].job}
  BY PlacesAfter
<1>2. Usage!Sets(w, a) /\ work'[w] = a /\ (a # Usage!Idle => a.job # k)
  BY OthersStay DEF Moves
<1>3. k \in Due' => k \in Due
  <2> SUFFICES ASSUME k \in Due' PROVE k \in Due
    OBVIOUS
  <2>1. CASE k \in Usage!ToSet(waiting')
    BY <1>1, <2>1 DEF Due
  <2>2. CASE k \notin Usage!ToSet(waiting')
    <3>1. ~Holds(w, k)'
      BY <1>2 DEF Holds
    <3> QED
      BY <1>2, <2>2, <3>1, DueIs
  <2> QED
    BY <2>1, <2>2
<1>4. w \notin Adrift(k) /\ w \notin Adrift(k)'
  BY <1>2 DEF Adrift
<1>5. Cardinality(Adrift(k)') = Cardinality(Adrift(k)) /\ Cardinality(Adrift(k)) \in Nat
  BY <1>2, <1>4, AdriftIs
<1>6. telemetry[k] \in Nat /\ doubts[k] \in Nat
  BY DEF UsageTyped
<1>7. Cardinality(Adrift(k))' = Cardinality(Adrift(k)')
  OBVIOUS
<1> QED
  BY <1>3, <1>5, <1>6, <1>7 DEF Fair

\* The worker's own id, in numbers: rows and doubts grow by as much, and a worker that goes
\* adrift or a job that is due again is a doubt.
LEMMA OwnFair ==
  ASSUME UsageTyped, NEW w \in Workers, NEW a, Usage!Sets(w, a), NEW k \in Usage!Ids, Fair(k),
         NEW x \in Nat, NEW y \in Nat, telemetry'[k] = telemetry[k] + x, doubts'[k] = doubts[k] + y,
         \/ /\ w \in Adrift(k)' => w \in Adrift(k)
            /\ k \in Due' => k \in Due
            /\ \/ x = y
               \/ x = y + 1 /\ w \in Adrift(k) /\ w \notin Adrift(k)'
               \/ x = y + 1 /\ k \in Due /\ k \notin Due'
         \/ x = 0 /\ y = 1 /\ (w \notin Adrift(k)' \/ (k \in Due' => k \in Due))
  PROVE  Fair(k)'
<1> DEFINE n == Cardinality(Adrift(k))
           m == Cardinality(Adrift(k)')
           t == telemetry[k]
           d == doubts[k]
<1>1. /\ n \in Nat /\ m \in Nat
      /\ (w \in Adrift(k)' <=> w \in Adrift(k)) => m = n
      /\ w \in Adrift(k)' /\ w \notin Adrift(k) => m = n + 1
      /\ w \notin Adrift(k)' /\ w \in Adrift(k) => m = n - 1
  BY AdriftIs
<1>2. t \in Nat /\ d \in Nat
  BY DEF UsageTyped
<1>3. t + n + (IF k \in Due THEN 1 ELSE 0) <= 1 + d /\ n <= d
  BY DEF Fair
<1> HIDE DEF n, m, t, d
<1>4. t + x + m + (IF k \in Due' THEN 1 ELSE 0) <= 1 + (d + y) /\ m <= d + y
  <2>1. CASE x = y /\ (w \in Adrift(k)' => w \in Adrift(k)) /\ (k \in Due' => k \in Due)
    BY <1>1, <1>2, <1>3, <2>1
  <2>2. CASE x = y + 1 /\ w \in Adrift(k) /\ w \notin Adrift(k)' /\ (k \in Due' => k \in Due)
    BY <1>1, <1>2, <1>3, <2>2
  <2>3. CASE x = y + 1 /\ k \in Due /\ k \notin Due' /\ (w \in Adrift(k)' => w \in Adrift(k))
    BY <1>1, <1>2, <1>3, <2>3
  <2>4. CASE x = 0 /\ y = 1 /\ w \notin Adrift(k)'
    BY <1>1, <1>2, <1>3, <2>4
  <2>5. CASE x = 0 /\ y = 1 /\ (k \in Due' => k \in Due)
    BY <1>1, <1>2, <1>3, <2>5
  <2> QED
    BY <2>1, <2>2, <2>3, <2>4, <2>5
<1>5. /\ telemetry'[k] = t + x /\ doubts'[k] = d + y
      /\ Cardinality(Adrift(k))' = m
  BY DEF t, d, m
<1> QED
  BY <1>4, <1>5 DEF Fair

\* A worker that stays at its attempt.
LEMMA DueWithin ==
  ASSUME UsageTyped, NEW w \in Workers, NEW a, Usage!Sets(w, a), NEW k \in Usage!Ids,
         k \in Usage!ToSet(waiting') => k \in Due,
         Holds(w, k)' /\ work'[w].pc \in {"touch", "create"} => k \in Due
  PROVE  k \in Due' => k \in Due
BY DueIs

\* The worker notes the event on the installation.
LEMMA TouchKeeps ==
  ASSUME UsageInv, NEW w \in Workers, Usage!Touch(w)
  PROVE  UsageInv'
<1> DEFINE a == [work[w] EXCEPT !.pc = "create"]
<1>1. /\ UsageTyped /\ Placed /\ Explained /\ JobsSafe /\ Current
  BY DEF UsageInv
<1>2. /\ work[w].pc = "touch" /\ shown' = work[w].event /\ Usage!Sets(w, a)
      /\ UNCHANGED <<Usage!client, Usage!queue, telemetry, last, doubts, abreast, faults>>
  BY DEF Usage!Touch
<1>3. work[w] # Usage!Idle /\ work[w] \in AttemptRows
  BY <1>1, <1>2, BusyIs
<1>4. PICK k \in Usage!Ids : k = work[w].job
  BY <1>3, AttemptIs
<1>5. a # Usage!Idle /\ a \in AttemptRows /\ a.pc = "create" /\ a.job = k /\ a.event = work[w].event
      /\ a.locked = work[w].locked
  <2>1. At(a, "create", work[w].job, work[w].event, work[w].locked)
    BY <1>3, AttemptIs
  <2> QED
    BY <1>4, <2>1, AttemptIs DEF At
<1> HIDE DEF a
<1>6. Moves(w, a)
  BY <1>2, <1>3, <1>4, <1>5 DEF Moves, Keeps
<1>7. /\ telemetry' = telemetry /\ doubts' = doubts /\ faults' = faults /\ abreast' = abreast
      /\ jobs' = jobs /\ waiting' = waiting /\ last' = last /\ answered' = answered
      /\ telemetry \in [Usage!Ids -> Nat] /\ doubts \in [Usage!Ids -> Nat] /\ faults \in Nat
  BY <1>1, <1>2 DEF Usage!queue, Usage!client, UsageTyped
<1>8. UsageTyped' /\ Placed'
  BY <1>1, <1>2, <1>6, <1>7, WorkPlaced DEF Moves
<1>9. work'[w] = a /\ \A v \in Workers : v # w => work'[v] = work[v]
  BY <1>1, <1>2, OthersStay
<1>10. Fair(k)'
  <2>1. w \in Adrift(k)' => w \in Adrift(k)
    BY <1>2, <1>3, <1>4, <1>5, <1>9 DEF Adrift
  <2>2. k \in Due' => k \in Due
    <3>1. k \in Usage!ToSet(waiting') => k \in Due
      BY <1>7 DEF Due
    <3>2. ASSUME Holds(w, k)' PROVE k \in Due
      <4>1. Holds(w, k) /\ work[w].pc \in {"touch", "create"}
        BY <1>2, <1>3, <1>4, <1>5, <1>9, <3>2 DEF Holds
      <4> QED
        BY <4>1 DEF Due
    <3> QED
      BY <1>1, <1>2, <3>1, <3>2, DueWithin
  <2>3. telemetry'[k] = telemetry[k] + 0 /\ doubts'[k] = doubts[k] + 0
    BY <1>7
  <2>4. Fair(k) /\ 0 \in Nat
    BY <1>1 DEF Explained
  <2> QED
    BY <1>1, <1>2, <2>1, <2>2, <2>3, <2>4, OwnFair
<1>11. Explained'
  <2>1. ASSUME NEW j \in Usage!Ids, j # k PROVE Fair(j)'
    BY <1>1, <1>4, <1>6, <1>7, <2>1, OthersFair DEF Explained
  <2> QED
    BY <1>10, <2>1 DEF Explained
<1>12. JobsSafe'
  <2>1. \A j \in Usage!Ids : telemetry'[j] >= telemetry[j]
    BY <1>7
  <2>2. a.pc # "end"
    BY <1>5
  <2>3. ~Releases(w, a, work[w].job)
    BY <1>5 DEF Releases, Holds
  <2> QED
    BY <1>1, <1>6, <1>7, <2>1, <2>2, <2>3, WorkSafe
<1>13. Current'
  BY <1>1, <1>2, <1>3, <1>5, <1>7, <1>9 DEF Current
<1> QED
  BY <1>8, <1>11, <1>12, <1>13 DEF UsageInv

\* What Written does.
LEMMA WrittenIs ==
  ASSUME UsageTyped, NEW w \in Workers, NEW k \in Usage!Ids, KeyOf[work[w].event] = k,
         Usage!Written(w)
  PROVE  /\ telemetry' \in [Usage!Ids -> Nat] /\ telemetry'[k] = telemetry[k] + 1
         /\ \A j \in Usage!Ids : j # k => telemetry'[j] = telemetry[j]
         /\ \A j \in Usage!Ids : telemetry'[j] >= telemetry[j]
<1>1. telemetry \in [Usage!Ids -> Nat] /\ telemetry' = [telemetry EXCEPT ![k] = telemetry[k] + 1]
  BY DEF UsageTyped, Usage!Written
<1>2. telemetry[k] + 1 \in Nat
  BY <1>1
<1>3. telemetry' \in [Usage!Ids -> Nat] /\ telemetry'[k] = telemetry[k] + 1
      /\ \A j \in Usage!Ids : j # k => telemetry'[j] = telemetry[j]
  BY <1>1, <1>2
<1> QED
  BY <1>1, <1>3

\* The worker creates the row.
LEMMA CreateKeeps ==
  ASSUME UsageInv, NEW w \in Workers, Usage!Create(w)
  PROVE  UsageInv'
<1> DEFINE a == [work[w] EXCEPT !.pc = "end"]
<1>1. /\ UsageTyped /\ Placed /\ Explained /\ JobsSafe /\ Current
  BY DEF UsageInv
<1>2. /\ work[w].pc = "create" /\ Usage!Written(w) /\ Usage!Sets(w, a)
      /\ UNCHANGED <<Usage!client, Usage!queue, shown, last, doubts, abreast, faults>>
  BY DEF Usage!Create
<1>3. work[w] # Usage!Idle /\ work[w] \in AttemptRows
  BY <1>1, <1>2, BusyIs
<1>4. PICK k \in Usage!Ids : k = work[w].job
  BY <1>3, AttemptIs
<1>5. a # Usage!Idle /\ a \in AttemptRows /\ a.pc = "end" /\ a.job = k /\ a.event = work[w].event
      /\ a.locked = work[w].locked
  <2>1. At(a, "end", work[w].job, work[w].event, work[w].locked)
    BY <1>3, AttemptIs
  <2> QED
    BY <1>4, <2>1, AttemptIs DEF At
<1> HIDE DEF a
<1>6. Moves(w, a)
  BY <1>2, <1>3, <1>4, <1>5 DEF Moves, Keeps
<1>7. /\ doubts' = doubts /\ faults' = faults /\ abreast' = abreast
      /\ jobs' = jobs /\ waiting' = waiting /\ last' = last /\ answered' = answered
      /\ doubts \in [Usage!Ids -> Nat] /\ faults \in Nat /\ shown' = shown
  BY <1>1, <1>2 DEF Usage!queue, Usage!client, UsageTyped
<1>8. /\ telemetry' \in [Usage!Ids -> Nat] /\ telemetry'[k] = telemetry[k] + 1
      /\ \A j \in Usage!Ids : j # k => telemetry'[j] = telemetry[j]
      /\ \A j \in Usage!Ids : telemetry'[j] >= telemetry[j]
  <2>1. KeyOf[work[w].event] = k
    BY <1>1, <1>3, <1>4 DEF Placed
  <2> QED
    BY <1>1, <1>2, <2>1, WrittenIs
<1>9. UsageTyped' /\ Placed'
  BY <1>1, <1>2, <1>6, <1>7, <1>8, WorkPlaced DEF Moves
<1>10. work'[w] = a /\ \A v \in Workers : v # w => work'[v] = work[v]
  BY <1>1, <1>2, OthersStay
<1>11. Fair(k)'
  <2>1. w \notin Adrift(k)'
    BY <1>5, <1>10 DEF Adrift
  <2>2. ASSUME work[w].locked PROVE k \in Due /\ k \notin Due'
    <3>1. Holds(w, k)
      BY <1>3, <1>4, <2>2 DEF Holds
    <3>2. k \in Due /\ k \in Held
      BY <1>2, <3>1 DEF Due, Held
    <3>3. k \notin Usage!ToSet(waiting')
      BY <1>1, <1>7, <3>2 DEF Placed
    <3>4. ASSUME NEW v \in Workers, Holds(v, k)', work'[v].pc \in {"touch", "create"} PROVE FALSE
      <4>1. v # w
        BY <1>5, <1>10, <3>4
      <4>2. Holds(v, k)
        BY <1>1, <1>2, <3>4, <4>1, OthersStay
      <4> QED
        BY <1>1, <3>1, <4>1, <4>2 DEF Placed
    <3>5. k \notin Due'
      BY <3>3, <3>4 DEF Due
    <3> QED
      BY <3>2, <3>5
  <2>3. ASSUME ~work[w].locked PROVE w \in Adrift(k) /\ (k \in Due' => k \in Due)
    <3>1. w \in Adrift(k)
      BY <1>2, <1>3, <1>4, <2>3 DEF Adrift
    <3>2. ~Holds(w, k)'
      BY <1>5, <1>10, <2>3 DEF Holds
    <3>3. k \in Usage!ToSet(waiting') => k \in Due
      BY <1>7 DEF Due
    <3>4. k \in Due' => k \in Due
      BY <1>1, <1>2, <3>2, <3>3, DueWithin
    <3> QED
      BY <3>1, <3>4
  <2>4. telemetry'[k] = telemetry[k] + 1 /\ doubts'[k] = doubts[k] + 0 /\ 1 = 0 + 1
    BY <1>7, <1>8
  <2>5. Fair(k) /\ 0 \in Nat /\ 1 \in Nat
    BY <1>1 DEF Explained
  <2>6. CASE work[w].locked
    BY <1>1, <1>2, <2>1, <2>2, <2>4, <2>5, <2>6, OwnFair
  <2>7. CASE ~work[w].locked
    BY <1>1, <1>2, <2>1, <2>3, <2>4, <2>5, <2>7, OwnFair
  <2> QED
    BY <2>6, <2>7
<1>12. Explained'
  <2>1. ASSUME NEW j \in Usage!Ids, j # k PROVE Fair(j)'
    BY <1>1, <1>4, <1>6, <1>7, <1>8, <2>1, OthersFair DEF Explained
  <2> QED
    BY <1>11, <2>1 DEF Explained
<1>13. JobsSafe'
  <2>1. ~Releases(w, a, work[w].job)
    BY <1>5 DEF Releases, Holds
  <2>2. telemetry'[work[w].job] > 0
    <3>1. telemetry[k] \in Nat
      BY <1>1 DEF UsageTyped
    <3> QED
      BY <1>4, <1>8, <3>1
  <2> QED
    BY <1>1, <1>6, <1>7, <1>8, <2>1, <2>2, WorkSafe
<1>14. Current'
  BY <1>1, <1>2, <1>3, <1>5, <1>7, <1>10 DEF Current
<1> QED
  BY <1>9, <1>12, <1>13, <1>14 DEF UsageInv

\* The attempt has come to its end.
LEMMA EndKeeps ==
  ASSUME UsageInv, NEW w \in Workers, Usage!End(w)
  PROVE  UsageInv'
<1>1. /\ UsageTyped /\ Placed /\ Explained /\ JobsSafe /\ Current
  BY DEF UsageInv
<1>2. /\ work[w].pc = "end" /\ Usage!Sets(w, Usage!Idle)
      /\ IF work[w].locked THEN Usage!Complete(work[w].job) ELSE UNCHANGED Usage!queue
      /\ UNCHANGED <<Usage!client, Usage!rows, last, doubts, abreast, faults>>
  BY DEF Usage!End
<1>3. work[w] # Usage!Idle /\ work[w] \in AttemptRows
  BY <1>1, <1>2, BusyIs
<1>4. PICK k \in Usage!Ids : k = work[w].job
  BY <1>3, AttemptIs
<1>5. telemetry[k] > 0
  BY <1>1, <1>2, <1>3, <1>4 DEF JobsSafe
<1>6. Moves(w, Usage!Idle)
  <2>1. CASE work[w].locked
    BY <1>2, <1>3, <2>1 DEF Moves, Releases, Holds
  <2>2. CASE ~work[w].locked
    BY <1>2, <1>3, <2>2 DEF Moves, Abandons
  <2> QED
    BY <2>1, <2>2
<1>7. /\ doubts' = doubts /\ faults' = faults /\ abreast' = abreast
      /\ last' = last /\ answered' = answered /\ telemetry' = telemetry /\ shown' = shown
      /\ doubts \in [Usage!Ids -> Nat] /\ faults \in Nat /\ telemetry \in [Usage!Ids -> Nat]
  BY <1>1, <1>2 DEF Usage!client, Usage!rows, UsageTyped
<1>8. waiting' = waiting /\ \A j \in DOMAIN jobs' : jobs'[j] = jobs[j]
  <2>1. CASE work[w].locked
    BY <1>1, <1>2, <1>4, <2>1, CompleteIs
  <2>2. CASE ~work[w].locked
    BY <1>2, <2>2 DEF Usage!queue
  <2> QED
    BY <2>1, <2>2
<1>9. UsageTyped' /\ Placed'
  BY <1>1, <1>2, <1>6, <1>7, WorkPlaced DEF Moves
<1>10. work'[w] = Usage!Idle /\ \A v \in Workers : v # w => work'[v] = work[v]
  BY <1>1, <1>2, OthersStay
<1>11. Fair(k)'
  <2>1. w \notin Adrift(k)'
    BY <1>10 DEF Adrift
  <2>2. k \in Due' => k \in Due
    <3>1. k \in Usage!ToSet(waiting') => k \in Due
      BY <1>8 DEF Due
    <3>2. ~Holds(w, k)'
      BY <1>10 DEF Holds
    <3> QED
      BY <1>1, <1>2, <3>1, <3>2, DueWithin
  <2>3. telemetry'[k] = telemetry[k] + 0 /\ doubts'[k] = doubts[k] + 0
    BY <1>7
  <2>4. Fair(k) /\ 0 \in Nat
    BY <1>1 DEF Explained
  <2> QED
    BY <1>1, <1>2, <2>1, <2>2, <2>3, <2>4, OwnFair
<1>12. Explained'
  <2>1. ASSUME NEW j \in Usage!Ids, j # k PROVE Fair(j)'
    BY <1>1, <1>4, <1>6, <1>7, <2>1, OthersFair DEF Explained
  <2> QED
    BY <1>11, <2>1 DEF Explained
<1>13. JobsSafe'
  <2>1. \A j \in Usage!Ids : telemetry'[j] >= telemetry[j]
    BY <1>7
  <2>2. telemetry'[work[w].job] > 0
    BY <1>4, <1>5, <1>7
  <2> QED
    BY <1>1, <1>6, <1>7, <2>1, <2>2, WorkSafe
<1>14. Current'
  <2> SUFFICES ASSUME faults = 0, ~abreast PROVE Current'
    BY <1>7 DEF Current
  <2>1. /\ \A u, v \in Workers : work[u] # Usage!Idle /\ work[v] # Usage!Idle => u = v
        /\ waiting # <<>> => jobs[waiting[Len(waiting)]].event = last
        /\ waiting = <<>> => shown = last
    BY <1>1, <1>2, <1>3 DEF Current
  <2>2. \A v \in Workers : work'[v] = Usage!Idle
    BY <1>3, <1>10, <2>1
  <2>3. waiting' # <<>> => jobs'[waiting'[Len(waiting')]].event = last
    <3> SUFFICES ASSUME waiting' # <<>> PROVE jobs'[waiting'[Len(waiting')]].event = last
      OBVIOUS
    <3>1. waiting'[Len(waiting')] \in Usage!ToSet(waiting')
      BY <1>9, MemberIs DEF UsageTyped
    <3>2. waiting'[Len(waiting')] \in DOMAIN jobs'
      BY <1>9, <3>1 DEF Placed
    <3> QED
      BY <1>8, <2>1, <3>2
  <2> QED
    BY <1>7, <1>8, <2>1, <2>2, <2>3 DEF Current
<1> QED
  BY <1>9, <1>12, <1>13, <1>14 DEF UsageInv

\* A job that is lost without success waits again or has failed for good.
LEMMA LostIs ==
  ASSUME UsageTyped, Placed, NEW w \in Workers, NEW k \in Usage!Ids, Holds(w, k),
         Usage!Complete(k), Retried(k) \/ Usage!FailForGood(k)
  PROVE  k \in exhausted'
<1>1. CASE Retried(k)
  <2>1. waiting' \in {Append(waiting, k), <<k>> \o waiting} /\ waiting' = waiting
    BY <1>1 DEF Retried, Usage!Complete
  <2>2. waiting \in Seq(Usage!Ids)
    BY DEF UsageTyped
  <2> QED
    BY <2>1, <2>2
<1>2. CASE Usage!FailForGood(k)
  BY <1>2 DEF Usage!FailForGood
<1> QED
  BY <1>1, <1>2

\* The attempt fails.
LEMMA AttemptFailsKeeps ==
  ASSUME UsageInv, NEW w \in Workers, Usage!AttemptFails(w)
  PROVE  UsageInv'
<1>1. /\ UsageTyped /\ Placed /\ Explained /\ JobsSafe
  BY DEF UsageInv
<1>2. /\ work[w].pc \in {"touch", "create"} /\ Usage!Sets(w, Usage!Idle) /\ faults' = faults + 1
      /\ UNCHANGED <<Usage!client, last, abreast>>
  BY DEF Usage!AttemptFails, Usage!Fault
<1>3. work[w] # Usage!Idle /\ work[w] \in AttemptRows
  BY <1>1, <1>2, BusyIs
<1>4. PICK k \in Usage!Ids : k = work[w].job
  BY <1>3, AttemptIs
<1>5. telemetry \in [Usage!Ids -> Nat] /\ doubts \in [Usage!Ids -> Nat] /\ faults' \in Nat
      /\ faults' # 0
      /\ answered' = answered
  BY <1>1, <1>2 DEF UsageTyped, Usage!client
<1>6. PICK x \in {0, 1} :
        /\ telemetry' \in [Usage!Ids -> Nat] /\ doubts' \in [Usage!Ids -> Nat]
        /\ telemetry'[k] = telemetry[k] + x /\ doubts'[k] = doubts[k] + x
        /\ \A j \in Usage!Ids : j # k => telemetry'[j] = telemetry[j] /\ doubts'[j] = doubts[j]
        /\ \A j \in Usage!Ids : telemetry'[j] >= telemetry[j]
  <2>1. CASE UNCHANGED <<Usage!rows, doubts>>
    <3>1. telemetry' = telemetry /\ doubts' = doubts
      BY <2>1 DEF Usage!rows
    <3>2. telemetry'[k] = telemetry[k] + 0 /\ doubts'[k] = doubts[k] + 0
      BY <1>5, <3>1
    <3>3. \A j \in Usage!Ids : telemetry'[j] >= telemetry[j]
      BY <1>5, <3>1
    <3> QED
      BY <1>5, <3>1, <3>2, <3>3
  <2>2. CASE Usage!Written(w) /\ doubts' = [doubts EXCEPT ![KeyOf[work[w].event]] = @ + 1]
    <3>1. KeyOf[work[w].event] = k
      BY <1>1, <1>3, <1>4 DEF Placed
    <3>2. /\ telemetry' \in [Usage!Ids -> Nat] /\ telemetry'[k] = telemetry[k] + 1
          /\ \A j \in Usage!Ids : j # k => telemetry'[j] = telemetry[j]
          /\ \A j \in Usage!Ids : telemetry'[j] >= telemetry[j]
      BY <1>1, <2>2, <3>1, WrittenIs
    <3>3. doubts' \in [Usage!Ids -> Nat] /\ doubts'[k] = doubts[k] + 1
          /\ \A j \in Usage!Ids : j # k => doubts'[j] = doubts[j]
      BY <1>5, <2>2, <3>1
    <3> QED
      BY <3>2, <3>3
  <2> QED
    BY <2>1, <2>2 DEF Usage!AttemptFails
<1>7. /\ ~work[w].locked => UNCHANGED Usage!queue
      /\ work[w].locked => Retried(k) \/ Usage!FailForGood(k)
  <2>1. jobs \in [DOMAIN jobs -> JobRows]
    BY <1>1 DEF UsageTyped
  <2>2. work[w].locked => \/ waiting' = Append(waiting, k)
                             /\ UNCHANGED <<jobs, completed, failed, exhausted>>
                          \/ Usage!FailForGood(k)
    BY <1>4 DEF Usage!AttemptFails
  <2>3. ~work[w].locked => UNCHANGED Usage!queue
    BY DEF Usage!AttemptFails
  <2> QED
    BY <2>1, <2>2, <2>3 DEF Retried
<1>8. work[w].locked => Holds(w, k)
  BY <1>3, <1>4 DEF Holds
<1>9. Moves(w, Usage!Idle)
  <2>1. CASE work[w].locked
    BY <1>2, <1>3, <1>4, <1>7, <1>8, <2>1 DEF Moves, Releases
  <2>2. CASE ~work[w].locked
    BY <1>2, <1>3, <1>7, <2>2 DEF Moves, Abandons
  <2> QED
    BY <2>1, <2>2
<1>10. UsageTyped' /\ Placed'
  BY <1>1, <1>2, <1>5, <1>6, <1>9, WorkPlaced DEF Moves
<1>11. work'[w] = Usage!Idle
  BY <1>1, <1>2, OthersStay
<1>12. Fair(k)'
  <2>1. w \notin Adrift(k)' /\ ~Holds(w, k)'
    BY <1>11 DEF Adrift, Holds
  <2>2. k \in Usage!ToSet(waiting') => k \in Due
    <3>1. CASE work[w].locked
      BY <1>2, <1>8, <3>1 DEF Due
    <3>2. CASE ~work[w].locked
      BY <1>7, <3>2 DEF Usage!queue, Due
    <3> QED
      BY <3>1, <3>2
  <2>3. k \in Due' => k \in Due
    BY <1>1, <1>2, <2>1, <2>2, DueWithin
  <2>4. Fair(k) /\ x \in Nat
    BY <1>1 DEF Explained
  <2> QED
    BY <1>1, <1>2, <1>6, <2>1, <2>3, <2>4, OwnFair
<1>13. Explained'
  <2>1. ASSUME NEW j \in Usage!Ids, j # k PROVE Fair(j)'
    BY <1>1, <1>4, <1>6, <1>9, <2>1, OthersFair DEF Explained
  <2> QED
    BY <1>12, <2>1 DEF Explained
<1>14. JobsSafe'
  <2>1. Releases(w, Usage!Idle, work[w].job) /\ Usage!Complete(work[w].job)
          => work[w].job \in exhausted'
    <3> SUFFICES ASSUME Releases(w, Usage!Idle, k), Usage!Complete(k) PROVE k \in exhausted'
      BY <1>4
    <3>1. Holds(w, k) /\ work[w].locked
      BY DEF Releases, Holds
    <3> QED
      BY <1>1, <1>7, <3>1, LostIs
  <2> QED
    BY <1>1, <1>5, <1>6, <1>9, <2>1, WorkSafe
<1>15. Current'
  BY <1>5 DEF Current
<1> QED
  BY <1>10, <1>13, <1>14, <1>15 DEF UsageInv

\* A lock runs out.
LEMMA StallKeeps ==
  ASSUME UsageInv, NEW w \in Workers, Usage!Stall(w)
  PROVE  UsageInv'
<1>1. /\ UsageTyped /\ Placed /\ Explained /\ JobsSafe
  BY DEF UsageInv
<1>2. /\ work[w].pc # "idle" /\ work[w].locked /\ faults' = faults + 1
      /\ UNCHANGED <<Usage!client, Usage!rows, last, abreast>>
  BY DEF Usage!Stall, Usage!Fault
<1>3. work[w] # Usage!Idle /\ work[w] \in AttemptRows
  BY <1>1, <1>2, BusyIs
<1>4. PICK k \in Usage!Ids : k = work[w].job
  BY <1>3, AttemptIs
<1>5. telemetry \in [Usage!Ids -> Nat] /\ doubts \in [Usage!Ids -> Nat] /\ faults' \in Nat
      /\ faults' # 0
      /\ answered' = answered /\ telemetry' = telemetry
  BY <1>1, <1>2 DEF UsageTyped, Usage!client, Usage!rows
<1>6. Holds(w, k) /\ k \in Held /\ k \in DOMAIN jobs
  <2>1. Holds(w, k)
    BY <1>2, <1>3, <1>4 DEF Holds
  <2>2. k \in Held
    BY <2>1 DEF Held
  <2> QED
    BY <1>1, <2>1, <2>2 DEF Placed
<1>7. Retried(k) \/ Usage!FailForGood(k)
  <2>1. CASE jobs[k].stalled
    BY <1>4, <2>1 DEF Usage!Stall
  <2>2. CASE ~jobs[k].stalled
    <3> DEFINE r == [jobs[k] EXCEPT !.stalled = TRUE]
    <3>1. /\ jobs' = [jobs EXCEPT ![k] = r] /\ waiting' = <<k>> \o waiting
          /\ UNCHANGED <<completed, failed, exhausted>>
      BY <1>4, <2>2 DEF Usage!Stall
    <3>2. jobs \in [DOMAIN jobs -> JobRows] /\ jobs[k] \in JobRows
      BY <1>1, <1>6 DEF UsageTyped
    <3>3. r \in JobRows /\ r.event = jobs[k].event
      BY <3>2 DEF JobRows
    <3> HIDE DEF r
    <3>4. DOMAIN jobs' = DOMAIN jobs /\ jobs' \in [DOMAIN jobs -> JobRows]
          /\ \A j \in DOMAIN jobs : jobs'[j].event = jobs[j].event
      BY <1>6, <3>1, <3>2, <3>3
    <3> QED
      BY <3>1, <3>4 DEF Retried
  <2> QED
    BY <2>1, <2>2
<1>8. PICK goesOn \in BOOLEAN :
        /\ Usage!Sets(w, IF goesOn THEN [work[w] EXCEPT !.locked = FALSE] ELSE Usage!Idle)
        /\ doubts' = IF goesOn \/ work[w].pc = "end"
                       THEN [doubts EXCEPT ![KeyOf[work[w].event]] = @ + 1] ELSE doubts
  BY DEF Usage!Stall
<1>9. PICK a \in {Usage!Idle} \cup AttemptRows :
        /\ Usage!Sets(w, a)
        /\ goesOn => /\ a # Usage!Idle /\ a.pc = work[w].pc /\ a.job = k /\ a.event = work[w].event
                     /\ ~a.locked
        /\ ~goesOn => a = Usage!Idle
  <2> DEFINE b == [work[w] EXCEPT !.locked = FALSE]
  <2>1. At(b, work[w].pc, work[w].job, work[w].event, FALSE)
    BY <1>3, AttemptIs
  <2> HIDE DEF b
  <2>2. b \in AttemptRows /\ b # Usage!Idle /\ b.pc = work[w].pc /\ b.job = k
        /\ b.event = work[w].event
        /\ b.locked = FALSE
    BY <1>4, <2>1, AttemptIs DEF At
  <2>3. CASE goesOn
    <3>1. Usage!Sets(w, b)
      BY <1>8, <2>3 DEF b
    <3> QED
      BY <2>2, <2>3, <3>1
  <2>4. CASE ~goesOn
    <3>1. Usage!Sets(w, Usage!Idle)
      BY <1>8, <2>4
    <3> QED
      BY <2>4, <3>1
  <2> QED
    BY <2>3, <2>4
<1>10. ~(a # Usage!Idle /\ a.locked)
  BY <1>9
<1>11. Moves(w, a)
  <2>1. Releases(w, a, work[w].job)
    BY <1>4, <1>6, <1>7, <1>10 DEF Releases
  <2>2. a # Usage!Idle => a.event = work[w].event /\ a.job = work[w].job
    BY <1>4, <1>9
  <2> QED
    BY <1>3, <1>9, <2>1, <2>2 DEF Moves
<1>12. PICK y \in {0, 1} :
         /\ y = IF goesOn \/ work[w].pc = "end" THEN 1 ELSE 0
         /\ doubts' \in [Usage!Ids -> Nat] /\ doubts'[k] = doubts[k] + y
         /\ \A j \in Usage!Ids : j # k => doubts'[j] = doubts[j]
  <2>1. KeyOf[work[w].event] = k
    BY <1>1, <1>3, <1>4 DEF Placed
  <2>2. CASE goesOn \/ work[w].pc = "end"
    BY <1>5, <1>8, <2>1, <2>2
  <2>3. CASE ~(goesOn \/ work[w].pc = "end")
    BY <1>5, <1>8, <2>1, <2>3
  <2> QED
    BY <2>2, <2>3
<1>13. UsageTyped' /\ Placed'
  BY <1>1, <1>2, <1>5, <1>11, <1>12, WorkPlaced DEF Moves
<1>14. work'[w] = a
  BY <1>1, <1>9, OthersStay
<1>15. Fair(k)'
  <2>1. ~Holds(w, k)'
    BY <1>10, <1>14 DEF Holds
  <2>2. w \notin Adrift(k)
    BY <1>2 DEF Adrift
  <2>3. work[w].pc \in {"touch", "create", "end"}
    BY <1>3, AttemptIs
  <2>4. ASSUME work[w].pc \in {"touch", "create"} PROVE k \in Due' => k \in Due
    <3>1. k \in Due
      BY <1>6, <2>4 DEF Due
    <3> QED
      BY <3>1
  <2>5. ASSUME work[w].pc = "end" \/ ~goesOn PROVE w \notin Adrift(k)'
    BY <1>9, <1>14, <2>5 DEF Adrift
  <2>6. telemetry'[k] = telemetry[k] + 0 /\ Fair(k) /\ y \in Nat /\ 0 \in Nat
    BY <1>1, <1>5 DEF Explained
  <2>7. CASE y = 1
    <3>1. w \notin Adrift(k)' \/ (k \in Due' => k \in Due)
      BY <2>3, <2>4, <2>5
    <3> QED
      BY <1>1, <1>9, <1>12, <2>6, <2>7, <3>1, OwnFair
  <2>8. CASE y = 0
    <3>1. ~goesOn /\ work[w].pc # "end"
      BY <1>12, <2>8
    <3>2. (w \in Adrift(k)' => w \in Adrift(k)) /\ (k \in Due' => k \in Due)
      BY <2>3, <2>4, <2>5, <3>1
    <3> QED
      BY <1>1, <1>9, <1>12, <2>6, <2>8, <3>2, OwnFair
  <2> QED
    BY <2>7, <2>8
<1>16. Explained'
  <2>1. ASSUME NEW j \in Usage!Ids, j # k PROVE Fair(j)'
    BY <1>1, <1>4, <1>5, <1>11, <1>12, <2>1, OthersFair DEF Explained
  <2> QED
    BY <1>15, <2>1 DEF Explained
<1>17. JobsSafe'
  <2>1. Usage!Complete(work[w].job) => work[w].job \in exhausted'
    BY <1>1, <1>4, <1>6, <1>7, LostIs
  <2>2. \A j \in Usage!Ids : telemetry'[j] >= telemetry[j]
    BY <1>5
  <2>3. a # Usage!Idle /\ a.pc = "end" => telemetry'[work[w].job] > 0
    <3> SUFFICES ASSUME a # Usage!Idle, a.pc = "end" PROVE telemetry'[k] > 0
      BY <1>4
    <3>1. work[w].pc = "end"
      BY <1>9
    <3> QED
      BY <1>1, <1>3, <1>4, <1>5, <3>1 DEF JobsSafe
  <2>4. telemetry' \in [Usage!Ids -> Nat]
    BY <1>5
  <2> QED
    BY <1>1, <1>5, <1>11, <2>1, <2>2, <2>3, <2>4, WorkSafe
<1>18. Current'
  BY <1>5 DEF Current
<1> QED
  BY <1>13, <1>16, <1>17, <1>18 DEF UsageInv

\* A worker takes the first job that waits.
LEMMA TakeKeeps ==
  ASSUME UsageInv, NEW w \in Workers, Usage!Take(w)
  PROVE  UsageInv'
<1>1. /\ UsageTyped /\ Placed /\ Explained /\ JobsSafe /\ Current
  BY DEF UsageInv
<1>2. UsageTyped' /\ Placed'
  BY <1>1, TakePlaced
<1>3. /\ work[w] = Usage!Idle /\ waiting # <<>> /\ waiting' = Tail(waiting)
      /\ jobs' = [jobs EXCEPT ![Head(waiting)].attempts = @ + 1]
      /\ abreast' = (abreast \/ Usage!Active # {})
      /\ UNCHANGED <<Usage!client, completed, failed, exhausted, Usage!rows, last, doubts, faults>>
  BY DEF Usage!Take
<1>4. waiting \in Seq(Usage!Ids) /\ Once(waiting)
  BY <1>1 DEF UsageTyped, Placed, Once
<1>5. PICK k \in Usage!Ids : k = Head(waiting)
  BY <1>3, <1>4, TailIs
<1>6. /\ k \in Usage!ToSet(waiting) /\ Usage!ToSet(waiting') = Usage!ToSet(waiting) \ {k}
      /\ waiting' # <<>> => waiting'[Len(waiting')] = waiting[Len(waiting)]
      /\ waiting' = <<>> => waiting[Len(waiting)] = k
      /\ waiting[Len(waiting)] \in Usage!ToSet(waiting)
  BY <1>3, <1>4, <1>5, TailIs, MemberIs
<1>7. PICK a \in AttemptRows :
        /\ a # Usage!Idle /\ a.pc = "touch" /\ a.job = k /\ a.event = jobs[k].event /\ a.locked
        /\ Usage!Sets(w, a)
  <2> DEFINE b == [pc |-> "touch", job |-> Head(waiting), event |-> jobs[Head(waiting)].event,
                   locked |-> TRUE]
  <2>1. Usage!Sets(w, b)
    BY DEF Usage!Take
  <2>2. b.pc = "touch" /\ b.job = k /\ b.event = jobs[k].event /\ b.locked
    BY <1>5
  <2>3. jobs[k].event \in Events
    BY <1>1, <1>6 DEF UsageTyped, Placed, JobRows
  <2>4. b \in AttemptRows
    BY <1>5, <2>3 DEF AttemptRows
  <2> HIDE DEF b
  <2>5. b # Usage!Idle
    BY <2>4, AttemptIs
  <2> QED
    BY <2>1, <2>2, <2>4, <2>5
<1>8. work'[w] = a /\ \A v \in Workers : v # w => work'[v] = work[v]
  BY <1>1, <1>7, OthersStay
<1>9. Held' = Held \cup {k}
  <2>1. \A j : ~Holds(w, j)
    BY <1>3 DEF Holds
  <2>2. \A j : Holds(w, j)' <=> j = k
    BY <1>7, <1>8 DEF Holds
  <2> QED
    BY <1>1, <1>7, <2>1, <2>2, HeldTakes
<1>10. telemetry' = telemetry /\ doubts' = doubts /\ faults' = faults /\ last' = last
       /\ shown' = shown /\ answered' = answered /\ exhausted' = exhausted
       /\ telemetry \in [Usage!Ids -> Nat] /\ doubts \in [Usage!Ids -> Nat]
  BY <1>1, <1>3 DEF Usage!client, Usage!rows, UsageTyped
<1>11. Explained'
  <2> SUFFICES ASSUME NEW j \in Usage!Ids PROVE Fair(j)'
    BY DEF Explained
  <2>1. j \in Due' => j \in Due
    <3>1. j \in Usage!ToSet(waiting') => j \in Due
      BY <1>6 DEF Due
    <3>2. Holds(w, j)' => j \in Due
      BY <1>6, <1>7, <1>8 DEF Holds, Due
    <3> QED
      BY <1>1, <1>7, <3>1, <3>2, DueWithin
  <2>2. w \in Adrift(j)' => w \in Adrift(j)
    BY <1>7, <1>8 DEF Adrift
  <2>3. telemetry'[j] = telemetry[j] + 0 /\ doubts'[j] = doubts[j] + 0
    BY <1>10
  <2>4. Fair(j) /\ 0 \in Nat
    BY <1>1 DEF Explained
  <2> QED
    BY <1>1, <1>7, <2>1, <2>2, <2>3, <2>4, OwnFair
<1>12. JobsSafe'
  <2>1. \A j : Safe(j) => Safe(j)'
    BY <1>6, <1>9, <1>10 DEF Safe
  <2>2. DOMAIN jobs' = DOMAIN jobs
    BY <1>3
  <2>3. \A v \in Workers : work'[v] # Usage!Idle /\ work'[v].pc = "end"
          => telemetry'[work'[v].job] > 0
    BY <1>1, <1>7, <1>8, <1>10 DEF JobsSafe
  <2> QED
    BY <1>1, <1>10, <2>1, <2>2, <2>3 DEF JobsSafe
<1>13. Current'
  <2> SUFFICES ASSUME faults = 0, ~abreast'  PROVE Current'
    BY <1>10 DEF Current
  <2>1. ~abreast /\ \A v \in Workers : work[v] = Usage!Idle
    BY <1>1, <1>3, BusyIs DEF Usage!Active
  <2>2. jobs[waiting[Len(waiting)]].event = last
    BY <1>1, <1>3, <2>1 DEF Current
  <2>3. \A j \in DOMAIN jobs : jobs'[j].event = jobs[j].event
    <3> SUFFICES ASSUME NEW j \in DOMAIN jobs PROVE jobs'[j].event = jobs[j].event
      OBVIOUS
    <3>1. jobs[j] \in JobRows
      BY <1>1 DEF UsageTyped
    <3>2. CASE j = k
      <4>1. jobs'[j] = [jobs[j] EXCEPT !.attempts = jobs[j].attempts + 1]
        BY <1>3, <1>5, <3>2
      <4> QED
        BY <3>1, <4>1 DEF JobRows
    <3>3. CASE j # k
      BY <1>3, <1>5, <3>3
    <3> QED
      BY <3>2, <3>3
  <2>4. waiting[Len(waiting)] \in DOMAIN jobs
    BY <1>1, <1>6 DEF Placed
  <2>5. waiting' # <<>> => jobs'[waiting'[Len(waiting')]].event = last
    BY <1>6, <2>2, <2>3, <2>4
  <2>6. waiting' = <<>> => a.event = last
    BY <1>6, <1>7, <2>2
  <2>7. /\ \A u, v \in Workers : work'[u] # Usage!Idle /\ work'[v] # Usage!Idle => u = v
        /\ \A v \in Workers : work'[v] # Usage!Idle => v = w
        /\ work'[w] # Usage!Idle
    BY <1>7, <1>8, <2>1
  <2> QED
    BY <1>7, <1>8, <1>10, <2>5, <2>6, <2>7 DEF Current
<1> QED
  BY <1>2, <1>11, <1>12, <1>13 DEF UsageInv

\* What depends on the attempts only.
LEMMA AttemptsStay ==
  ASSUME work' = work
  PROVE  /\ Held' = Held
         /\ \A k : Adrift(k)' = Adrift(k)
         /\ \A w \in Workers : \A k : Holds(w, k)' <=> Holds(w, k)
<1>1. \A w \in Workers : \A k : Holds(w, k)' <=> Holds(w, k)
  BY DEF Holds
<1> QED
  BY <1>1 DEF Held, Adrift

\* A step of the extension or the API that leaves the queue alone.
LEMMA QuietKeeps ==
  ASSUME UsageInv, UNCHANGED <<Usage!queue, Usage!rows, work, last, doubts, abreast>>,
         delivery' \subseteq Requests, sends' \in Nat, answered' \subseteq Events,
         \A e \in answered' : e \in answered \/ KeyOf[e] \in DOMAIN jobs,
         faults' \in Nat, faults' = faults \/ faults' # 0
  PROVE  UsageInv'
<1>1. UsageTyped /\ Placed /\ Explained /\ JobsSafe /\ Current
  BY DEF UsageInv
<1>2. /\ jobs' = jobs /\ waiting' = waiting /\ completed' = completed /\ failed' = failed
      /\ exhausted' = exhausted /\ telemetry' = telemetry /\ shown' = shown /\ work' = work
      /\ last' = last /\ doubts' = doubts /\ abreast' = abreast
  BY DEF Usage!queue, Usage!rows
<1>3. /\ Held' = Held /\ \A k : Adrift(k)' = Adrift(k)
      /\ \A w \in Workers : \A k : Holds(w, k)' <=> Holds(w, k)
  BY <1>2, AttemptsStay
<1>4. UsageTyped'
  BY <1>1, <1>2 DEF UsageTyped
<1>5. Placed'
  BY <1>1, <1>2, <1>3 DEF Placed
<1>6. Explained'
  <2> SUFFICES ASSUME NEW k \in Usage!Ids PROVE Fair(k)'
    BY DEF Explained
  <2>1. k \in Due' <=> k \in Due
    BY <1>2, <1>3 DEF Due
  <2>2. Cardinality(Adrift(k))' = Cardinality(Adrift(k))
    BY <1>3
  <2> QED
    BY <1>1, <1>2, <2>1, <2>2 DEF Explained, Fair
<1>7. JobsSafe'
  <2>1. \A k : Safe(k)' <=> Safe(k)
    BY <1>2, <1>3 DEF Safe
  <2> QED
    BY <1>1, <1>2, <2>1 DEF JobsSafe
<1>8. Current'
  BY <1>1, <1>2 DEF Current
<1> QED
  BY <1>4, <1>5, <1>6, <1>7, <1>8 DEF UsageInv

\* The API puts an event into the queue.
LEMMA AddKeeps ==
  ASSUME UsageInv, NEW d \in delivery, Usage!Add(d),
         UNCHANGED <<sends, completed, failed, exhausted, Usage!rows, work, abreast>>,
         delivery' = delivery \ {d},
         answered' \subseteq answered \cup {d.event},
         faults' \in Nat, faults' = faults \/ faults' # 0
  PROVE  UsageInv'
<1>1. UsageTyped /\ Placed /\ Explained /\ JobsSafe /\ Current
  BY DEF UsageInv
<1>2. d.event \in Events /\ delivery' \subseteq Requests /\ sends' \in Nat
      /\ answered' \subseteq Events
  BY <1>1 DEF UsageTyped, Requests
<1>3. PICK k \in Usage!Ids : k = KeyOf[d.event] /\ k = Usage!JobId(d)
  BY <1>2 DEF Usage!JobId, Usage!Ids
<1>4. CASE k \in DOMAIN jobs
  <2>1. UNCHANGED <<Usage!queue, Usage!rows, work, last, doubts, abreast>>
    BY <1>3, <1>4 DEF Usage!Add, Usage!queue
  <2>2. \A e \in answered' : e \in answered \/ KeyOf[e] \in DOMAIN jobs
    BY <1>3, <1>4
  <2> QED
    BY <1>2, <2>1, <2>2, QuietKeeps
<1>5. CASE k \notin DOMAIN jobs
  <2>1. /\ DOMAIN jobs' \subseteq Usage!Ids /\ jobs' \in [DOMAIN jobs' -> JobRows]
        /\ waiting' \in Seq(Usage!Ids) /\ doubts' \in [Usage!Ids -> Nat]
        /\ Placed'
    BY <1>1, <1>2, AddPlaced
  <2>2. /\ completed' = completed /\ failed' = failed /\ exhausted' = exhausted
        /\ telemetry' = telemetry /\ shown' = shown /\ work' = work /\ abreast' = abreast
    BY DEF Usage!rows
  <2>3. UsageTyped'
    BY <1>1, <1>2, <2>1, <2>2 DEF UsageTyped
  <2>4. /\ Held' = Held /\ \A j : Adrift(j)' = Adrift(j)
        /\ \A w \in Workers : \A j : Holds(w, j)' <=> Holds(w, j)
    BY <2>2, AttemptsStay
  <2>5. /\ DOMAIN jobs' = DOMAIN jobs \cup {k} /\ jobs'[k].event = d.event
        /\ waiting' = Append(waiting, k) /\ last' = d.event
        /\ doubts' = [i \in Usage!Ids |-> IF i = KeyOf[d.event] /\ telemetry[i] > 0
                                       THEN doubts[i] + 1 ELSE doubts[i]]
    BY <1>3, <1>5 DEF Usage!Add
  <2>6. Usage!ToSet(waiting') = Usage!ToSet(waiting) \cup {k}
        /\ waiting' # <<>> /\ waiting'[Len(waiting')] = k
    <3>1. waiting \in Seq(Usage!Ids) /\ waiting' = Append(waiting, k)
      BY <1>1, <2>5 DEF UsageTyped
    <3> QED
      BY <3>1, AppendIs
  <2>7. k \notin Usage!ToSet(waiting) /\ k \notin Held
    BY <1>1, <1>5 DEF Placed
  <2>8. k \notin Due /\ \A j \in Usage!Ids : j # k => (j \in Due' <=> j \in Due)
    <3>1. \A j \in Usage!Ids : j # k => (j \in Due' <=> j \in Due)
      BY <2>2, <2>4, <2>6 DEF Due
    <3> QED
      BY <2>7, <3>1 DEF Due, Held
  <2>9. Explained'
    <3> SUFFICES ASSUME NEW j \in Usage!Ids PROVE Fair(j)'
      BY DEF Explained
    <3>1. PICK n \in Nat : n = Cardinality(Adrift(j)) /\ n = Cardinality(Adrift(j))'
      <4>1. Adrift(j) \subseteq Workers
        BY DEF Adrift
      <4>2. Cardinality(Adrift(j)) \in Nat
        BY <4>1, UsageAssumption, FS_Subset, FS_CardinalityType
      <4> QED
        BY <2>4, <4>2
    <3>2. telemetry[j] \in Nat /\ doubts[j] \in Nat
      BY <1>1 DEF UsageTyped
    <3>3. telemetry[j] + n + (IF j \in Due THEN 1 ELSE 0) <= 1 + doubts[j] /\ n <= doubts[j]
      BY <1>1, <3>1 DEF Explained, Fair
    <3>4. doubts'[j] = IF j = k /\ telemetry[j] > 0 THEN doubts[j] + 1 ELSE doubts[j]
      BY <1>3, <2>5
    <3>5. /\ telemetry[j] + n + (IF j \in Due' THEN 1 ELSE 0) <= 1 + doubts'[j]
          /\ n <= doubts'[j]
      <4>1. CASE j # k
        BY <2>8, <3>2, <3>3, <3>4, <4>1
      <4>2. CASE j = k /\ telemetry[j] > 0
        BY <2>8, <3>2, <3>3, <3>4, <4>2
      <4>3. CASE j = k /\ telemetry[j] = 0
        BY <2>8, <3>2, <3>3, <3>4, <4>3
      <4> QED
        BY <3>2, <4>1, <4>2, <4>3
    <3> QED
      BY <2>2, <3>1, <3>5 DEF Fair
  <2>10. JobsSafe'
    <3>1. \A j : Safe(j) \/ j = k => Safe(j)'
      BY <2>2, <2>4, <2>5, <2>6 DEF Safe
    <3> QED
      BY <1>1, <1>3, <2>2, <2>5, <3>1 DEF JobsSafe
  <2>11. Current'
    <3>1. waiting' # <<>> /\ jobs'[waiting'[Len(waiting')]].event = last'
      BY <2>5, <2>6
    <3> QED
      BY <1>1, <2>2, <3>1 DEF Current
  <2> QED
    BY <2>1, <2>3, <2>9, <2>10, <2>11 DEF UsageInv
<1> QED
  BY <1>4, <1>5

\* The extension sends an event.
LEMMA SendKeeps ==
  ASSUME UsageInv, NEW e \in Events, Usage!Send(e)
  PROVE  UsageInv'
<1>1. UsageTyped
  BY DEF UsageInv
<1>2. /\ sends' = sends + 1
      /\ delivery' = delivery \cup {[id |-> sends + 1, event |-> e, heard |-> TRUE]}
      /\ answered' = answered /\ faults' = faults
      /\ UNCHANGED <<Usage!queue, Usage!rows, work, last, doubts, abreast>>
  BY DEF Usage!Send
<1>3. delivery' \subseteq Requests
  <2>1. sends + 1 \in Nat
    BY <1>1 DEF UsageTyped
  <2>2. [id |-> sends + 1, event |-> e, heard |-> TRUE] \in Requests
    BY <2>1 DEF Requests
  <2> QED
    BY <1>1, <1>2, <2>2 DEF UsageTyped
<1>4. sends' \in Nat /\ answered' \subseteq Events /\ faults' \in Nat
  BY <1>1, <1>2 DEF UsageTyped
<1> QED
  BY <1>2, <1>3, <1>4, QuietKeeps

\* A connection is lost.
LEMMA LoseKeeps ==
  ASSUME UsageInv, NEW d \in delivery, Usage!Lose(d)
  PROVE  UsageInv'
<1>1. UsageTyped
  BY DEF UsageInv
<1>2. /\ delivery' \in {delivery \ {d}, (delivery \ {d}) \cup {[d EXCEPT !.heard = FALSE]}}
      /\ sends' = sends /\ answered' = answered /\ faults' = faults + 1
      /\ UNCHANGED <<Usage!queue, Usage!rows, work, last, doubts, abreast>>
  BY DEF Usage!Lose, Usage!Fault
<1>3. [d EXCEPT !.heard = FALSE] \in Requests
  BY <1>1 DEF UsageTyped, Requests
<1>4. delivery' \subseteq Requests /\ sends' \in Nat /\ answered' \subseteq Events
  BY <1>1, <1>2, <1>3 DEF UsageTyped
<1>5. faults' \in Nat /\ faults' # 0
  BY <1>1, <1>2 DEF UsageTyped
<1> QED
  BY <1>2, <1>4, <1>5, QuietKeeps

\* The API queues the event of a request,
LEMMA DispatchKeeps ==
  ASSUME UsageInv, NEW d \in delivery, Usage!Dispatch(d)
  PROVE  UsageInv'
<1>1. UsageTyped
  BY DEF UsageInv
<1>2. /\ Usage!Add(d) /\ delivery' = delivery \ {d} /\ answered' = Usage!Answer(d, answered)
      /\ UNCHANGED <<sends, completed, failed, exhausted, Usage!rows, work, abreast>>
      /\ faults' = faults
  BY DEF Usage!Dispatch
<1>3. answered' \subseteq answered \cup {d.event} /\ faults' \in Nat
  BY <1>1, <1>2 DEF Usage!Answer, UsageTyped
<1> QED
  BY <1>2, <1>3, AddKeeps

\* or cannot, or does not learn that it has.
LEMMA DispatchFailsKeeps ==
  ASSUME UsageInv, NEW d \in delivery, Usage!DispatchFails(d)
  PROVE  UsageInv'
<1>1. UsageTyped
  BY DEF UsageInv
<1>2. /\ Usage!Add(d) \/ UNCHANGED <<jobs, waiting, last, doubts>>
      /\ delivery' = delivery \ {d} /\ answered' = answered /\ faults' = faults + 1
      /\ UNCHANGED <<sends, completed, failed, exhausted, Usage!rows, work, abreast>>
  BY DEF Usage!DispatchFails, Usage!Fault
<1>3. faults' \in Nat /\ faults' # 0 /\ delivery' \subseteq Requests /\ sends' \in Nat
      /\ answered' \subseteq Events
  BY <1>1, <1>2 DEF UsageTyped
<1>4. CASE Usage!Add(d)
  BY <1>2, <1>3, <1>4, AddKeeps
<1>5. CASE UNCHANGED <<jobs, waiting, last, doubts>>
  <2>1. UNCHANGED <<Usage!queue, Usage!rows, work, last, doubts, abreast>>
    BY <1>2, <1>5 DEF Usage!queue
  <2> QED
    BY <1>2, <1>3, <2>1, QuietKeeps
<1> QED
  BY <1>2, <1>4, <1>5

\* At first there are no jobs and no rows.
LEMMA UsageInit == Usage!Init => UsageInv
<1> SUFFICES ASSUME Usage!Init PROVE UsageInv
  OBVIOUS
<1>1. /\ \A w \in Workers : work[w] = Usage!Idle
      /\ Usage!ToSet(waiting) = {} /\ Usage!ToSet(completed) = {} /\ Usage!ToSet(failed) = {}
  BY DEF Usage!Init, Usage!ToSet
<1>2. Held = {} /\ Due = {} /\ \A k : Adrift(k) = {}
  BY <1>1 DEF Held, Holds, Due, Adrift
<1>3. DOMAIN jobs = {} /\ jobs \in [DOMAIN jobs -> JobRows] /\ waiting \in Seq(Usage!Ids)
      /\ completed \in Seq(Usage!Ids) /\ failed \in Seq(Usage!Ids) /\ Len(waiting) = 0
  BY DEF Usage!Init
<1>4. UsageTyped
  BY <1>3 DEF Usage!Init, UsageTyped
<1>5. Placed
  BY <1>1, <1>2, <1>3 DEF Placed, Holds
<1>6. Explained
  <2> SUFFICES ASSUME NEW k \in Usage!Ids PROVE Fair(k)
    BY DEF Explained
  <2>1. Cardinality(Adrift(k)) = 0
    BY <1>2, FS_EmptySet
  <2>2. telemetry[k] = 0 /\ doubts[k] = 0
    BY DEF Usage!Init
  <2> QED
    BY <1>2, <2>1, <2>2 DEF Fair
<1>7. JobsSafe
  BY <1>1, <1>3 DEF Usage!Init, JobsSafe
<1>8. Current
  BY <1>1 DEF Usage!Init, Current
<1> QED
  BY <1>4, <1>5, <1>6, <1>7, <1>8 DEF UsageInv

\* The invariant is inductive,
LEMMA UsageStep == UsageInv /\ [Usage!Next]_(Usage!vars) => UsageInv'
<1> SUFFICES ASSUME UsageInv, [Usage!Next]_(Usage!vars) PROVE UsageInv'
  OBVIOUS
<1>1. ASSUME NEW e \in Events, Usage!Send(e) PROVE UsageInv'
  BY <1>1, SendKeeps
<1>2. ASSUME NEW d \in delivery, Usage!Lose(d) \/ Usage!Dispatch(d) \/ Usage!DispatchFails(d)
             PROVE UsageInv'
  BY <1>2, LoseKeeps, DispatchKeeps, DispatchFailsKeeps
<1>3. ASSUME NEW w \in Workers, \/ Usage!Take(w) \/ Usage!Touch(w) \/ Usage!Create(w)
             \/ Usage!End(w)
                                \/ Usage!AttemptFails(w) \/ Usage!Stall(w)
      PROVE  UsageInv'
  BY <1>3, TakeKeeps, TouchKeeps, CreateKeeps, EndKeeps, AttemptFailsKeeps, StallKeeps
<1>4. CASE UNCHANGED Usage!vars
  <2>1. /\ UNCHANGED <<Usage!queue, Usage!rows, work, last, doubts, abreast>>
        /\ delivery' = delivery /\ sends' = sends /\ answered' = answered /\ faults' = faults
    BY <1>4 DEF Usage!vars, Usage!client
  <2>2. delivery \subseteq Requests /\ sends \in Nat /\ answered \subseteq Events /\ faults \in Nat
    BY DEF UsageInv, UsageTyped
  <2> QED
    BY <2>1, <2>2, QuietKeeps
<1> QED
  BY <1>1, <1>2, <1>3, <1>4 DEF Usage!Next

\* and holds what the property asks.
LEMMA UsageMeans == UsageInv => EventsAccountedFor
<1> SUFFICES ASSUME UsageInv PROVE EventsAccountedFor
  OBVIOUS
<1>1. UsageTyped /\ Placed /\ Explained /\ JobsSafe /\ Current
  BY DEF UsageInv
<1>2. Usage!TelemetryOnce
  <2> SUFFICES ASSUME NEW k \in Usage!Ids PROVE telemetry[k] <= 1 + doubts[k]
    BY DEF Usage!TelemetryOnce
  <2>1. telemetry[k] \in Nat /\ doubts[k] \in Nat
    BY <1>1 DEF UsageTyped
  <2>2. PICK n \in Nat : n = Cardinality(Adrift(k))
    <3>1. Adrift(k) \subseteq Workers
      BY DEF Adrift
    <3> QED
      BY <3>1, UsageAssumption, FS_Subset, FS_CardinalityType
  <2>3. telemetry[k] + n + (IF k \in Due THEN 1 ELSE 0) <= 1 + doubts[k]
    BY <1>1, <2>2 DEF Explained, Fair
  <2> QED
    BY <2>1, <2>3
<1>3. Usage!QueuedIsStored
  <2>1. \A k \in Held : k \in {work[w].job : w \in Usage!Active}
    BY <1>1, BusyIs DEF Held, Holds, Usage!Active
  <2> QED
    BY <1>1, <2>1 DEF JobsSafe, Safe, Usage!QueuedIsStored
<1>4. Usage!InstallationIsCurrent
  <2>1. Usage!Active = {} => \A w \in Workers : work[w] = Usage!Idle
    BY <1>1, BusyIs DEF Usage!Active
  <2> QED
    BY <1>1, <2>1 DEF Current, Usage!InstallationIsCurrent
<1> QED
  BY <1>2, <1>3, <1>4 DEF EventsAccountedFor, Usage!EventsAccountedFor

\* Telemetry: however often the extension sends an event and workers try it, it has one row but
\* for the doubts on record, and none that was answered as queued is lost; the installation tells
\* of the last one while nothing fails and one worker is busy at a time.
THEOREM EventsAccountedForCorrect == Usage!Spec => []EventsAccountedFor
<1>1. Usage!Spec => []UsageInv
  BY UsageInit, UsageStep, PTL DEF Usage!Spec
<1> QED
  BY <1>1, UsageMeans, PTL
=============================================================================
