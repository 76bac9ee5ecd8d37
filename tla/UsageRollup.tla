----------------------------- MODULE UsageRollup -----------------------------
(***************************************************************************)
(* The daily usage rollup of one user and one model: the transaction that  *)
(* writes a history event and moves its contribution between rollup rows   *)
(* (ai-history.repository.ts), the analytics that read either table, and   *)
(* the backfill that rebuilds the rollup (backfill-ai-history-plan-b.ts).  *)
(*                                                                         *)
(* Every action is one SQL statement.  Transactions are READ COMMITTED: a  *)
(* statement sees what was committed before it and the transaction's own   *)
(* writes, and a write waits for the open transactions that wrote the row. *)
(*                                                                         *)
(* A request is persisted by the AI proxy; if it carried a file, the       *)
(* upload controller persists it a second time, under the same id.  Both   *)
(* calls are fire-and-forget.                                              *)
(***************************************************************************)
EXTENDS Integers, FiniteSets, FiniteSetsExt

CONSTANTS
  Events,       \* ids of AiRequestEvent
  Legacy,       \* those that only the backfill writes, from an AiRequest
  Writers,      \* persists that the API may be running together
  Days,         \* bound: days of the calendar, from 0
  Tokens,       \* bound: tokens of a request
  NoRow

ASSUME InputAssumption ==
  /\ Legacy \subseteq Events
  /\ Days \in Nat \ {0}
  /\ Tokens \subseteq Nat

Moments  == 0 .. 2 * Days - 1      \* two moments a day
Kinds    == {"text", "file"}
Statuses == {"success", "error"}
Rows     == [at: Moments, kind: Kinds, status: Statuses, tokens: Tokens]
Buckets  == [day: 0 .. Days - 1, kind: Kinds, status: Statuses]
Sums     == [id: Nat, count: Nat, success: Nat, failed: Nat, tokens: Nat]

ASSUME RowsAssumption == IsFiniteSet(Events) /\ NoRow \notin Rows \cup Sums

Day(at) == at \div 2

BucketOf(row) == [day |-> Day(row.at), kind |-> row.kind, status |-> row.status]

VARIABLES
  event,    \* AiRequestEvent, committed
  rollup,   \* AiUsageDailyRollup, committed
  tx,       \* the transaction of each writer
  asked,    \* who has asked to persist each event
  rebuild,  \* where the backfill is, and the sums it has read
  births,   \* how often the rollup was emptied: the id of a row born since
  overlap   \* history: two of the persists and the backfill have overlapped

vars == <<event, rollup, tx, asked, rebuild, births, overlap>>

\* Mistake: every request counts as a success.
ContributionAllSucceed(row) ==
  [count   |-> 1,
   success |-> 1,
   failed  |-> IF row.status = "success" THEN 0 ELSE 1,
   tokens  |-> row.tokens]

Contribution(row) ==
  [count   |-> 1,
   success |-> IF row.status = "success" THEN 1 ELSE 0,
   failed  |-> IF row.status = "success" THEN 0 ELSE 1,
   tokens  |-> row.tokens]

Zero == [count |-> 0, success |-> 0, failed |-> 0, tokens |-> 0]

Plus(a, b) ==
  [f \in {"count", "success", "failed", "tokens"} |-> a[f] + b[f]]

Negated(a) == [f \in {"count", "success", "failed", "tokens"} |-> 0 - a[f]]

\* Every column is written as Math.max(0, ...).
Clamp(a, id) ==
  [id |-> id, count |-> Max({0, a.count}), success |-> Max({0, a.success}),
   failed |-> Max({0, a.failed}), tokens |-> Max({0, a.tokens})]

\* What the events in S contribute together.
Total(S, ev) == FoldSet(LAMBDA e, acc : Plus(Contribution(ev[e]), acc), Zero, S)

Stored == {e \in Events : event[e] # NoRow}

NoTx == [pc |-> "idle", ev |-> NoRow, row |-> NoRow, prev |-> NoRow,
         seen |-> NoRow, made |-> <<>>]

Init ==
  /\ event   = [e \in Events |-> NoRow]
  /\ rollup  = [b \in Buckets |-> NoRow]
  /\ tx      = [w \in Writers |-> NoTx]
  /\ asked   = [e \in Events |-> {}]
  /\ rebuild = [pc |-> "ready", sums |-> <<>>]
  /\ births  = 0
  /\ overlap = FALSE

-----------------------------------------------------------------------------
(* upsertEventContentAndRollup                                             *)

Open(w) == tx[w].pc # "idle"

\* The statement that has written the event holds its row to the end.
HoldsEvent(w, e) == tx[w].pc \notin {"idle", "read", "upsert"} /\ tx[w].ev = e

HoldsBucket(w, b) == b \in DOMAIN tx[w].made

Running == (\E w \in Writers : Open(w)) \/ rebuild.pc \in {"read", "write"}

Begin(w, e, row, who) ==
  /\ ~Open(w)
  /\ tx'    = [tx EXCEPT ![w] = [NoTx EXCEPT !.pc = "read", !.ev = e, !.row = row]]
  /\ asked' = [asked EXCEPT ![e] = @ \cup {who}]
  /\ overlap' = (overlap \/ Running)
  /\ UNCHANGED <<event, rollup, rebuild, births>>

\* The AI proxy persists a request it has answered, or failed to.
PersistProxy(w, e, row) ==
  /\ e \notin Legacy
  /\ asked[e] = {}
  /\ row.kind = "text"
  /\ Begin(w, e, row, "proxy")

\* The upload controller persists it again, as a file and at the time it is now.
PersistUpload(w, e, row) ==
  /\ asked[e] = {"proxy"}
  /\ row.kind = "file" /\ row.status = "success"
  /\ \A v \in Writers : tx[v].ev = e => tx[v].row.status = "success"
  /\ event[e] # NoRow => event[e].status = "success"
  /\ Begin(w, e, row, "upload")

ReadPrevious(w) ==
  /\ tx[w].pc = "read"
  /\ tx' = [tx EXCEPT ![w].pc = "upsert", ![w].prev = event[tx[w].ev]]
  /\ UNCHANGED <<event, rollup, asked, rebuild, births, overlap>>

UpsertEvent(w) ==
  /\ tx[w].pc = "upsert"
  /\ \A v \in Writers \ {w} : ~HoldsEvent(v, tx[w].ev)
  /\ tx' = [tx EXCEPT ![w].pc = IF tx[w].prev = NoRow THEN "plus_read" ELSE "minus_read"]
  /\ UNCHANGED <<event, rollup, asked, rebuild, births, overlap>>

\* The rows that m has, and those of r besides.
Over(m, r) == [b \in DOMAIN m \cup DOMAIN r |-> IF b \in DOMAIN m THEN m[b] ELSE r[b]]

Visible(w, b) == IF HoldsBucket(w, b) THEN tx[w].made[b] ELSE rollup[b]

\* First the bucket that the event leaves, then the one it enters.
Target(w) ==
  BucketOf(IF tx[w].pc \in {"minus_read", "minus_write"} THEN tx[w].prev ELSE tx[w].row)

Delta(w) ==
  IF tx[w].pc = "minus_write" THEN Negated(Contribution(tx[w].prev))
                              ELSE Contribution(tx[w].row)

ReadBucket(w) ==
  /\ tx[w].pc \in {"minus_read", "plus_read"}
  /\ tx' = [tx EXCEPT ![w].pc = IF @ = "minus_read" THEN "minus_write" ELSE "plus_write",
                      ![w].seen = Visible(w, Target(w))]
  /\ UNCHANGED <<event, rollup, asked, rebuild, births, overlap>>

Wrote(w, b, row) == Over([x \in {b} |-> row], tx[w].made)

\* applyRollupDelta writes what it computed from the row it has read.  It
\* fails if another transaction has made the row, or if the row it read is gone.
WriteBucket(w) ==
  LET b    == Target(w)
      seen == tx[w].seen
      next == IF tx[w].pc = "minus_write" THEN "plus_read" ELSE "commit"
  IN  /\ tx[w].pc \in {"minus_write", "plus_write"}
      /\ \/ /\ seen = NoRow /\ Delta(w).count <= 0
            /\ tx' = [tx EXCEPT ![w].pc = next]
         \/ /\ seen = NoRow /\ Delta(w).count > 0
            /\ \A v \in Writers \ {w} : ~HoldsBucket(v, b)
            /\ rollup[b] = NoRow
            /\ tx' = [tx EXCEPT ![w].pc = next,
                                ![w].made = Wrote(w, b, Clamp(Delta(w), births))]
         \/ /\ seen # NoRow
            /\ \A v \in Writers \ {w} : ~HoldsBucket(v, b)
            /\ Visible(w, b) # NoRow /\ Visible(w, b).id = seen.id
            /\ tx' = [tx EXCEPT ![w].pc = next,
                                ![w].made = Wrote(w, b, Clamp(Plus(seen, Delta(w)), seen.id))]
      /\ UNCHANGED <<event, rollup, asked, rebuild, births, overlap>>

Commit(w) ==
  /\ tx[w].pc = "commit"
  /\ event'  = [event EXCEPT ![tx[w].ev] = tx[w].row]
  /\ rollup' = Over(tx[w].made, rollup)
  /\ tx'     = [tx EXCEPT ![w] = NoTx]
  /\ UNCHANGED <<asked, rebuild, births, overlap>>

\* Mistake: the rollup is written outside the transaction.
RollbackKeepsRollup(w) ==
  /\ Open(w)
  /\ rollup' = Over(tx[w].made, rollup)
  /\ tx' = [tx EXCEPT ![w] = NoTx]
  /\ UNCHANGED <<event, asked, rebuild, births, overlap>>

\* A statement fails: a unique violation, a missing row, a deadlock, a timeout.
\* persistHistoryContentSafely logs the error and nobody persists again.
Rollback(w) ==
  /\ Open(w)
  /\ tx' = [tx EXCEPT ![w] = NoTx]
  /\ UNCHANGED <<event, rollup, asked, rebuild, births, overlap>>

-----------------------------------------------------------------------------
(* backfill-ai-history-plan-b.ts                                           *)

BackfillEvent(e, row) ==
  /\ rebuild.pc = "ready"
  /\ e \in Legacy
  /\ event[e] = NoRow
  /\ row.kind = "text"
  /\ event' = [event EXCEPT ![e] = row]
  /\ UNCHANGED <<rollup, tx, asked, rebuild, births, overlap>>

\* deleteMany waits for the transactions that have written rows it deletes.
RebuildDelete ==
  /\ rebuild.pc = "ready"
  /\ \A w \in Writers : \A b \in DOMAIN tx[w].made : rollup[b] = NoRow
  /\ rollup'  = [b \in Buckets |-> NoRow]
  /\ births'  = births + 1
  /\ rebuild' = [rebuild EXCEPT !.pc = "read"]
  /\ overlap' = (overlap \/ Running)
  /\ UNCHANGED <<event, tx, asked>>

RebuildRead ==
  /\ rebuild.pc = "read"
  /\ LET In(x) == {e \in Stored : BucketOf(event[e]) = x}
     IN  rebuild' = [pc |-> "write",
                     sums |-> [x \in {y \in Buckets : In(y) # {}} |-> Total(In(x), event)]]
  /\ UNCHANGED <<event, rollup, tx, asked, births, overlap>>

\* createMany makes all the rows or, if one of them exists, none.
RebuildWrite ==
  LET made == DOMAIN rebuild.sums
  IN  /\ rebuild.pc = "write"
      /\ \A w \in Writers : \A b \in made : ~HoldsBucket(w, b)
      /\ IF \A b \in made : rollup[b] = NoRow
           THEN /\ rollup' = Over([b \in made |-> Clamp(rebuild.sums[b], births)], rollup)
                /\ rebuild' = [pc |-> "complete", sums |-> <<>>]
           ELSE /\ rebuild' = [pc |-> "failed", sums |-> <<>>]
                /\ UNCHANGED rollup
      /\ UNCHANGED <<event, tx, asked, births, overlap>>

RebuildFails ==
  /\ rebuild.pc \in {"read", "write"}
  /\ rebuild' = [pc |-> "failed", sums |-> <<>>]
  /\ UNCHANGED <<event, rollup, tx, asked, births, overlap>>

-----------------------------------------------------------------------------
(* getAnalytics, its queries taken at one moment                           *)

InRange(from, to) == {e \in Stored : from <= event[e].at /\ event[e].at <= to}

FromEvents(from, to) == Total(InRange(from, to), event)

\* The rows of the days that the range touches, wholly or in part.
RowsIn(from, to) ==
  {b \in Buckets : rollup[b] # NoRow /\ Day(from) <= b.day /\ b.day <= Day(to)}

FromRollups(from, to) ==
  FoldSet(LAMBDA b, acc : Plus(rollup[b], acc), Zero, RowsIn(from, to))

\* Mistake: a row on every day is enough.
CoveredByDay(from, to) ==
  /\ RowsIn(from, to) # {}
  /\ \A e \in InRange(from, to) : \E b \in RowsIn(from, to) : b.day = Day(event[e].at)

\* The rollups are used if every day with an event has a row, and if they
\* count as many requests as there are events.
Covered(from, to) ==
  /\ RowsIn(from, to) # {}
  /\ \A e \in InRange(from, to) : \E b \in RowsIn(from, to) : b.day = Day(event[e].at)
  /\ FromRollups(from, to).count = Cardinality(InRange(from, to))

Analytics(from, to) ==
  IF Covered(from, to) THEN FromRollups(from, to) ELSE FromEvents(from, to)

Ranges == {r \in Moments \X Moments : r[1] <= r[2]}

-----------------------------------------------------------------------------

Persist(w) ==
  \/ \E e \in Events, row \in Rows : PersistProxy(w, e, row) \/ PersistUpload(w, e, row)
  \/ ReadPrevious(w) \/ UpsertEvent(w) \/ ReadBucket(w) \/ WriteBucket(w)
  \/ Commit(w) \/ Rollback(w)

Backfill ==
  \/ \E e \in Events, row \in Rows : BackfillEvent(e, row)
  \/ RebuildDelete \/ RebuildRead \/ RebuildWrite \/ RebuildFails

Next == (\E w \in Writers : Persist(w)) \/ Backfill

Spec == Init /\ [][Next]_vars

-----------------------------------------------------------------------------

\* Every variable has its type; in particular no sum is negative.
TypeOK ==
  /\ event \in [Events -> Rows \cup {NoRow}]
  /\ rollup \in [Buckets -> Sums \cup {NoRow}]
  /\ \A w \in Writers :
        /\ tx[w].pc \in {"idle", "read", "upsert", "minus_read", "minus_write",
                         "plus_read", "plus_write", "commit"}
        /\ tx[w].prev \in Rows \cup {NoRow}
        /\ tx[w].seen \in Sums \cup {NoRow}
        /\ DOMAIN tx[w].made \subseteq Buckets
        /\ \A b \in DOMAIN tx[w].made : tx[w].made[b] \in Sums
  /\ asked \in [Events -> SUBSET {"proxy", "upload"}]
  /\ rebuild.pc \in {"ready", "read", "write", "complete", "failed"}
  /\ births \in 0 .. 1
  /\ overlap \in BOOLEAN

\* Whatever updates are lost, a rollup row agrees with itself: each of its
\* requests succeeded or failed, as the status in its key says
\* (applyRollupDelta clamps each column alone).
CountsAgree ==
  \A b \in Buckets :
     LET r == rollup[b]
     IN  r # NoRow => /\ r.count = r.success + r.failed
                      /\ IF b.status = "success" THEN r.failed = 0 ELSE r.success = 0

Complete ==
  rebuild.pc = "complete" \/ (rebuild.pc = "ready" /\ \A e \in Legacy : event[e] = NoRow)

\* The rollup is the sum of the events, whenever the backfill has not emptied
\* it or left events out: tests say that persistContent writes event and
\* rollup, and that the same event written again changes neither.
RollupIsSum ==
  Complete =>
    \A b \in Buckets :
       LET S == {e \in Stored : BucketOf(event[e]) = b}
       IN  IF rollup[b] = NoRow THEN S = {} ELSE Plus(rollup[b], Zero) = Total(S, event)

\* So it is if persists and the backfill run one after the other, however they
\* fail and whatever buckets an event moves between
\* (upsertEventContentAndRollup is one transaction).
RollupIsSumWhenSerial == ~overlap => RollupIsSum

\* No event is counted twice, if none is written twice: a bucket never counts
\* more than its events, however persists and the backfill overlap
\* (applyRollupDelta, rebuildRollups).
NeverOvercounts ==
  (\A e \in Events : "upload" \notin asked[e]) =>
    \A b \in Buckets :
       rollup[b] # NoRow =>
          rollup[b].count <= Cardinality({e \in Stored : BucketOf(event[e]) = b})

\* Whatever state the rollup is in, analytics report as many requests as there are
\* events in the range; and those of a complete rollup report what the events say,
\* also for a range that begins or ends within a day (getAnalytics).
AnalyticsExact ==
  \A r \in Ranges :
    /\ Analytics(r[1], r[2]).count = Cardinality(InRange(r[1], r[2]))
    /\ Complete /\ ~overlap => Analytics(r[1], r[2]) = FromEvents(r[1], r[2])

\* Whatever is lost, a row of the rollup is one: no sum is negative, its columns agree.
RowsMakeSense == TypeOK /\ CountsAgree

\* The rollup never reports more than there was, and exactly that as long as nothing
\* overlaps.
RollupNeverAhead == NeverOvercounts /\ RollupIsSumWhenSerial
=============================================================================
