-------------------------------- MODULE AdminLog --------------------------------
(***************************************************************************)
(* The admin log's read model, apps/api/src/logs: AdminLogEvent holds one   *)
(* row per row of the audit, activity, security and domain tables, written  *)
(* after the source transaction has committed and only as far as that       *)
(* works.  The rows of an AI request also show figures of its history row   *)
(* (AiRequestEvent), which is persisted later and copied over then.         *)
(*                                                                          *)
(* Three scripts work on the read model while the API runs: the backfill    *)
(* writes rows anew from their sources, the repair rebuilds the rows there  *)
(* are and removes the copies that domain rows of AI requests are, and      *)
(* prune removes rows past their retention.  A page walk reads it.  An      *)
(* action is one statement, or one transaction, of the program.             *)
(***************************************************************************)
EXTENDS Integers, Sequences, FiniteSets

CONSTANTS
  Rows,        \* rows of the source tables: numbers, in the order of their ids
  Stream,      \* the stream of each row
  Time,        \* its createdAt, set when its request begins
  Recording,   \* the call that commits it, with the other rows of that call
  AiCalls,     \* the calls that record a request of the AI proxy
  Persists,    \* how often the history of each such request is persisted: twice for uploads
  Legacy,      \* domain rows of AI requests that an earlier release has projected
  Keep,        \* for how long prune leaves a row: for ever, where it spares its stream
  Scopes,      \* the rows that --stream, --from and --to leave a backfill
  BackfillBatch, RepairBatch, PruneLimit,   \* rows that each script reads at a time
  PageSize,
  MaxNow,      \* bound: the clock
  MaxRuns      \* bound: runs of the scripts and page walks

ASSUME RowsAssumption ==
  /\ IsFiniteSet(Rows) /\ Rows \subseteq Nat \ {0}
  /\ Stream \in [Rows -> {"audit", "activity", "security", "domain"}]
  /\ Time \in [Rows -> Nat] /\ Keep \in [Rows -> Nat]
  /\ Persists \in [AiCalls -> Nat]
  /\ \A scope \in Scopes : scope \subseteq Rows
ASSUME SizesAssumption ==
  {BackfillBatch, RepairBatch, PruneLimit, PageSize} \subseteq Nat \ {0}

VARIABLES
  source,      \* rows committed to the source tables
  owed,        \* rows committed whose recorder has yet to write them to the read model
  ai,          \* version of the history row of each AI request, 0 before there is one
  syncs,       \* versions persisted whose copy to the read model is due
  log,         \* AdminLogEvent
  lost,        \* history: AI requests with a read-model write that failed
  removed,     \* history: rows that have left the read model
  backfill, repair, prune, walk,
  now, runs

tables == <<source, owed, ai, syncs, lost>>
jobs   == <<backfill, repair, prune, walk>>
vars   == <<tables, log, removed, jobs, now, runs>>

Absent   == [cost |-> -1, text |-> FALSE]
Shown(r) == log[r] # Absent

RowsOf(c)  == {r \in Rows : Recording[r] = c}
IsAi(r)    == Recording[r] \in AiCalls
\* ai.proxy.* domain events say what an activity row says; they are not projected.
Skipped(r) == Stream[r] = "domain" /\ IsAi(r)

\* The version of the history row that a join finds for a row.
Joined(r) == IF IsAi(r) THEN ai[Recording[r]] ELSE 0

\* Every reader orders rows by time, then by id.
Before(a, b) == Time[a] < Time[b] \/ (Time[a] = Time[b] /\ a < b)

NoCursor == 0
\* Mistake: rows as old as the cursor are taken for read.
AfterTime(S, c) == IF c = NoCursor THEN S ELSE {r \in S : Time[c] < Time[r]}

After(S, c) == IF c = NoCursor THEN S ELSE {r \in S : Before(c, r)}

\* The first n rows of S.
FirstRows(S, n) ==
  {r \in S : Cardinality({s \in S : Before(s, r)}) < n}

First(S) == CHOOSE r \in S : \A s \in S \ {r} : Before(r, s)
Last(S)  == CHOOSE r \in S : \A s \in S \ {r} : Before(s, r)

Off == [pc |-> "off"]

\* What an earlier release has left: its calls with their rows, of which the read model
\* shows the copies and some of the others, without the figures of their history.
OldCalls == {Recording[r] : r \in Legacy}
OldRows  == UNION {RowsOf(c) : c \in OldCalls}

Init ==
  /\ source = OldRows
  /\ owed = {}
  /\ ai = [c \in AiCalls |-> IF c \in OldCalls THEN Persists[c] ELSE 0]
  /\ syncs = {}
  /\ \E shown \in SUBSET OldRows :
        /\ Legacy \subseteq shown
        /\ log = [r \in Rows |-> IF r \in shown THEN [cost |-> 0, text |-> FALSE] ELSE Absent]
  /\ lost = OldCalls
  /\ removed = {}
  /\ backfill = Off /\ repair = Off /\ prune = Off /\ walk = Off
  /\ now = 0
  /\ runs = 0

-----------------------------------------------------------------------------
(* The API: source rows, their projection, the history of AI requests       *)

\* recordProxyEvent and the like: the rows of a call, in one transaction.
Record(c) ==
  /\ RowsOf(c) \ source # {}
  /\ source' = source \cup RowsOf(c)
  /\ owed' = owed \cup {r \in RowsOf(c) : ~Skipped(r)}
  /\ UNCHANGED <<ai, syncs, lost, log, removed, jobs, now, runs>>

\* Mistake: fields without a value are written as null.
UpsertedNull(r, version) == [cost |-> version, text |-> version > 0]

\* What an upsert leaves: without a history row it sets no figures, as a field that is
\* undefined is not written, but rewrites the search text.
Upserted(r, version) ==
  [cost |-> IF version > 0 THEN version ELSE IF Shown(r) THEN log[r].cost ELSE 0,
   text |-> version > 0]

\* upsertAdminLogEventsBestEffort, for one row.
Project(r) ==
  /\ r \in owed
  /\ owed' = owed \ {r}
  /\ log' = [log EXCEPT ![r] = Upserted(r, Joined(r))]
  /\ UNCHANGED <<source, ai, syncs, lost, removed, jobs, now, runs>>

\* One upsert fails and is logged; or the actors cannot be read or the process dies, and
\* no row of the call is written any more.
ProjectFails(r) ==
  /\ r \in owed
  /\ owed' \in {owed \ {r}, owed \ RowsOf(Recording[r])}
  /\ lost' = lost \cup {Recording[r]}
  /\ UNCHANGED <<source, ai, syncs, log, removed, jobs, now, runs>>

\* persistContent, up to the commit of the history row.  It is called when the call that
\* records the request has returned.
Persist(c) ==
  /\ RowsOf(c) \subseteq source /\ RowsOf(c) \cap owed = {}
  /\ ai[c] < Persists[c]
  /\ ai' = [ai EXCEPT ![c] = @ + 1]
  /\ syncs' = syncs \cup {<<c, ai[c] + 1>>}
  /\ repair' = IF repair.pc = "off" THEN repair ELSE [repair EXCEPT !.clean = FALSE]
  /\ UNCHANGED <<source, owed, lost, log, removed, backfill, prune, walk, now, runs>>

\* syncAdminAiLogEventsFromAiRequestEvent updates the rows of the request there are.
Sync(s) ==
  /\ s \in syncs
  /\ syncs' = syncs \ {s}
  /\ log' = [r \in Rows |-> IF Recording[r] = s[1] /\ Shown(r)
                              THEN [log[r] EXCEPT !.cost = s[2]] ELSE log[r]]
  /\ UNCHANGED <<source, owed, ai, lost, removed, jobs, now, runs>>

SyncFails(s) ==
  /\ s \in syncs
  /\ syncs' = syncs \ {s}
  /\ lost' = lost \cup {s[1]}
  /\ UNCHANGED <<source, owed, ai, log, removed, jobs, now, runs>>

-----------------------------------------------------------------------------
(* The backfill                                                             *)

Streams == <<"audit", "activity", "security", "domain">>

StartsRun == runs < MaxRuns /\ runs' = runs + 1

BackfillStart(scope) ==
  /\ backfill.pc \in {"off", "done"} /\ StartsRun
  /\ backfill' = [pc |-> "read", scope |-> scope, stream |-> 1, cursor |-> NoCursor,
                   todo |-> {}, found |-> <<>>,
                   due |-> {r \in scope \cap source : ~Skipped(r)}]
  /\ repair' = IF repair.pc = "off" THEN repair ELSE [repair EXCEPT !.clean = FALSE]
  /\ UNCHANGED <<tables, log, removed, prune, walk, now>>

\* The next rows of the stream after the cursor, less those that are skipped.
BackfillRead ==
  LET rest  == After({r \in backfill.scope \cap source : Stream[r] = Streams[backfill.stream]},
                     backfill.cursor)
      batch == FirstRows(rest, BackfillBatch)
  IN  /\ backfill.pc = "read"
      /\ backfill' =
           IF batch # {}
             THEN [backfill EXCEPT !.pc = "join", !.cursor = Last(batch),
                                   !.todo = {r \in batch : ~Skipped(r)}]
           ELSE IF backfill.stream < Len(Streams)
             THEN [backfill EXCEPT !.stream = @ + 1, !.cursor = NoCursor]
           ELSE [pc |-> "done", due |-> backfill.due]
      /\ UNCHANGED <<tables, log, removed, repair, prune, walk, now, runs>>

\* upsertBatch reads the history rows of the batch, then writes its rows one by one.
BackfillJoin ==
  /\ backfill.pc = "join"
  /\ backfill' = [backfill EXCEPT !.pc = IF backfill.todo = {} THEN "read" ELSE "write",
                                  !.found = [r \in backfill.todo |-> Joined(r)]]
  /\ UNCHANGED <<tables, log, removed, repair, prune, walk, now, runs>>

BackfillWrite ==
  LET r == First(backfill.todo)
  IN  /\ backfill.pc = "write"
      /\ log' = [log EXCEPT ![r] = Upserted(r, backfill.found[r])]
      /\ backfill' = IF backfill.todo = {r} THEN [backfill EXCEPT !.pc = "read", !.todo = {}, !.found = <<>>]
                     ELSE [backfill EXCEPT !.todo = @ \ {r}]
      /\ UNCHANGED <<tables, removed, repair, prune, walk, now, runs>>

\* The script dies, or a statement of it fails and ends it.
BackfillDies ==
  /\ backfill.pc \notin {"off", "done"}
  /\ backfill' = Off
  /\ UNCHANGED <<tables, log, removed, repair, prune, walk, now, runs>>

-----------------------------------------------------------------------------
(* The repair                                                               *)

RepairStart ==
  /\ repair.pc \in {"off", "done"} /\ StartsRun
  /\ repair' = [pc |-> "read", cursor |-> NoCursor, rows |-> <<>>, found |-> <<>>,
                 todo |-> {}, copies |-> {},
                 clean |-> syncs = {} /\ backfill.pc \in {"off", "done"}]
  /\ UNCHANGED <<tables, log, removed, backfill, prune, walk, now>>

RepairRead ==
  LET batch == FirstRows(After({r \in Rows : Shown(r)}, repair.cursor), RepairBatch)
  IN  /\ repair.pc = "read"
      /\ repair' = IF batch = {} THEN [pc |-> "done", clean |-> repair.clean]
                   ELSE [repair EXCEPT !.pc = "join", !.cursor = Last(batch), !.todo = batch,
                                       !.rows = [r \in batch |-> log[r]]]
      /\ UNCHANGED <<tables, log, removed, backfill, prune, walk, now, runs>>

RepairJoin ==
  /\ repair.pc = "join"
  /\ repair' = [repair EXCEPT !.pc = "write", !.found = [r \in repair.todo |-> Joined(r)]]
  /\ UNCHANGED <<tables, log, removed, backfill, prune, walk, now, runs>>

Rebuilt(version) == [cost |-> version, text |-> version > 0]

RepairNext(r) ==
  repair' = [repair EXCEPT !.todo = @ \ {r},
                           !.pc = IF repair.todo = {r} THEN "twins" ELSE "write"]

\* A row that is as it should be, as read, is left alone.
RepairKeeps ==
  LET r == First(repair.todo)
  IN  /\ repair.pc = "write"
      /\ repair.rows[r] = Rebuilt(repair.found[r])
      /\ RepairNext(r)
      /\ UNCHANGED <<tables, log, removed, backfill, prune, walk, now, runs>>

\* Mistake: a row whose figures are right is left alone, whatever its search text.
RepairWriteFigures ==
  LET r == First(repair.todo)
  IN  /\ repair.pc = "write"
      /\ repair.rows[r] # Rebuilt(repair.found[r]) /\ Shown(r)
      /\ log' = [log EXCEPT ![r].text = repair.found[r] > 0]
      /\ RepairNext(r)
      /\ UNCHANGED <<tables, removed, backfill, prune, walk, now, runs>>

RepairWrite ==
  LET r == First(repair.todo)
  IN  /\ repair.pc = "write"
      /\ repair.rows[r] # Rebuilt(repair.found[r]) /\ Shown(r)
      /\ log' = [log EXCEPT ![r] = Rebuilt(repair.found[r])]
      /\ RepairNext(r)
      /\ UNCHANGED <<tables, removed, backfill, prune, walk, now, runs>>

\* Activity rows of the same request, by which a domain row is a copy.
Twins(r) == {a \in Rows : Stream[a] = "activity" /\ Recording[a] = Recording[r]}

\* Mistake: every domain row of an AI request counts as a copy.
RepairTwinsUnseen ==
  /\ repair.pc = "twins"
  /\ repair' = [repair EXCEPT !.pc = "delete", !.copies = {r \in DOMAIN repair.rows : Skipped(r)}]
  /\ UNCHANGED <<tables, log, removed, backfill, prune, walk, now, runs>>

RepairTwins ==
  /\ repair.pc = "twins"
  /\ repair' = [repair EXCEPT !.pc = "delete",
                  !.copies = {r \in DOMAIN repair.rows :
                                Skipped(r) /\ \E a \in Twins(r) : Shown(a)}]
  /\ UNCHANGED <<tables, log, removed, backfill, prune, walk, now, runs>>

Delete(S) ==
  /\ log' = [r \in Rows |-> IF r \in S THEN Absent ELSE log[r]]
  /\ removed' = removed \cup {r \in S : Shown(r)}

RepairDelete ==
  /\ repair.pc = "delete"
  /\ Delete(repair.copies)
  /\ repair' = [repair EXCEPT !.pc = "read", !.copies = {}, !.rows = <<>>, !.found = <<>>]
  /\ UNCHANGED <<tables, backfill, prune, walk, now, runs>>

\* The script dies, or updates a row that prune has removed.
RepairDies ==
  /\ repair.pc \notin {"off", "done"}
  /\ repair' = Off
  /\ UNCHANGED <<tables, log, removed, backfill, prune, walk, now, runs>>

-----------------------------------------------------------------------------
(* Retention, and reading                                                   *)

Expired(r) == Time[r] + Keep[r] < now

PruneStart ==
  /\ prune.pc = "off" /\ StartsRun
  /\ prune' = [pc |-> "read", batch |-> {}, more |-> FALSE]
  /\ UNCHANGED <<tables, log, removed, backfill, repair, walk, now>>

PruneRead ==
  LET old == {r \in Rows : Shown(r) /\ Expired(r)}
  IN  /\ prune.pc = "read"
      /\ prune' = IF old = {} THEN Off
                  ELSE [pc |-> "delete", batch |-> FirstRows(old, PruneLimit),
                         more |-> Cardinality(old) >= PruneLimit]
      /\ UNCHANGED <<tables, log, removed, backfill, repair, walk, now, runs>>

\* A full batch may not have been the last.
PruneDelete ==
  /\ prune.pc = "delete"
  /\ Delete(prune.batch)
  /\ prune' = IF prune.more THEN [prune EXCEPT !.pc = "read", !.batch = {}] ELSE Off
  /\ UNCHANGED <<tables, backfill, repair, walk, now, runs>>

WalkStart ==
  /\ walk.pc \in {"off", "done"} /\ StartsRun
  /\ walk' = [pc |-> "page", cursor |-> NoCursor, seen |-> {}, twice |-> {},
               there |-> {r \in Rows : Shown(r)}]
  /\ UNCHANGED <<tables, log, removed, backfill, repair, prune, now>>

Older(S, c) == IF c = NoCursor THEN S ELSE {r \in S : Before(r, c)}

\* Mistake: the cursor of the next page is the first row after this one.
PageFromNext ==
  LET rest == Older({r \in Rows : Shown(r)}, walk.cursor)
      page == rest \ FirstRows(rest, Cardinality(rest) - PageSize)
  IN  /\ walk.pc = "page"
      /\ walk' = [walk EXCEPT !.seen = @ \cup page, !.twice = @ \cup (walk.seen \cap page),
                              !.pc = IF page = rest THEN "done" ELSE "page",
                              !.cursor = IF page = rest THEN @ ELSE Last(rest \ page)]
      /\ UNCHANGED <<tables, log, removed, backfill, repair, prune, now, runs>>

\* listPage: the newest rows before the cursor, which then is the oldest of them.
Page ==
  LET rest == Older({r \in Rows : Shown(r)}, walk.cursor)
      page == rest \ FirstRows(rest, Cardinality(rest) - PageSize)
  IN  /\ walk.pc = "page"
      /\ walk' = [walk EXCEPT !.seen = @ \cup page, !.twice = @ \cup (walk.seen \cap page),
                              !.pc = IF page = rest THEN "done" ELSE "page",
                              !.cursor = IF page = rest THEN @ ELSE First(page)]
      /\ UNCHANGED <<tables, log, removed, backfill, repair, prune, now, runs>>

Tick ==
  /\ now < MaxNow
  /\ now' = now + 1
  /\ UNCHANGED <<tables, log, removed, jobs, runs>>

Next ==
  \/ \E c \in {Recording[r] : r \in Rows} : Record(c)
  \/ \E r \in owed : Project(r) \/ ProjectFails(r)
  \/ \E c \in AiCalls : Persist(c)
  \/ \E s \in syncs : Sync(s) \/ SyncFails(s)
  \/ \E scope \in Scopes : BackfillStart(scope)
  \/ BackfillRead \/ BackfillJoin \/ BackfillWrite \/ BackfillDies
  \/ RepairStart \/ RepairRead \/ RepairJoin \/ RepairKeeps \/ RepairWrite \/ RepairTwins
  \/ RepairDelete \/ RepairDies
  \/ PruneStart \/ PruneRead \/ PruneDelete
  \/ WalkStart \/ Page
  \/ Tick

Spec == Init /\ [][Next]_vars

-----------------------------------------------------------------------------
(* Properties                                                              *)

\* A row of the read model has its row in a source table, so that the rows of a stream can
\* be counted against their sources, as verifyCounts does.
LogHasSource == \A r \in Rows : Shown(r) => r \in source

\* A backfill that ends has left no gap: of the rows committed when it began, within its
\* scope, none is missing but those that a script has removed, whatever recorders, repairs
\* and prune runs did meanwhile.
BackfillLeavesNoGap ==
  backfill.pc = "done" => \A r \in backfill.due : Shown(r) \/ r \in removed

\* The figures of a request whose history has been persisted once come to stand in each of its
\* rows, although recorder, history, backfill and repair write the row in any order; but
\* for rows of which a write failed, and those removed and written again.
CostShownWhenCalm ==
  \A r \in Rows :
    LET c == Recording[r]
    IN  /\ Shown(r) /\ r \notin removed
        /\ c \in AiCalls \ lost /\ ai[c] = 1
        /\ \A s \in syncs : s[1] # c
        => log[r].cost = 1

\* A repair that ends, and during which no history was persisted and no backfill ran, leaves
\* every row as its sources have it, whatever went wrong before.
RepairedRowsAgree ==
  repair.pc = "done" /\ repair.clean =>
    \A r \in Rows : Shown(r) => log[r] = Rebuilt(Joined(r))

\* A row leaves the read model when its retention is over, or as the copy of an activity
\* row that is still shown, unless the retention of that one is over.
RowsLeaveForAReason ==
  [][\A r \in Rows : Shown(r) /\ ~Shown(r)' =>
       \/ Expired(r)
       \/ Skipped(r) /\ \E a \in Twins(r) : Shown(a)' \/ Expired(a)]_vars

\* A walk through the pages shows every row that was there all the while, once, though rows
\* are written and removed between two pages.
WalkSeesStableRows ==
  LET stable == walk.there \ removed
  IN  walk.pc = "done" => stable \subseteq walk.seen /\ stable \cap walk.twice = {}

=============================================================================
