------------------------------ MODULE AdminLogProofs ------------------------------
(***************************************************************************)
(* Theorems of AdminLog, for any rows, calls, scopes and sizes.             *)
(*                                                                         *)
(* Rows are ordered by time and then by id, so that a finite set of them has *)
(* a first, a last and first n (BeforeOrders to the lemmas on FirstRows).    *)
(* What each script keeps is an invariant of its own: the backfill has        *)
(* written, holds or has yet to read each row that is due (BackfillInv); the  *)
(* repair deletes copies whose activity row it saw and which nobody but prune *)
(* removes (RepairInv); prune deletes what had expired when it read           *)
(* (PruneInv); a walk has seen the rows not older than its cursor (WalkInv).  *)
(* The figures of the rows have an invariant on top of these (Figures), and    *)
(* SettingsCache, of which MCAdminLog has an instance, one of its own.        *)
(***************************************************************************)
EXTENDS MCAdminLog, FiniteSetTheorems, WellFoundedInduction, TLAPS

-----------------------------------------------------------------------------
(* The order of the rows                                                    *)

LEMMA BeforeOrders ==
  /\ \A r \in Rows : ~Before(r, r)
  /\ \A r, s \in Rows : r # s => Before(r, s) \/ Before(s, r)
  /\ \A r, s, t \in Rows : Before(r, s) /\ Before(s, t) => Before(r, t)
  BY RowsAssumption DEF Before

\* In a set of finite sets, one has no other inside it.
LEMMA SmallestSet ==
  ASSUME NEW F, F # {}, \A U \in F : U \in SUBSET Rows
  PROVE  \E U \in F : \A V \in F : V \subseteq U => V = U
<1>1. F \subseteq FiniteSubsetsOf(Rows)
  BY RowsAssumption, FS_Subset DEF FiniteSubsetsOf
<1>2. PICK U \in F : \A V \in F : ~(<<V, U>> \in StrictSubsetOrdering(Rows))
  BY <1>1, FS_StrictSubsetOrderingWellFounded, WFMin
<1>3. ASSUME NEW V \in F, V \subseteq U PROVE V = U
  BY <1>2, <1>3 DEF StrictSubsetOrdering
<1> QED
  BY <1>2, <1>3

LEMMA FirstIn ==
  ASSUME NEW S, S \subseteq Rows, S # {}
  PROVE  /\ First(S) \in S
         /\ \A s \in S \ {First(S)} : Before(First(S), s)
<1> DEFINE Lower(r) == {s \in S : Before(s, r)}
           F        == {Lower(r) : r \in S}
<1>1. PICK U \in F : \A V \in F : V \subseteq U => V = U
  <2>1. F # {} /\ \A U \in F : U \in SUBSET Rows
    OBVIOUS
  <2> HIDE DEF F
  <2> QED
    BY <2>1, SmallestSet
<1>2. PICK r \in S : U = Lower(r)
  OBVIOUS
<1>3. ASSUME NEW s \in Lower(r) PROVE FALSE
  <2>1. s \in S /\ Before(s, r)
    BY <1>3
  <2>2. Lower(s) \subseteq Lower(r)
    BY <2>1, BeforeOrders
  <2>3. Lower(s) = Lower(r)
    BY <1>1, <1>2, <2>1, <2>2
  <2>4. s \notin Lower(s)
    BY <2>1, BeforeOrders
  <2> QED
    BY <1>3, <2>3, <2>4
<1>4. \A s \in S \ {r} : Before(r, s)
  BY <1>3, BeforeOrders
<1> HIDE DEF Lower, F
<1> QED
  BY <1>4 DEF First

LEMMA LastIn ==
  ASSUME NEW S, S \subseteq Rows, S # {}
  PROVE  /\ Last(S) \in S
         /\ \A s \in S \ {Last(S)} : Before(s, Last(S))
<1> DEFINE Upper(r) == {s \in S : Before(r, s)}
           F        == {Upper(r) : r \in S}
<1>1. PICK U \in F : \A V \in F : V \subseteq U => V = U
  <2>1. F # {} /\ \A U \in F : U \in SUBSET Rows
    OBVIOUS
  <2> HIDE DEF F
  <2> QED
    BY <2>1, SmallestSet
<1>2. PICK r \in S : U = Upper(r)
  OBVIOUS
<1>3. ASSUME NEW s \in Upper(r) PROVE FALSE
  <2>1. s \in S /\ Before(r, s)
    BY <1>3
  <2>2. Upper(s) \subseteq Upper(r)
    BY <2>1, BeforeOrders
  <2>3. Upper(s) = Upper(r)
    BY <1>1, <1>2, <2>1, <2>2
  <2>4. s \notin Upper(s)
    BY <2>1, BeforeOrders
  <2> QED
    BY <1>3, <2>3, <2>4
<1>4. \A s \in S \ {r} : Before(s, r)
  BY <1>3, BeforeOrders
<1> HIDE DEF Upper, F
<1> QED
  BY <1>4 DEF Last

\* The first rows of a set: with a row come those before it; one of a set that is not empty
\* is among the first; and the last one is not among all but a few.
LEMMA FirstRowsBefore ==
  ASSUME NEW S, S \subseteq Rows, NEW n \in Int,
         NEW r \in FirstRows(S, n), NEW s \in S, Before(s, r)
  PROVE  s \in FirstRows(S, n)
<1> DEFINE L == {t \in S : Before(t, s)}
           M == {t \in S : Before(t, r)}
<1>1. r \in S /\ Cardinality(M) < n
  BY DEF FirstRows
<1>2. L \subseteq M
  BY <1>1, BeforeOrders
<1>3. IsFiniteSet(M)
  BY RowsAssumption, FS_Subset
<1>4. Cardinality(L) <= Cardinality(M) /\ Cardinality(L) \in Nat /\ Cardinality(M) \in Nat
  <2> HIDE DEF L, M
  <2> QED
    BY <1>2, <1>3, FS_Subset, FS_CardinalityType
<1>5. Cardinality(L) < n
  <2> HIDE DEF L, M
  <2> QED
    BY <1>1, <1>4
<1> QED
  BY <1>5 DEF FirstRows

LEMMA FirstRowsOfSome ==
  ASSUME NEW S, S \subseteq Rows, S # {}, NEW n \in Nat \ {0}
  PROVE  FirstRows(S, n) # {} /\ FirstRows(S, n) \subseteq S
<1>1. {s \in S : Before(s, First(S))} = {}
  BY FirstIn, BeforeOrders
<1>2. Cardinality({s \in S : Before(s, First(S))}) < n
  BY <1>1, FS_EmptySet
<1> QED
  BY <1>2, FirstIn DEF FirstRows

LEMMA FirstRowsLeaveLast ==
  ASSUME NEW S, S \subseteq Rows, S # {}, NEW k \in Nat \ {0}
  PROVE  Last(S) \notin FirstRows(S, Cardinality(S) - k)
<1>1. {s \in S : Before(s, Last(S))} = S \ {Last(S)}
  BY LastIn, BeforeOrders
<1>2. IsFiniteSet(S)
  BY RowsAssumption, FS_Subset
<1>3. Cardinality(S \ {Last(S)}) = Cardinality(S) - 1 /\ Cardinality(S) \in Nat
  BY <1>2, FS_RemoveElement, FS_CardinalityType, LastIn
<1> QED
  BY <1>1, <1>3 DEF FirstRows

-----------------------------------------------------------------------------
(* The invariant                                                            *)

Written == [cost : Nat, text : BOOLEAN]

Typed ==
  /\ source \subseteq Rows /\ owed \subseteq source
  /\ ai \in [AiCalls -> Nat]
  /\ \A s \in syncs : s[2] \in Nat
  /\ log \in [Rows -> {Absent} \cup Written]
  /\ now \in Nat

\* Rows that the backfill has read, if they were there by then.
Passed(r) ==
  \/ \E k \in 1 .. (backfill.stream - 1) : Stream[r] = Streams[k]
  \/ /\ Stream[r] = Streams[backfill.stream]
     /\ backfill.cursor # NoCursor /\ ~Before(backfill.cursor, r)

\* Rows that it has read are in the read model, or it is about to write them.
BackfillInv ==
  /\ backfill.pc \in {"off", "read", "join", "write", "done"}
  /\ backfill.pc \in {"read", "join", "write"} =>
       /\ backfill = [pc |-> backfill.pc, scope |-> backfill.scope, stream |-> backfill.stream,
                       cursor |-> backfill.cursor, todo |-> backfill.todo,
                       found |-> backfill.found, due |-> backfill.due]
       /\ backfill.scope \subseteq Rows /\ backfill.stream \in 1 .. 4
       /\ backfill.cursor \in {NoCursor} \cup Rows
       /\ backfill.todo \subseteq source
       /\ backfill.due \subseteq backfill.scope \cap source
       /\ \A r \in backfill.due : ~Skipped(r)
       /\ \A r \in backfill.due : Passed(r) => Shown(r) \/ r \in removed \/ r \in backfill.todo
  /\ backfill.pc = "read" => backfill.todo = {}
  /\ backfill.pc = "write" => backfill.todo # {} /\ \A r \in backfill.todo : backfill.found[r] \in Nat
  /\ backfill.pc = "done" => backfill.due \subseteq Rows
  /\ BackfillLeavesNoGap

\* A copy that the repair is about to delete has its twin, or had it until that expired.
RepairInv ==
  /\ repair.pc \in {"off", "read", "join", "write", "twins", "delete", "done"}
  /\ repair.pc \in {"read", "join", "write", "twins", "delete"} =>
       /\ repair = [pc |-> repair.pc, cursor |-> repair.cursor, rows |-> repair.rows,
                     found |-> repair.found, todo |-> repair.todo, copies |-> repair.copies,
                     clean |-> repair.clean]
       /\ repair.todo \subseteq Rows
  /\ repair.pc = "done" => repair = [pc |-> "done", clean |-> repair.clean]
  /\ repair.pc = "join" => repair.todo # {}
  /\ repair.pc = "write" => repair.todo # {} /\ \A r \in repair.todo : repair.found[r] \in Nat
  /\ repair.pc \in {"join", "write", "twins"} => DOMAIN repair.rows \subseteq Rows
  /\ repair.pc = "delete" =>
       \A r \in repair.copies : /\ r \in Rows /\ Skipped(r)
                                /\ \E a \in Twins(r) : Shown(a) \/ Expired(a)

\* The rows that prune is about to delete have expired.
PruneInv ==
  /\ prune.pc \in {"off", "read", "delete"}
  /\ prune.pc # "off" => prune = [pc |-> prune.pc, batch |-> prune.batch, more |-> prune.more]
  /\ prune.pc = "delete" => \A r \in prune.batch : r \in Rows /\ Expired(r)

\* The walk has seen none of the rows it has still to come to, and all the others it found
\* there when it began, but those removed since.
WalkInv ==
  /\ walk.pc \in {"off", "page", "done"}
  /\ walk.pc # "off" =>
       /\ walk = [pc |-> walk.pc, cursor |-> walk.cursor, seen |-> walk.seen,
                   twice |-> walk.twice, there |-> walk.there]
       /\ walk.there \subseteq Rows /\ walk.twice = {}
       /\ \A r \in walk.there : Shown(r) \/ r \in removed
  /\ walk.pc = "page" =>
       /\ walk.cursor \in {NoCursor} \cup Rows
       /\ walk.seen \cap Older(Rows, walk.cursor) = {}
       /\ \A r \in walk.there : r \in walk.seen \/ r \in removed \/ r \in Older(Rows, walk.cursor)
  /\ WalkSeesStableRows

Inv == Typed /\ LogHasSource /\ BackfillInv /\ RepairInv /\ PruneInv /\ WalkInv

\* What every step does to the tables.
Leaves(r) ==
  Expired(r) \/ (Skipped(r) /\ \E a \in Twins(r) : Shown(a)' \/ Expired(a))

TablesMove ==
  /\ Typed' /\ LogHasSource'
  /\ source \subseteq source' /\ removed \subseteq removed' /\ now <= now'
  /\ \A r \in Rows : Shown(r) /\ ~Shown(r)' => r \in removed' /\ Leaves(r)

LEMMA InitEstablishes == ASSUME Init PROVE Inv
<1>1. OldRows \subseteq Rows
  BY DEF OldRows, RowsOf
<1>2. Typed
  BY <1>1, RowsAssumption DEF Init, Typed, Absent, Written
<1>3. LogHasSource
  BY <1>1 DEF Init, LogHasSource, Shown
<1>4. BackfillInv /\ RepairInv /\ PruneInv /\ WalkInv
  BY DEF Init, Off, BackfillInv, BackfillLeavesNoGap, RepairInv, PruneInv, WalkInv,
         WalkSeesStableRows
<1> QED
  BY <1>2, <1>3, <1>4 DEF Inv

LEMMA Expires ==
  ASSUME NEW r \in Rows, now \in Nat, now' \in Nat, now <= now', Expired(r)
  PROVE  Expired(r)'
  BY RowsAssumption DEF Expired

\* A job that takes no step finds its invariant kept.
LEMMA BackfillWaits == ASSUME Inv, TablesMove, UNCHANGED backfill PROVE BackfillInv'
<1>1. \A r \in Rows : Shown(r) \/ r \in removed => Shown(r)' \/ r \in removed'
  BY DEF TablesMove
<1>2. backfill.pc = "done" => backfill.due \subseteq Rows
  BY DEF Inv, BackfillInv
<1>3. BackfillLeavesNoGap'
  BY <1>1, <1>2 DEF Inv, BackfillInv, BackfillLeavesNoGap
<1>4. ASSUME backfill.pc \in {"read", "join", "write"}, NEW r \in backfill.due, Passed(r)'
      PROVE  Shown(r)' \/ r \in removed' \/ r \in backfill.todo
  <2>1. Passed(r)
    BY <1>4 DEF Passed
  <2>2. r \in Rows
    BY <1>4 DEF Inv, BackfillInv, Typed
  <2> QED
    BY <1>1, <1>4, <2>1, <2>2 DEF Inv, BackfillInv
<1>5. source \subseteq source'
  BY DEF TablesMove
<1> QED
  BY <1>3, <1>4, <1>5 DEF Inv, BackfillInv

LEMMA TwinIsActivity ==
  ASSUME NEW r, NEW a \in Twins(r) PROVE a \in Rows /\ ~Skipped(a)
  BY DEF Twins, Skipped

LEMMA CopiesStay ==
  ASSUME Inv, TablesMove, repair.pc = "delete", NEW r \in repair.copies
  PROVE  r \in Rows /\ Skipped(r) /\ (\E a \in Twins(r) : Shown(a) \/ Expired(a))'
<1>1. r \in Rows /\ Skipped(r) /\ \E a \in Twins(r) : Shown(a) \/ Expired(a)
  BY DEF Inv, RepairInv
<1>2. PICK a \in Twins(r) : Shown(a) \/ Expired(a)
  BY <1>1
<1>3. a \in Rows /\ ~Skipped(a)
  BY TwinIsActivity
<1>4. now \in Nat /\ now' \in Nat /\ now <= now'
  BY DEF Inv, TablesMove, Typed
<1>5. Shown(a)' \/ Expired(a)
  BY <1>2, <1>3 DEF TablesMove, Leaves
<1>6. Shown(a)' \/ Expired(a)'
  BY <1>3, <1>4, <1>5, Expires
<1> QED
  BY <1>1, <1>6 DEF Twins

LEMMA RepairWaits ==
  ASSUME Inv, TablesMove,
         \/ UNCHANGED repair
         \/ repair' = IF repair.pc = "off" THEN repair ELSE [repair EXCEPT !.clean = FALSE]
  PROVE  RepairInv'
<1>1. repair'.pc = "delete" => repair.pc = "delete" /\ repair'.copies = repair.copies
  BY DEF Inv, RepairInv
<1>2. repair'.pc = "delete" =>
        \A r \in repair'.copies : /\ r \in Rows /\ Skipped(r)
                                  /\ (\E a \in Twins(r) : Shown(a) \/ Expired(a))'
  BY <1>1, CopiesStay
<1>3. /\ repair'.pc = repair.pc
      /\ repair'.pc \in {"read", "join", "write", "twins", "delete"} =>
           /\ repair' = [pc |-> repair'.pc, cursor |-> repair'.cursor, rows |-> repair'.rows,
                          found |-> repair'.found, todo |-> repair'.todo,
                          copies |-> repair'.copies, clean |-> repair'.clean]
           /\ repair'.todo = repair.todo /\ repair'.found = repair.found
           /\ repair'.rows = repair.rows
      /\ repair'.pc = "done" => repair' = [pc |-> "done", clean |-> repair'.clean]
  BY DEF Inv, RepairInv
<1> QED
  BY <1>2, <1>3 DEF Inv, RepairInv, Skipped, IsAi, Twins

LEMMA PruneWaits == ASSUME Inv, TablesMove, UNCHANGED prune PROVE PruneInv'
<1>1. now \in Nat /\ now' \in Nat /\ now <= now'
  BY DEF Inv, TablesMove, Typed
<1> QED
  BY <1>1, Expires DEF Inv, PruneInv

LEMMA WalkWaits == ASSUME Inv, TablesMove, UNCHANGED walk PROVE WalkInv'
<1>1. \A r \in Rows : Shown(r) \/ r \in removed => Shown(r)' \/ r \in removed'
  BY DEF TablesMove
<1>2. removed \subseteq removed'
  BY DEF TablesMove
<1> QED
  BY <1>1, <1>2 DEF Inv, WalkInv, WalkSeesStableRows, Older, Before

-----------------------------------------------------------------------------
(* What the actions do to the tables                                        *)

LEMMA TablesStay ==
  ASSUME Inv, UNCHANGED <<source, owed, ai, log, removed, now>>,
         \A s \in syncs' : s \in syncs \/ s[2] \in Nat
  PROVE  TablesMove
  BY DEF Inv, TablesMove, Typed, LogHasSource, Shown

\* A row is written.
LEMMA RowWritten ==
  ASSUME Inv, UNCHANGED <<source, ai, syncs, removed, now>>, owed' \subseteq owed,
         NEW r \in source, NEW v \in Written, log' = [log EXCEPT ![r] = v]
  PROVE  TablesMove /\ Shown(r)' /\ \A q \in Rows : Shown(q) => Shown(q)'
<1>1. v # Absent
  BY DEF Written, Absent
<1>2. \A q \in Rows : log'[q] = IF q = r THEN v ELSE log[q]
  BY DEF Inv, Typed
<1>3. r \in Rows
  BY DEF Inv, Typed
<1> QED
  BY <1>1, <1>2, <1>3 DEF Inv, TablesMove, Typed, LogHasSource, Shown

LEMMA UpsertWrites ==
  ASSUME Typed, NEW r \in Rows, NEW n \in Nat
  PROVE  Upserted(r, n) \in Written
<1>1. log[r] # Absent => log[r].cost \in Nat
  BY DEF Typed, Written
<1> QED
  BY <1>1 DEF Upserted, Written, Shown

LEMMA JoinFinds ==
  ASSUME Typed, NEW r \in Rows PROVE Joined(r) \in Nat
  BY DEF Typed, Joined, IsAi

\* Rows are deleted that have a reason to leave.
LEMMA RowsDeleted ==
  ASSUME Inv, NEW S, Delete(S), UNCHANGED <<tables, now>>, \A r \in S : r \in Rows /\ Leaves(r)
  PROVE  TablesMove
<1>1. \A q \in Rows : log'[q] = IF q \in S THEN Absent ELSE log[q]
  BY DEF Delete
<1>2. removed \subseteq removed' /\ \A q \in Rows : Shown(q) /\ ~Shown(q)' => q \in removed' /\ q \in S
  BY <1>1 DEF Delete, Shown
<1>3. Typed' /\ LogHasSource'
  BY <1>1 DEF Delete, Inv, Typed, LogHasSource, Shown, tables
<1>4. now <= now' /\ source \subseteq source'
  BY DEF Inv, Typed, tables
<1> QED
  BY <1>2, <1>3, <1>4 DEF TablesMove

\* An action of the API leaves the jobs alone, the repair's mark aside.
LEMMA JobsWait ==
  ASSUME Inv, TablesMove, UNCHANGED <<backfill, prune, walk>>,
         \/ UNCHANGED repair
         \/ repair' = IF repair.pc = "off" THEN repair ELSE [repair EXCEPT !.clean = FALSE]
  PROVE  Inv'
  BY BackfillWaits, RepairWaits, PruneWaits, WalkWaits DEF Inv, TablesMove

LEMMA ApiKeeps ==
  ASSUME Inv,
         \/ \E c \in {Recording[r] : r \in Rows} : Record(c)
         \/ \E r \in owed : Project(r) \/ ProjectFails(r)
         \/ \E c \in AiCalls : Persist(c)
         \/ \E s \in syncs : Sync(s) \/ SyncFails(s)
         \/ Tick
  PROVE  TablesMove /\ Inv'
<1>1. TablesMove
  <2>1. ASSUME NEW c, Record(c) PROVE TablesMove
    BY <2>1 DEF Record, RowsOf, Inv, TablesMove, Typed, LogHasSource, Shown, jobs
  <2>2. ASSUME NEW r \in owed, Project(r) PROVE TablesMove
    <3>1. r \in source /\ r \in Rows
      BY DEF Inv, Typed
    <3>2. Upserted(r, Joined(r)) \in Written
      BY <3>1, JoinFinds, UpsertWrites DEF Inv
    <3> QED
      BY <2>2, <3>1, <3>2, RowWritten DEF Project
  <2>3. ASSUME NEW r \in owed, ProjectFails(r) PROVE TablesMove
    BY <2>3 DEF ProjectFails, Inv, TablesMove, Typed, LogHasSource, Shown
  <2>4. ASSUME NEW c \in AiCalls, Persist(c) PROVE TablesMove
    BY <2>4 DEF Persist, Inv, TablesMove, Typed, LogHasSource, Shown
  <2>5. ASSUME NEW s \in syncs, Sync(s) PROVE TablesMove
    <3>1. s[2] \in Nat
      BY DEF Inv, Typed
    <3>2. \A r \in Rows : log'[r] = IF Recording[r] = s[1] /\ Shown(r)
                                    THEN [log[r] EXCEPT !.cost = s[2]] ELSE log[r]
      BY <2>5 DEF Sync
    <3>3. \A r \in Rows : Shown(r) => log[r] \in Written /\ [log[r] EXCEPT !.cost = s[2]] \in Written
      BY <3>1 DEF Inv, Typed, Shown, Written
    <3>4. Absent \notin Written
      BY DEF Absent, Written
    <3>5. \A r \in Rows : Shown(r)' <=> Shown(r)
      BY <3>2, <3>3, <3>4 DEF Shown
    <3>6. log' \in [Rows -> {Absent} \cup Written]
      <4>1. \A r \in Rows : log'[r] \in {Absent} \cup Written
        BY <3>2, <3>3 DEF Inv, Typed
      <4> QED
        BY <2>5, <4>1 DEF Sync
    <3> QED
      BY <2>5, <3>5, <3>6 DEF Sync, Inv, TablesMove, Typed, LogHasSource
  <2>6. ASSUME NEW s \in syncs, SyncFails(s) PROVE TablesMove
    BY <2>6 DEF SyncFails, Inv, TablesMove, Typed, LogHasSource, Shown
  <2>7. ASSUME Tick PROVE TablesMove
    BY <2>7 DEF Tick, Inv, TablesMove, Typed, LogHasSource, Shown, tables
  <2> QED
    BY <2>1, <2>2, <2>3, <2>4, <2>5, <2>6, <2>7
<1>2. /\ UNCHANGED <<backfill, prune, walk>>
      /\ \/ UNCHANGED repair
         \/ repair' = IF repair.pc = "off" THEN repair ELSE [repair EXCEPT !.clean = FALSE]
  BY DEF Record, Project, ProjectFails, Persist, Sync, SyncFails, Tick, jobs
<1> QED
  BY <1>1, <1>2, JobsWait

-----------------------------------------------------------------------------
(* The jobs' own actions                                                    *)

LEMMA BackfillStartKeeps ==
  ASSUME Inv, NEW scope \in Scopes, BackfillStart(scope) PROVE TablesMove /\ Inv'
<1>1. TablesMove
  BY TablesStay DEF BackfillStart, tables
<1>2. scope \subseteq Rows
  BY RowsAssumption
<1>3. BackfillInv'
  <2>1. backfill' = [pc |-> "read", scope |-> scope, stream |-> 1, cursor |-> NoCursor,
                      todo |-> {}, found |-> <<>>,
                      due |-> {r \in scope \cap source : ~Skipped(r)}]
    BY DEF BackfillStart
  <2>3. UNCHANGED source
    BY DEF BackfillStart, tables
  <2> QED
    BY <1>2, <2>1, <2>3 DEF BackfillInv, BackfillLeavesNoGap, Passed, Skipped, IsAi
<1>4. RepairInv' /\ PruneInv' /\ WalkInv'
  BY <1>1, RepairWaits, PruneWaits, WalkWaits DEF BackfillStart
<1> QED
  BY <1>1, <1>3, <1>4 DEF Inv, TablesMove

\* The rows of the stream there are, up to the cursor, are passed when the batch is read.
LEMMA BackfillReadKeeps == ASSUME Inv, BackfillRead PROVE TablesMove /\ Inv'
<1> DEFINE todoRows == {r \in backfill.scope \cap source : Stream[r] = Streams[backfill.stream]}
<1>1. TablesMove
  BY TablesStay DEF BackfillRead, tables
<1>2. RepairInv' /\ PruneInv' /\ WalkInv'
  BY <1>1, RepairWaits, PruneWaits, WalkWaits DEF BackfillRead
<1>3. PICK rest : rest = After(todoRows, backfill.cursor)
  OBVIOUS
<1>4. PICK batch : batch = FirstRows(rest, BackfillBatch)
  OBVIOUS
<1>5. backfill.pc = "read" /\ backfill.todo = {} /\ UNCHANGED <<source, removed, log>>
  BY DEF BackfillRead, Inv, BackfillInv, tables
<1>6. /\ backfill.scope \subseteq Rows /\ backfill.stream \in 1 .. 4
      /\ backfill.cursor \in {NoCursor} \cup Rows
      /\ backfill.due \subseteq backfill.scope \cap source
      /\ \A r \in backfill.due : ~Skipped(r)
      /\ \A r \in backfill.due : Passed(r) => Shown(r) \/ r \in removed
      /\ backfill = [pc |-> backfill.pc, scope |-> backfill.scope, stream |-> backfill.stream,
                      cursor |-> backfill.cursor, todo |-> backfill.todo,
                      found |-> backfill.found, due |-> backfill.due]
  BY <1>5 DEF Inv, BackfillInv
<1>7. rest \subseteq todoRows /\ todoRows \subseteq Rows /\ batch \subseteq rest
  BY <1>3, <1>4, <1>6 DEF After, FirstRows
<1>8. \A r \in todoRows : r \notin rest => backfill.cursor # NoCursor /\ ~Before(backfill.cursor, r)
  BY <1>3 DEF After
<1>9. CASE batch # {}
  <2>1. backfill' = [backfill EXCEPT !.pc = "join", !.cursor = Last(batch),
                                     !.todo = {r \in batch : ~Skipped(r)}]
    BY <1>3, <1>4, <1>9 DEF BackfillRead
  <2>2. Last(batch) \in batch /\ \A s \in batch \ {Last(batch)} : Before(s, Last(batch))
    BY <1>7, <1>9, LastIn
  <2>3. \A r \in rest : ~Before(Last(batch), r) => r \in batch
    <3>1. ASSUME NEW r \in rest, ~Before(Last(batch), r), r \notin batch PROVE FALSE
      <4>1. Before(r, Last(batch))
        BY <1>7, <2>2, <3>1, BeforeOrders
      <4> QED
        BY <1>4, <1>7, <2>2, <3>1, <4>1, FirstRowsBefore, SizesAssumption
    <3> QED
      BY <3>1
  <2>4. ASSUME NEW r \in backfill.due, Passed(r)'
        PROVE  Passed(r) \/ r \in backfill'.todo
    <3>1. backfill'.stream = backfill.stream /\ backfill'.cursor = Last(batch)
          /\ backfill'.todo = {q \in batch : ~Skipped(q)}
      BY <1>6, <2>1
    <3>2. CASE \E k \in 1 .. (backfill.stream - 1) : Stream[r] = Streams[k]
      BY <3>2 DEF Passed
    <3>3. CASE Stream[r] = Streams[backfill.stream] /\ ~Before(Last(batch), r)
      <4>1. r \in todoRows
        BY <1>6, <3>3
      <4>2. r \in rest => r \in batch
        BY <2>3, <3>3
      <4> QED
        BY <1>6, <1>8, <3>1, <3>3, <4>1, <4>2 DEF Passed
    <3> QED
      BY <2>4, <3>1, <3>2, <3>3 DEF Passed, Before
  <2>5. NoCursor \notin batch /\ Last(batch) \in Rows /\ batch \subseteq source
    BY <1>7, <2>2, RowsAssumption DEF NoCursor
  <2>6. /\ backfill'.pc = "join" /\ backfill'.scope = backfill.scope
        /\ backfill'.stream = backfill.stream /\ backfill'.cursor = Last(batch)
        /\ backfill'.todo \subseteq source /\ backfill'.due = backfill.due
        /\ backfill' = [pc |-> backfill'.pc, scope |-> backfill'.scope,
                         stream |-> backfill'.stream, cursor |-> backfill'.cursor,
                         todo |-> backfill'.todo, found |-> backfill'.found,
                         due |-> backfill'.due]
    BY <1>6, <2>1, <2>5
  <2> QED
    BY <1>1, <1>2, <1>5, <1>6, <2>4, <2>5, <2>6
    DEF Inv, TablesMove, BackfillInv, BackfillLeavesNoGap, Shown, Skipped, IsAi
<1>10. CASE batch = {}
  <2>1. rest = {}
    BY <1>4, <1>7, <1>10, FirstRowsOfSome, SizesAssumption
  <2>2. ASSUME NEW r \in backfill.due, Stream[r] = Streams[backfill.stream] PROVE Passed(r)
    BY <1>6, <1>8, <2>1, <2>2 DEF Passed
  <2>3. CASE backfill.stream < 4
    <3>1. backfill' = [backfill EXCEPT !.stream = @ + 1, !.cursor = NoCursor]
      BY <1>3, <1>4, <1>10, <2>3 DEF BackfillRead, Streams
    <3>2. /\ backfill'.pc = "read" /\ backfill'.scope = backfill.scope
          /\ backfill'.stream = backfill.stream + 1 /\ backfill'.cursor = NoCursor
          /\ backfill'.todo = {} /\ backfill'.due = backfill.due
          /\ backfill' = [pc |-> backfill'.pc, scope |-> backfill'.scope,
                           stream |-> backfill'.stream, cursor |-> backfill'.cursor,
                           todo |-> backfill'.todo, found |-> backfill'.found,
                           due |-> backfill'.due]
      BY <1>5, <1>6, <3>1
    <3>3. ASSUME NEW r \in backfill.due, Passed(r)' PROVE Passed(r)
      <4>1. PICK k \in 1 .. backfill.stream : Stream[r] = Streams[k]
        BY <1>6, <3>2, <3>3 DEF Passed
      <4>2. CASE k = backfill.stream
        BY <2>2, <4>1, <4>2
      <4>3. CASE k \in 1 .. (backfill.stream - 1)
        BY <4>1, <4>3 DEF Passed
      <4> QED
        BY <1>6, <4>2, <4>3
    <3> QED
      BY <1>1, <1>2, <1>5, <1>6, <2>3, <3>2, <3>3
      DEF Inv, TablesMove, BackfillInv, BackfillLeavesNoGap, Shown, Skipped, IsAi
  <2>4. CASE backfill.stream = 4
    <3>1. backfill' = [pc |-> "done", due |-> backfill.due]
      BY <1>3, <1>4, <1>10, <2>4 DEF BackfillRead, Streams
    <3>2. ASSUME NEW r \in backfill.due PROVE Passed(r)
      <4>1. r \in Rows
        BY <1>6
      <4>2. Stream[r] \in {"audit", "activity", "security", "domain"}
        BY <4>1, RowsAssumption
      <4>3. PICK k \in 1 .. 4 : Stream[r] = Streams[k]
        BY <4>2 DEF Streams
      <4>4. CASE k = 4
        BY <2>2, <2>4, <4>3, <4>4
      <4>5. CASE k \in 1 .. 3
        BY <2>4, <4>3, <4>5 DEF Passed
      <4> QED
        BY <4>4, <4>5
    <3> QED
      BY <1>1, <1>2, <1>5, <1>6, <3>1, <3>2
      DEF Inv, TablesMove, BackfillInv, BackfillLeavesNoGap, Shown
  <2> QED
    BY <1>6, <2>3, <2>4
<1> QED
  BY <1>9, <1>10

LEMMA BackfillJoinKeeps == ASSUME Inv, BackfillJoin PROVE TablesMove /\ Inv'
<1>1. TablesMove
  BY TablesStay DEF BackfillJoin, tables
<1>2. RepairInv' /\ PruneInv' /\ WalkInv'
  BY <1>1, RepairWaits, PruneWaits, WalkWaits DEF BackfillJoin
<1>3. \A r \in backfill.todo : Joined(r) \in Nat
  BY JoinFinds DEF Inv, BackfillInv, BackfillJoin, Typed
<1>4. /\ backfill.pc = "join"
      /\ backfill' = [pc |-> IF backfill.todo = {} THEN "read" ELSE "write",
                       scope |-> backfill.scope, stream |-> backfill.stream,
                       cursor |-> backfill.cursor, todo |-> backfill.todo,
                       found |-> [r \in backfill.todo |-> Joined(r)], due |-> backfill.due]
  BY DEF Inv, BackfillInv, BackfillJoin
<1>5. UNCHANGED <<source, removed, log>>
  BY DEF BackfillJoin, tables
<1>6. \A r \in backfill.due : Passed(r)' => Passed(r)
  BY <1>4 DEF Passed, Before
<1>7. backfill'.pc = "write" => backfill'.todo # {} /\ \A r \in backfill'.todo : backfill'.found[r] \in Nat
  BY <1>3, <1>4
<1>8. /\ backfill'.pc \in {"read", "write"} /\ backfill'.scope = backfill.scope
      /\ backfill'.stream = backfill.stream /\ backfill'.cursor = backfill.cursor
      /\ backfill'.todo = backfill.todo /\ backfill'.due = backfill.due
      /\ backfill'.pc = "read" => backfill.todo = {}
      /\ backfill' = [pc |-> backfill'.pc, scope |-> backfill'.scope,
                       stream |-> backfill'.stream, cursor |-> backfill'.cursor,
                       todo |-> backfill'.todo, found |-> backfill'.found,
                       due |-> backfill'.due]
  BY <1>4
<1> QED
  BY <1>1, <1>2, <1>4, <1>5, <1>6, <1>7, <1>8
  DEF Inv, TablesMove, BackfillInv, BackfillLeavesNoGap, Shown, Skipped, IsAi

LEMMA BackfillWriteKeeps == ASSUME Inv, BackfillWrite PROVE TablesMove /\ Inv'
<1>1. /\ backfill.pc = "write" /\ backfill.todo # {} /\ backfill.todo \subseteq source
      /\ source \subseteq Rows /\ \A r \in backfill.todo : backfill.found[r] \in Nat
  BY DEF BackfillWrite, Inv, BackfillInv, Typed
<1>2. PICK r : r = First(backfill.todo)
  OBVIOUS
<1>3. r \in backfill.todo
  BY <1>1, <1>2, FirstIn
<1>4. Upserted(r, backfill.found[r]) \in Written
  BY <1>1, <1>3, UpsertWrites DEF Inv
<1>5. log' = [log EXCEPT ![r] = Upserted(r, backfill.found[r])]
  BY <1>2 DEF BackfillWrite
<1>6. TablesMove /\ Shown(r)' /\ \A q \in Rows : Shown(q) => Shown(q)'
  BY <1>1, <1>3, <1>4, <1>5, RowWritten DEF BackfillWrite, tables
<1>7. RepairInv' /\ PruneInv' /\ WalkInv'
  BY <1>6, RepairWaits, PruneWaits, WalkWaits DEF BackfillWrite
<1>8. /\ backfill'.pc \in {"read", "write"} /\ backfill'.scope = backfill.scope
      /\ backfill'.stream = backfill.stream /\ backfill'.cursor = backfill.cursor
      /\ backfill'.todo = backfill.todo \ {r} /\ backfill'.due = backfill.due
      /\ backfill'.pc = "read" => backfill'.todo = {}
      /\ backfill'.pc = "write" => backfill'.todo # {} /\ backfill'.found = backfill.found
      /\ backfill' = [pc |-> backfill'.pc, scope |-> backfill'.scope,
                       stream |-> backfill'.stream, cursor |-> backfill'.cursor,
                       todo |-> backfill'.todo, found |-> backfill'.found,
                       due |-> backfill'.due]
  BY <1>1, <1>2, <1>3 DEF BackfillWrite, Inv, BackfillInv
<1>9. \A q \in backfill.due : Passed(q)' => Passed(q)
  BY <1>8 DEF Passed, Before
<1>10. UNCHANGED <<source, removed>>
  BY DEF BackfillWrite, tables
<1>11. \A q \in backfill.due : Passed(q)' => Shown(q)' \/ q \in removed' \/ q \in backfill'.todo
  BY <1>1, <1>6, <1>8, <1>9, <1>10 DEF Inv, BackfillInv
<1> QED
  BY <1>1, <1>6, <1>7, <1>8, <1>10, <1>11
  DEF Inv, TablesMove, BackfillInv, BackfillLeavesNoGap, Skipped, IsAi

LEMMA BackfillDiesKeeps == ASSUME Inv, BackfillDies PROVE TablesMove /\ Inv'
<1>1. TablesMove
  BY TablesStay DEF BackfillDies, tables
<1>2. RepairInv' /\ PruneInv' /\ WalkInv'
  BY <1>1, RepairWaits, PruneWaits, WalkWaits DEF BackfillDies
<1>3. BackfillInv'
  BY DEF BackfillDies, Off, BackfillInv, BackfillLeavesNoGap
<1> QED
  BY <1>1, <1>2, <1>3 DEF Inv, TablesMove

\* The repair's step has left its state as RepairInv has it.
LEMMA RepairSteps ==
  ASSUME Inv, TablesMove, UNCHANGED <<backfill, prune, walk>>, RepairInv'
  PROVE  Inv'
  BY BackfillWaits, PruneWaits, WalkWaits DEF Inv, TablesMove

LEMMA RepairQuietKeeps ==
  ASSUME Inv, RepairStart \/ RepairRead \/ RepairJoin \/ RepairTwins \/ RepairDies
  PROVE  TablesMove /\ Inv'
<1>1. TablesMove
  BY TablesStay DEF RepairStart, RepairRead, RepairJoin, RepairTwins, RepairDies, tables
<1>2. UNCHANGED <<backfill, prune, walk>>
  BY DEF RepairStart, RepairRead, RepairJoin, RepairTwins, RepairDies
<1>3. ASSUME RepairStart PROVE RepairInv'
  BY <1>3 DEF RepairStart, RepairInv
<1>4. ASSUME RepairRead PROVE RepairInv'
  <2>1. PICK shown : shown = {r \in Rows : Shown(r)}
    OBVIOUS
  <2>2. PICK batch : batch = FirstRows(After(shown, repair.cursor), RepairBatch)
    OBVIOUS
  <2>3. batch \subseteq Rows
    BY <2>1, <2>2 DEF After, FirstRows
  <2>4. repair.pc = "read"
        /\ repair = [pc |-> repair.pc, cursor |-> repair.cursor, rows |-> repair.rows,
                      found |-> repair.found, todo |-> repair.todo, copies |-> repair.copies,
                      clean |-> repair.clean]
    BY <1>4 DEF RepairRead, Inv, RepairInv
  <2>5. CASE batch = {}
    BY <1>4, <2>1, <2>2, <2>5 DEF RepairRead, RepairInv
  <2>6. CASE batch # {}
    <3>1. repair' = [repair EXCEPT !.pc = "join", !.cursor = Last(batch), !.todo = batch,
                                   !.rows = [r \in batch |-> log[r]]]
      BY <1>4, <2>1, <2>2, <2>6 DEF RepairRead
    <3>2. repair' = [pc |-> "join", cursor |-> Last(batch), rows |-> [r \in batch |-> log[r]],
                      found |-> repair.found, todo |-> batch, copies |-> repair.copies,
                      clean |-> repair.clean]
      BY <2>4, <3>1
    <3> QED
      BY <2>3, <2>6, <3>2 DEF RepairInv
  <2> QED
    BY <2>5, <2>6
<1>5. ASSUME RepairJoin PROVE RepairInv'
  <2>1. \A r \in repair.todo : Joined(r) \in Nat
    BY <1>5, JoinFinds DEF Inv, RepairInv, RepairJoin
  <2>2. repair' = [pc |-> "write", cursor |-> repair.cursor, rows |-> repair.rows,
                    found |-> [r \in repair.todo |-> Joined(r)], todo |-> repair.todo,
                    copies |-> repair.copies, clean |-> repair.clean]
    BY <1>5 DEF Inv, RepairInv, RepairJoin
  <2>3. repair.todo # {} /\ repair.todo \subseteq Rows /\ DOMAIN repair.rows \subseteq Rows
    BY <1>5 DEF Inv, RepairInv, RepairJoin
  <2>4. \A r \in repair'.todo : repair'.found[r] \in Nat
    BY <2>1, <2>2
  <2> QED
    BY <2>2, <2>3, <2>4 DEF RepairInv
<1>6. ASSUME RepairTwins PROVE RepairInv'
  <2>1. PICK copies : copies = {r \in DOMAIN repair.rows :
                                  Skipped(r) /\ \E a \in Twins(r) : Shown(a)}
    OBVIOUS
  <2>2. repair' = [pc |-> "delete", cursor |-> repair.cursor, rows |-> repair.rows,
                    found |-> repair.found, todo |-> repair.todo,
                    copies |-> copies, clean |-> repair.clean]
    BY <1>6, <2>1 DEF Inv, RepairInv, RepairTwins
  <2>3. DOMAIN repair.rows \subseteq Rows /\ repair.todo \subseteq Rows /\ log' = log
    BY <1>6 DEF Inv, RepairInv, RepairTwins
  <2>4. \A r \in copies : r \in Rows /\ Skipped(r) /\ \E a \in Twins(r) : Shown(a)'
    BY <2>1, <2>3 DEF Shown
  <2> QED
    BY <2>2, <2>3, <2>4 DEF RepairInv, Skipped, IsAi, Twins
<1>7. ASSUME RepairDies PROVE RepairInv'
  BY <1>7 DEF RepairDies, Off, RepairInv
<1> QED
  BY <1>1, <1>2, <1>3, <1>4, <1>5, <1>6, <1>7, RepairSteps

LEMMA RepairRowKeeps ==
  ASSUME Inv, RepairKeeps \/ RepairWrite PROVE TablesMove /\ Inv'
<1>1. PICK r : r = First(repair.todo)
  OBVIOUS
<1>2. /\ repair.pc = "write" /\ repair.todo # {} /\ repair.todo \subseteq Rows
      /\ \A q \in repair.todo : repair.found[q] \in Nat
      /\ DOMAIN repair.rows \subseteq Rows
      /\ repair = [pc |-> repair.pc, cursor |-> repair.cursor, rows |-> repair.rows,
                    found |-> repair.found, todo |-> repair.todo, copies |-> repair.copies,
                    clean |-> repair.clean]
  BY DEF RepairKeeps, RepairWrite, Inv, RepairInv
<1>3. r \in repair.todo
  BY <1>1, <1>2, FirstIn
<1>4. RepairInv'
  <2>1. repair' = [repair EXCEPT !.todo = @ \ {r},
                                 !.pc = IF repair.todo = {r} THEN "twins" ELSE "write"]
    BY <1>1 DEF RepairKeeps, RepairWrite, RepairNext
  <2>2. repair' = [pc |-> IF repair.todo = {r} THEN "twins" ELSE "write",
                    cursor |-> repair.cursor, rows |-> repair.rows, found |-> repair.found,
                    todo |-> repair.todo \ {r}, copies |-> repair.copies,
                    clean |-> repair.clean]
    BY <1>2, <2>1
  <2>3. repair'.pc = "write" => repair'.todo # {}
    BY <1>3, <2>2
  <2> QED
    BY <1>2, <2>2, <2>3 DEF RepairInv
<1>5. TablesMove
  <2>1. CASE RepairKeeps
    BY <2>1, TablesStay DEF RepairKeeps, tables
  <2>2. CASE RepairWrite
    <3>1. r \in source
      BY <1>1, <1>2, <1>3, <2>2 DEF RepairWrite, Inv, LogHasSource
    <3>2. Rebuilt(repair.found[r]) \in Written
      BY <1>2, <1>3 DEF Rebuilt, Written
    <3> QED
      BY <1>1, <2>2, <3>1, <3>2, RowWritten DEF RepairWrite, tables
  <2> QED
    BY <2>1, <2>2
<1> QED
  BY <1>4, <1>5, RepairSteps DEF RepairKeeps, RepairWrite

LEMMA RepairDeleteKeeps == ASSUME Inv, RepairDelete PROVE TablesMove /\ Inv'
<1>1. repair.pc = "delete" /\ Delete(repair.copies) /\ UNCHANGED <<tables, now>>
  BY DEF RepairDelete
<1>2. ASSUME NEW r \in repair.copies PROVE r \in Rows /\ Leaves(r)
  <2>1. r \in Rows /\ Skipped(r) /\ \E a \in Twins(r) : Shown(a) \/ Expired(a)
    BY <1>1 DEF Inv, RepairInv
  <2>2. PICK a \in Twins(r) : Shown(a) \/ Expired(a)
    BY <2>1
  <2>3. a \in Rows /\ a \notin repair.copies
    BY <1>1, TwinIsActivity DEF Inv, RepairInv
  <2>4. Shown(a) => Shown(a)'
    BY <1>1, <2>3 DEF Delete, Shown
  <2> QED
    BY <2>1, <2>2, <2>4 DEF Leaves
<1>3. TablesMove
  BY <1>1, <1>2, RowsDeleted
<1>4. RepairInv'
  <2>1. repair' = [pc |-> "read", cursor |-> repair.cursor, rows |-> <<>>, found |-> <<>>,
                    todo |-> repair.todo, copies |-> {}, clean |-> repair.clean]
    BY DEF RepairDelete, Inv, RepairInv
  <2> QED
    BY <1>1, <2>1 DEF Inv, RepairInv
<1> QED
  BY <1>3, <1>4, RepairSteps DEF RepairDelete

LEMMA PruneKeeps ==
  ASSUME Inv, PruneStart \/ PruneRead \/ PruneDelete PROVE TablesMove /\ Inv'
<1>1. TablesMove
  <2>1. CASE PruneStart \/ PruneRead
    BY <2>1, TablesStay DEF PruneStart, PruneRead, tables
  <2>2. CASE PruneDelete
    <3>1. \A r \in prune.batch : r \in Rows /\ Leaves(r)
      BY <2>2 DEF PruneDelete, Inv, PruneInv, Leaves
    <3> QED
      BY <2>2, <3>1, RowsDeleted DEF PruneDelete
  <2> QED
    BY <2>1, <2>2
<1>2. PruneInv'
  <2>1. CASE PruneStart
    BY <2>1 DEF PruneStart, PruneInv
  <2>2. CASE PruneRead
    <3>1. PICK old : old = {r \in Rows : Shown(r) /\ Expired(r)}
      OBVIOUS
    <3>2. FirstRows(old, PruneLimit) \subseteq old
      BY DEF FirstRows
    <3>3. \A r \in old : r \in Rows /\ Expired(r)'
      BY <2>2, <3>1 DEF PruneRead, Expired
    <3> QED
      BY <2>2, <3>1, <3>2, <3>3 DEF PruneRead, PruneInv, Off
  <2>3. CASE PruneDelete
    BY <2>3 DEF PruneDelete, Inv, PruneInv, Off
  <2> QED
    BY <2>1, <2>2, <2>3
<1> QED
  BY <1>1, <1>2, BackfillWaits, RepairWaits, WalkWaits
  DEF PruneStart, PruneRead, PruneDelete, Inv, TablesMove

LEMMA WalkStartKeeps == ASSUME Inv, WalkStart PROVE TablesMove /\ Inv'
<1>1. TablesMove
  BY TablesStay DEF WalkStart, tables
<1>2. PICK there : there = {r \in Rows : Shown(r)}
  OBVIOUS
<1>3. walk' = [pc |-> "page", cursor |-> NoCursor, seen |-> {}, twice |-> {}, there |-> there]
  BY <1>2 DEF WalkStart
<1>4. WalkInv'
  BY <1>2, <1>3 DEF WalkStart, WalkInv, WalkSeesStableRows, Older, Shown
<1> QED
  BY <1>1, <1>4, BackfillWaits, RepairWaits, PruneWaits DEF WalkStart, Inv, TablesMove

LEMMA WalkSteps ==
  ASSUME Inv, TablesMove, UNCHANGED <<backfill, repair, prune>>, WalkInv' PROVE Inv'
  BY BackfillWaits, RepairWaits, PruneWaits DEF Inv, TablesMove

LEMMA PageKeeps == ASSUME Inv, Page PROVE TablesMove /\ Inv'
<1>1. TablesMove
  BY TablesStay DEF Page, tables
<1>2. PICK shown : shown = {r \in Rows : Shown(r)}
  OBVIOUS
<1>3. PICK rest : rest = Older(shown, walk.cursor)
  OBVIOUS
<1>4. PICK page : page = rest \ FirstRows(rest, Cardinality(rest) - PageSize)
  OBVIOUS
<1>5. /\ walk.pc = "page" /\ walk.there \subseteq Rows /\ walk.twice = {}
      /\ walk.cursor \in {NoCursor} \cup Rows
      /\ walk.seen \cap Older(Rows, walk.cursor) = {}
      /\ \A r \in walk.there : Shown(r) \/ r \in removed
      /\ \A r \in walk.there : r \in walk.seen \/ r \in removed \/ r \in Older(Rows, walk.cursor)
      /\ walk = [pc |-> walk.pc, cursor |-> walk.cursor, seen |-> walk.seen,
                  twice |-> walk.twice, there |-> walk.there]
  BY DEF Page, Inv, WalkInv
<1>6. rest \subseteq Older(Rows, walk.cursor) /\ rest \subseteq Rows /\ page \subseteq rest
  BY <1>2, <1>3, <1>4 DEF Older
<1>7. walk.seen \cap page = {}
  BY <1>5, <1>6
<1>8. ASSUME NEW r \in walk.there, r \notin removed PROVE r \in walk.seen \/ r \in rest
  BY <1>2, <1>3, <1>5, <1>8 DEF Older
<1>9. walk' = [pc |-> IF page = rest THEN "done" ELSE "page",
                cursor |-> IF page = rest THEN walk.cursor ELSE First(page),
                seen |-> walk.seen \cup page, twice |-> walk.twice \cup (walk.seen \cap page),
                there |-> walk.there]
  BY <1>2, <1>3, <1>4, <1>5 DEF Page
<1>10. UNCHANGED <<log, removed>>
  BY DEF Page
<1>11. CASE page = rest
  <2>1. \A r \in walk'.there : r \notin removed => r \in walk'.seen
    BY <1>8, <1>9, <1>11
  <2>2. walk'.twice = {}
    BY <1>5, <1>7, <1>9
  <2>3. WalkInv'
    BY <1>5, <1>9, <1>10, <1>11, <2>1, <2>2 DEF WalkInv, WalkSeesStableRows, Shown
  <2> QED
    BY <1>1, <2>3, WalkSteps DEF Page
<1>12. CASE page # rest
  <2>1. rest # {}
    BY <1>6, <1>12
  <2>2. Last(rest) \in page
    BY <1>4, <1>6, <2>1, LastIn, FirstRowsLeaveLast, SizesAssumption
  <2>3. First(page) \in page /\ \A s \in page \ {First(page)} : Before(First(page), s)
    BY <1>6, <2>2, FirstIn
  <2>4. \A r \in rest \ page : Before(r, First(page))
    <3>1. Cardinality(rest) \in Nat
      BY <1>6, RowsAssumption, FS_Subset, FS_CardinalityType
    <3>2. ASSUME NEW r \in rest \ page, ~Before(r, First(page)) PROVE FALSE
      <4>1. Before(First(page), r)
        BY <1>6, <2>3, <3>2, BeforeOrders
      <4>2. r \in FirstRows(rest, Cardinality(rest) - PageSize)
        BY <1>4, <3>2
      <4>3. First(page) \in FirstRows(rest, Cardinality(rest) - PageSize)
        BY <1>6, <2>3, <3>1, <4>1, <4>2, FirstRowsBefore, SizesAssumption
      <4> QED
        BY <1>4, <2>3, <4>3
    <3> QED
      BY <3>2
  <2>5. First(page) \in Rows /\ First(page) # NoCursor
    BY <1>6, <2>3, RowsAssumption DEF NoCursor
  <2>6. First(page) \in Older(Rows, walk.cursor)
    BY <1>6, <2>3
  <2>7. Older(Rows, First(page)) \subseteq Older(Rows, walk.cursor)
    BY <1>5, <2>5, <2>6, BeforeOrders DEF Older
  <2>8. page \cap Older(Rows, First(page)) = {}
    BY <1>6, <2>3, <2>5, BeforeOrders DEF Older
  <2>9. \A r \in rest \ page : r \in Older(Rows, First(page))
    BY <1>6, <2>4, <2>5 DEF Older
  <2>10. walk'.seen \cap Older(Rows, walk'.cursor) = {}
    BY <1>5, <1>9, <1>12, <2>7, <2>8
  <2>11. \A r \in walk'.there : r \in walk'.seen \/ r \in removed \/ r \in Older(Rows, walk'.cursor)
    BY <1>8, <1>9, <1>12, <2>9
  <2>12. (Older(Rows, walk.cursor))' = Older(Rows, walk'.cursor)
    BY DEF Older, Before
  <2>13. walk'.twice = {} /\ walk'.pc = "page" /\ walk'.cursor \in Rows /\ walk'.there = walk.there
    BY <1>5, <1>7, <1>9, <1>12, <2>5
  <2>14. walk' = [pc |-> walk'.pc, cursor |-> walk'.cursor, seen |-> walk'.seen,
                   twice |-> walk'.twice, there |-> walk'.there]
    BY <1>9
  <2>15. WalkInv'
    BY <1>5, <1>10, <2>10, <2>11, <2>12, <2>13, <2>14 DEF WalkInv, WalkSeesStableRows, Shown
  <2> QED
    BY <1>1, <2>15, WalkSteps DEF Page
<1> QED
  BY <1>11, <1>12

-----------------------------------------------------------------------------
(* Theorems                                                                 *)

LEMMA NextKeeps == ASSUME Inv, Next PROVE TablesMove /\ Inv'
<1>1. CASE \/ \E c \in {Recording[r] : r \in Rows} : Record(c)
           \/ \E r \in owed : Project(r) \/ ProjectFails(r)
           \/ \E c \in AiCalls : Persist(c)
           \/ \E s \in syncs : Sync(s) \/ SyncFails(s)
           \/ Tick
  BY <1>1, ApiKeeps
<1>2. CASE \E scope \in Scopes : BackfillStart(scope)
  BY <1>2, BackfillStartKeeps
<1>3. CASE BackfillRead \/ BackfillJoin \/ BackfillWrite \/ BackfillDies
  BY <1>3, BackfillReadKeeps, BackfillJoinKeeps, BackfillWriteKeeps, BackfillDiesKeeps
<1>4. CASE RepairStart \/ RepairRead \/ RepairJoin \/ RepairTwins \/ RepairDies
  BY <1>4, RepairQuietKeeps
<1>5. CASE RepairKeeps \/ RepairWrite \/ RepairDelete
  BY <1>5, RepairRowKeeps, RepairDeleteKeeps
<1>6. CASE PruneStart \/ PruneRead \/ PruneDelete
  BY <1>6, PruneKeeps
<1>7. CASE WalkStart \/ Page
  BY <1>7, WalkStartKeeps, PageKeeps
<1> QED
  BY <1>1, <1>2, <1>3, <1>4, <1>5, <1>6, <1>7 DEF Next

LEMMA StutterKeeps == ASSUME Inv, UNCHANGED vars PROVE Inv'
<1>1. TablesMove
  BY TablesStay DEF vars, tables
<1> QED
  BY <1>1, JobsWait DEF vars, jobs

LEMMA Invariance == Spec => []Inv
<1>1. Init => Inv
  BY InitEstablishes
<1>2. Inv /\ [Next]_vars => Inv'
  BY NextKeeps, StutterKeeps
<1> QED
  BY <1>1, <1>2, PTL DEF Spec

\* A row of the read model has its source row: the recorders, the backfill and the repair
\* write none but those.
THEOREM LogHasSourceCorrect == Spec => []LogHasSource
<1>1. Inv => LogHasSource
  BY DEF Inv
<1> QED
  BY <1>1, Invariance, PTL

\* A backfill that ends has left none of its rows missing, but those removed: the cursor
\* of each stream passes a row only with the batch it is in.
THEOREM BackfillLeavesNoGapCorrect == Spec => []BackfillLeavesNoGap
<1>1. Inv => BackfillLeavesNoGap
  BY DEF Inv, BackfillInv
<1> QED
  BY <1>1, Invariance, PTL

\* A walk through the pages shows every row that stays, once.
THEOREM WalkSeesStableRowsCorrect == Spec => []WalkSeesStableRows
<1>1. Inv => WalkSeesStableRows
  BY DEF Inv, WalkInv
<1> QED
  BY <1>1, Invariance, PTL

\* Neither prune nor the repair removes a row without its reason, although each acts on
\* what it read before.
THEOREM RowsLeaveForAReasonCorrect == Spec => RowsLeaveForAReason
<1>1. Inv /\ [Next]_vars =>
        [\A r \in Rows : Shown(r) /\ ~Shown(r)' =>
           \/ Expired(r)
           \/ Skipped(r) /\ \E a \in Twins(r) : Shown(a)' \/ Expired(a)]_vars
  <2>1. ASSUME Inv, Next
        PROVE  \A r \in Rows : Shown(r) /\ ~Shown(r)' =>
                 \/ Expired(r)
                 \/ Skipped(r) /\ \E a \in Twins(r) : Shown(a)' \/ Expired(a)
    BY <2>1, NextKeeps DEF TablesMove, Leaves
  <2> QED
    BY <2>1
<1> QED
  BY <1>1, Invariance, PTL DEF Spec, RowsLeaveForAReason

-----------------------------------------------------------------------------
(* Figures                                                                  *)
(*                                                                         *)
(* Nothing that is written is ahead of the history, and the history is ahead  *)
(* of what is written only while a copy of it is due (TablesFigures).  A        *)
(* script that has found no history writes no figure over one (RepairFigures).  *)

\* Figures that are not ahead of a version of the history row.
NotAhead(v, version) == v.cost <= version /\ (v.text => version > 0)

\* When the history of a request is persisted, its rows have been written: each is there,
\* has been removed, or a write has failed.
TablesFigures ==
  /\ \A r \in Rows : Shown(r) => NotAhead(log[r], Joined(r))
  /\ \A s \in syncs : s[1] \in AiCalls /\ 0 < s[2] /\ s[2] <= ai[s[1]]
  /\ \A c \in AiCalls : ai[c] > 0 => RowsOf(c) \subseteq source /\ RowsOf(c) \cap owed = {}
  /\ \A r \in owed : ~Skipped(r)
  /\ \A r \in source : Recording[r] \in AiCalls \ lost =>
       IF Skipped(r) THEN ~Shown(r) ELSE r \in owed \/ Shown(r) \/ r \in removed
  /\ CostShownWhenCalm

BackfillFigures ==
  /\ backfill.pc \in {"join", "write"} => \A r \in backfill.todo : ~Skipped(r)
  /\ backfill.pc = "write" => \A r \in backfill.todo : backfill.found[r] <= Joined(r)

\* The repair reads a row before its history: where it finds none, the row has no figures.
RepairFigures ==
  /\ repair.pc \in {"join", "write"} => \A r \in repair.todo : repair.rows[r] \in Written
  /\ repair.pc = "join" => \A r \in repair.todo : NotAhead(repair.rows[r], Joined(r))
  /\ repair.pc = "write" =>
       \A r \in repair.todo : /\ NotAhead(repair.rows[r], repair.found[r])
                              /\ repair.found[r] <= Joined(r)

Agrees(r) == log[r] = Rebuilt(Joined(r))

\* Rows that the repair has yet to read, or that are as it has read them.
ToRepair(r) ==
  \/ repair.cursor = NoCursor \/ Before(repair.cursor, r)
  \/ repair.pc \in {"join", "write"} /\ r \in repair.todo /\ repair.rows[r] = log[r]

\* While nothing else writes figures, a row that the repair is done with agrees.
RepairAgrees ==
  repair.pc # "off" /\ repair.clean =>
    /\ syncs = {} /\ backfill.pc \in {"off", "done"}
    /\ \A r \in Rows : Shown(r) => Agrees(r) \/ (repair.pc # "done" /\ ToRepair(r))
    /\ repair.pc = "write" => \A r \in repair.todo : repair.found[r] = Joined(r)
    /\ repair.pc \in {"twins", "delete"} => repair.todo = {}

Figures == TablesFigures /\ BackfillFigures /\ RepairFigures /\ RepairAgrees

LEMMA FiguresInit == ASSUME Init PROVE Figures
<1>1. \A r \in Rows : Shown(r) => log[r].cost = 0 /\ ~log[r].text
  BY DEF Init, Shown
<1>2. \A r \in Rows : Joined(r) \in Nat
  BY RowsAssumption DEF Init, Joined, IsAi
<1>3. \A r \in Rows : Shown(r) => NotAhead(log[r], Joined(r))
  BY <1>1, <1>2 DEF NotAhead
<1>4. \A c \in AiCalls : ai[c] > 0 => RowsOf(c) \subseteq source /\ RowsOf(c) \cap owed = {}
  BY DEF Init, OldRows
<1>5. \A r \in source : Recording[r] \in lost
  BY DEF Init, OldRows, RowsOf
<1>6. \A r \in Rows : Shown(r) => r \in source
  BY DEF Init, Shown
<1>7. TablesFigures
  BY <1>3, <1>4, <1>5, <1>6 DEF Init, TablesFigures, CostShownWhenCalm
<1>8. BackfillFigures /\ RepairFigures /\ RepairAgrees
  BY DEF Init, Off, BackfillFigures, RepairFigures, RepairAgrees
<1> QED
  BY <1>7, <1>8 DEF Figures

-----------------------------------------------------------------------------
(* What a step leaves alone *)

LEMMA TablesFiguresStay ==
  ASSUME TablesFigures, UNCHANGED <<tables, log, removed>>
  PROVE  TablesFigures'
  BY DEF TablesFigures, CostShownWhenCalm, tables, Shown, Joined, IsAi, Skipped, RowsOf

LEMMA BackfillFiguresWait ==
  ASSUME Inv, BackfillFigures, UNCHANGED backfill,
         \A r \in Rows : Joined(r) <= Joined(r)' /\ Joined(r)' \in Nat
  PROVE  BackfillFigures'
<1>1. backfill.pc = "write" => \A r \in backfill.todo : r \in Rows /\ backfill.found[r] \in Nat
  BY DEF Inv, Typed, BackfillInv
<1>2. \A r \in Rows : Joined(r) \in Nat
  BY JoinFinds DEF Inv
<1> QED
  BY <1>1, <1>2 DEF BackfillFigures, Skipped, IsAi

LEMMA RepairFiguresWait ==
  ASSUME Inv, RepairFigures,
         \/ UNCHANGED repair
         \/ repair' = IF repair.pc = "off" THEN repair ELSE [repair EXCEPT !.clean = FALSE],
         \A r \in Rows : Joined(r) <= Joined(r)' /\ Joined(r)' \in Nat
  PROVE  RepairFigures'
<1>1. repair.pc \in {"join", "write"} => repair.todo \subseteq Rows
  BY DEF Inv, RepairInv
<1>2. /\ repair'.pc = repair.pc
      /\ repair.pc \in {"join", "write"} =>
           /\ repair'.todo = repair.todo /\ repair'.found = repair.found
           /\ repair'.rows = repair.rows
  BY DEF Inv, RepairInv
<1>3. \A r \in Rows : Joined(r) \in Nat
  BY JoinFinds DEF Inv
<1>4. repair.pc = "write" => \A r \in repair.todo : repair.found[r] \in Nat
  BY DEF Inv, RepairInv
<1>5. repair.pc = "join" => \A r \in repair.todo : NotAhead(repair.rows[r], Joined(r)')
  <2> SUFFICES ASSUME repair.pc = "join", NEW r \in repair.todo
               PROVE  NotAhead(repair.rows[r], Joined(r)')
    OBVIOUS
  <2>1. repair.rows[r] \in Written /\ NotAhead(repair.rows[r], Joined(r)) /\ r \in Rows
    BY <1>1 DEF RepairFigures
  <2> QED
    BY <1>3, <2>1 DEF NotAhead, Written
<1> QED
  BY <1>1, <1>2, <1>3, <1>4, <1>5 DEF RepairFigures

\* Rows may go or come to agree.
LEMMA RepairAgreesWaits ==
  ASSUME Inv, RepairAgrees, UNCHANGED <<repair, ai, syncs>>,
         backfill.pc \in {"off", "done"} => backfill'.pc \in {"off", "done"},
         \A r \in Rows : Shown(r)' => \/ Shown(r) /\ log'[r] = log[r]
                                      \/ log'[r] = Rebuilt(Joined(r))
  PROVE  RepairAgrees'
<1>1. \A r \in Rows : Joined(r)' = Joined(r)
  BY DEF Joined, IsAi
<1> SUFFICES ASSUME repair.pc # "off", repair.clean PROVE RepairAgrees'
  BY DEF RepairAgrees
<1>2. syncs' = {} /\ backfill'.pc \in {"off", "done"}
  BY DEF RepairAgrees
<1>3. \A r \in Rows : Shown(r)' => Agrees(r)' \/ (repair.pc # "done" /\ ToRepair(r)')
  BY <1>1 DEF RepairAgrees, Agrees, ToRepair, Before
<1>4. repair.pc = "write" => \A r \in repair.todo : repair.found[r] = Joined(r)'
  <2>1. repair.pc = "write" => repair.todo \subseteq Rows
    BY DEF Inv, RepairInv
  <2> QED
    BY <1>1, <2>1 DEF RepairAgrees
<1> QED
  BY <1>2, <1>3, <1>4 DEF RepairAgrees

LEMMA JoinStays ==
  ASSUME Inv, UNCHANGED ai
  PROVE  \A r \in Rows : Joined(r)' = Joined(r) /\ Joined(r) <= Joined(r)' /\ Joined(r)' \in Nat
<1>1. \A r \in Rows : Joined(r)' = Joined(r)
  BY DEF Joined, IsAi
<1>2. \A r \in Rows : Joined(r) \in Nat
  BY JoinFinds DEF Inv
<1> QED
  BY <1>1, <1>2

-----------------------------------------------------------------------------
(* The API *)

\* A row is written with what its history was, or nothing, and not less than it shows.
LEMMA RowWrittenFigures ==
  ASSUME Inv, TablesFigures, UNCHANGED <<source, ai, syncs, lost, removed>>,
         NEW r \in source, NEW v \in Written, log' = [log EXCEPT ![r] = v],
         owed' \in {owed, owed \ {r}}, Skipped(r) => Shown(r),
         NotAhead(v, Joined(r)),
         r \notin removed /\ Recording[r] \in AiCalls \ lost /\ ai[Recording[r]] = 1 =>
           v.cost = 1 \/ \E s \in syncs : s[1] = Recording[r]
  PROVE  TablesFigures'
<1>1. r \in Rows /\ v # Absent
  BY DEF Inv, Typed, Written, Absent
<1>2. \A q \in Rows : log'[q] = IF q = r THEN v ELSE log[q]
  BY DEF Inv, Typed
<1>3. /\ \A q \in Rows : Joined(q)' = Joined(q)
      /\ \A q \in Rows : Skipped(q)' = Skipped(q)
      /\ \A q \in Rows \ {r} : Shown(q)' <=> Shown(q)
      /\ Shown(r)'
  BY <1>1, <1>2 DEF Joined, IsAi, Skipped, Shown
<1>4. \A q \in Rows : Shown(q)' => NotAhead(log[q], Joined(q))'
  BY <1>2, <1>3 DEF TablesFigures, NotAhead
<1>5. \A c \in AiCalls : ai[c] > 0 => RowsOf(c) \subseteq source /\ RowsOf(c) \cap owed' = {}
  BY DEF TablesFigures
<1>6. \A q \in source : Recording[q] \in AiCalls \ lost =>
        IF Skipped(q) THEN ~Shown(q)' ELSE q \in owed' \/ Shown(q)' \/ q \in removed
  <2>1. source \subseteq Rows
    BY DEF Inv, Typed
  <2> QED
    BY <1>3, <2>1 DEF TablesFigures
<1>7. CostShownWhenCalm'
  BY <1>2, <1>3 DEF TablesFigures, CostShownWhenCalm
<1>8. owed' \subseteq owed /\ source \subseteq Rows
  BY DEF Inv, Typed
<1>9. \A c \in AiCalls : RowsOf(c)' = RowsOf(c)
  BY DEF RowsOf
<1>10. \A q \in owed' : ~Skipped(q)'
  BY <1>3, <1>8 DEF TablesFigures, Inv, Typed
<1>11. \A q \in source : Recording[q] \in AiCalls \ lost =>
        IF Skipped(q)' THEN ~Shown(q)' ELSE q \in owed' \/ Shown(q)' \/ q \in removed
  BY <1>3, <1>6, <1>8
<1> QED
  BY <1>4, <1>5, <1>7, <1>9, <1>10, <1>11 DEF TablesFigures

\* An upsert with the history of now, or of an earlier time.
LEMMA UpsertFigures ==
  ASSUME Inv, TablesFigures, NEW r \in source, NEW n \in Nat, n <= Joined(r), ~Skipped(r)
  PROVE  /\ Upserted(r, n) \in Written
         /\ NotAhead(Upserted(r, n), Joined(r))
         /\ n = Joined(r) => Upserted(r, n) = Rebuilt(n)
         /\ r \notin removed /\ Recording[r] \in AiCalls \ lost /\ ai[Recording[r]] = 1 =>
              Upserted(r, n).cost = 1 \/ \E s \in syncs : s[1] = Recording[r]
<1>1. r \in Rows /\ Joined(r) \in Nat
  BY JoinFinds DEF Inv, Typed
<1>2. Upserted(r, n) \in Written
  BY <1>1, UpsertWrites DEF Inv
<1>3. Shown(r) => log[r].cost \in Nat /\ log[r].cost <= Joined(r)
  BY <1>1 DEF TablesFigures, NotAhead, Inv, Typed, Shown, Written
<1>4. NotAhead(Upserted(r, n), Joined(r)) /\ (n = Joined(r) => Upserted(r, n) = Rebuilt(n))
  <2>1. CASE n > 0
    BY <1>1, <2>1 DEF NotAhead, Upserted, Rebuilt
  <2>2. CASE n = 0
    <3>1. (n > 0) = FALSE
      BY <2>2
    <3>2. Upserted(r, n) = [cost |-> IF Shown(r) THEN log[r].cost ELSE 0, text |-> FALSE]
      BY <3>1 DEF Upserted
    <3>3. Rebuilt(n) = [cost |-> 0, text |-> FALSE]
      BY <2>2, <3>1 DEF Rebuilt
    <3>4. n = Joined(r) /\ Shown(r) => log[r].cost = 0
      BY <1>1, <1>3, <2>2
    <3>5. NotAhead(Upserted(r, n), Joined(r))
      BY <1>1, <1>3, <3>2 DEF NotAhead
    <3> QED
      BY <3>2, <3>3, <3>4, <3>5
  <2> QED
    BY <2>1, <2>2
<1>5. ASSUME r \notin removed, Recording[r] \in AiCalls \ lost, ai[Recording[r]] = 1,
             \A s \in syncs : s[1] # Recording[r]
      PROVE  Upserted(r, n).cost = 1
  <2>1. Joined(r) = 1
    BY <1>5 DEF Joined, IsAi
  <2>2. r \notin owed
    BY <1>1, <1>5 DEF TablesFigures, RowsOf
  <2>3. Shown(r) /\ log[r].cost = 1
    BY <1>1, <1>5, <2>2 DEF TablesFigures, CostShownWhenCalm
  <2>4. n = 0 \/ n = 1
    BY <2>1
  <2> QED
    BY <2>3, <2>4 DEF Upserted
<1> QED
  BY <1>2, <1>4, <1>5

LEMMA RecordFigures ==
  ASSUME Inv, Figures, NEW c, Record(c)
  PROVE  Figures'
<1>1. /\ source' = source \cup RowsOf(c) /\ owed' = owed \cup {r \in RowsOf(c) : ~Skipped(r)}
      /\ UNCHANGED <<ai, syncs, lost, log, removed, repair, backfill>>
      /\ RowsOf(c) \ source # {}
  BY DEF Record, jobs
<1>2. \A d : RowsOf(d)' = RowsOf(d)
  BY DEF RowsOf
<1>3. \A r \in Rows : Skipped(r)' = Skipped(r) /\ Shown(r)' = Shown(r) /\ Joined(r)' = Joined(r)
  BY <1>1 DEF Skipped, IsAi, Shown, Joined
<1>4. \A d \in AiCalls : ai[d] > 0 => RowsOf(d) \subseteq source' /\ RowsOf(d) \cap owed' = {}
  <2> SUFFICES ASSUME NEW d \in AiCalls, ai[d] > 0
               PROVE  RowsOf(d) \subseteq source' /\ RowsOf(d) \cap owed' = {}
    OBVIOUS
  <2>1. RowsOf(d) \subseteq source /\ RowsOf(d) \cap owed = {}
    BY DEF Figures, TablesFigures
  <2>2. d # c
    BY <1>1, <2>1
  <2> QED
    BY <1>1, <2>1, <2>2 DEF RowsOf
<1>5. RowsOf(c) \subseteq Rows /\ source \subseteq Rows /\ owed \subseteq Rows
  BY DEF RowsOf, Inv, Typed
<1>6. \A r \in owed' : ~Skipped(r)'
  BY <1>1, <1>3, <1>5 DEF Figures, TablesFigures
<1>7. \A r \in source' : Recording[r] \in AiCalls \ lost =>
        IF Skipped(r)' THEN ~Shown(r)' ELSE r \in owed' \/ Shown(r)' \/ r \in removed
  <2> SUFFICES ASSUME NEW r \in source', Recording[r] \in AiCalls \ lost
               PROVE  IF Skipped(r)' THEN ~Shown(r)' ELSE r \in owed' \/ Shown(r)' \/ r \in removed
    OBVIOUS
  <2>1. CASE r \in source
    BY <1>1, <1>3, <1>5, <2>1 DEF Figures, TablesFigures
  <2>2. CASE r \notin source
    BY <1>1, <1>3, <1>5, <2>2 DEF Inv, LogHasSource
  <2> QED
    BY <2>1, <2>2
<1>8. \A r \in Rows : Shown(r)' => NotAhead(log[r], Joined(r))'
  BY <1>1, <1>3 DEF Figures, TablesFigures, NotAhead
<1>9. CostShownWhenCalm'
  BY <1>1, <1>3 DEF Figures, TablesFigures, CostShownWhenCalm
<1>10. TablesFigures'
  BY <1>1, <1>2, <1>4, <1>6, <1>7, <1>8, <1>9 DEF Figures, TablesFigures
<1>11. BackfillFigures' /\ RepairFigures'
  BY <1>1, JoinStays, BackfillFiguresWait, RepairFiguresWait DEF Figures
<1>12. RepairAgrees'
  BY <1>1, <1>3, RepairAgreesWaits DEF Figures
<1> QED
  BY <1>10, <1>11, <1>12 DEF Figures

LEMMA ProjectFigures ==
  ASSUME Inv, Figures, NEW r \in owed, Project(r) \/ ProjectFails(r)
  PROVE  Figures'
<1>0. r \in source /\ r \in Rows /\ source \subseteq Rows /\ owed \subseteq source
  BY DEF Inv, Typed
<1>1. UNCHANGED <<source, ai, syncs, removed, repair, backfill>>
  BY DEF Project, ProjectFails, jobs
<1>2. BackfillFigures' /\ RepairFigures'
  BY <1>1, JoinStays, BackfillFiguresWait, RepairFiguresWait DEF Figures
<1>3. CASE Project(r)
  <2>1. PICK v : v = Upserted(r, Joined(r))
    OBVIOUS
  <2>2. ~Skipped(r) /\ Joined(r) \in Nat
    BY <1>0, JoinFinds DEF Inv, Figures, TablesFigures
  <2>3. /\ v \in Written /\ NotAhead(v, Joined(r)) /\ v = Rebuilt(Joined(r))
        /\ r \notin removed /\ Recording[r] \in AiCalls \ lost /\ ai[Recording[r]] = 1 =>
             v.cost = 1 \/ \E s \in syncs : s[1] = Recording[r]
    BY <1>0, <2>1, <2>2, UpsertFigures DEF Figures
  <2>4. log' = [log EXCEPT ![r] = v] /\ owed' = owed \ {r} /\ lost' = lost
    BY <1>3, <2>1 DEF Project
  <2>5. TablesFigures'
    BY <1>0, <1>1, <2>2, <2>3, <2>4, RowWrittenFigures DEF Figures
  <2>6. \A q \in Rows : Shown(q)' => \/ Shown(q) /\ log'[q] = log[q]
                                     \/ log'[q] = Rebuilt(Joined(q))
    BY <2>3, <2>4 DEF Shown, Inv, Typed
  <2>7. RepairAgrees'
    BY <1>1, <2>6, RepairAgreesWaits DEF Figures
  <2> QED
    BY <1>2, <2>5, <2>7 DEF Figures
<1>4. CASE ProjectFails(r)
  <2>1. /\ owed' \in {owed \ {r}, owed \ RowsOf(Recording[r])} /\ lost' = lost \cup {Recording[r]}
        /\ log' = log
    BY <1>4 DEF ProjectFails
  <2>2. \A q \in Rows : Skipped(q)' = Skipped(q) /\ Shown(q)' = Shown(q) /\ Joined(q)' = Joined(q)
    BY <1>1, <2>1 DEF Skipped, IsAi, Shown, Joined
  <2>3. \A q \in owed : Recording[q] # Recording[r] => q \in owed'
    BY <2>1 DEF RowsOf
  <2>4. \A q \in source : Recording[q] \in AiCalls \ lost' =>
          IF Skipped(q)' THEN ~Shown(q)' ELSE q \in owed' \/ Shown(q)' \/ q \in removed
    BY <1>0, <2>1, <2>2, <2>3 DEF Figures, TablesFigures
  <2>5. \A q \in Rows : Shown(q)' => NotAhead(log[q], Joined(q))'
    BY <2>1, <2>2 DEF Figures, TablesFigures, NotAhead
  <2>6. CostShownWhenCalm'
    BY <1>1, <2>1, <2>2 DEF Figures, TablesFigures, CostShownWhenCalm
  <2>7. \A c : RowsOf(c)' = RowsOf(c)
    BY DEF RowsOf
  <2>8. owed' \subseteq owed
    BY <2>1
  <2>9. \A q \in owed' : ~Skipped(q)'
    BY <1>0, <2>2, <2>8 DEF Figures, TablesFigures
  <2>10. \A c \in AiCalls : ai'[c] > 0 => RowsOf(c)' \subseteq source' /\ RowsOf(c)' \cap owed' = {}
    BY <1>1, <2>7, <2>8 DEF Figures, TablesFigures
  <2>11. TablesFigures'
    BY <1>1, <2>4, <2>5, <2>6, <2>9, <2>10 DEF Figures, TablesFigures
  <2>12. RepairAgrees'
    BY <1>1, <2>1, <2>2, RepairAgreesWaits DEF Figures
  <2> QED
    BY <1>2, <2>11, <2>12 DEF Figures
<1> QED
  BY <1>3, <1>4

LEMMA PersistFigures ==
  ASSUME Inv, Figures, NEW c \in AiCalls, Persist(c)
  PROVE  Figures'
<1>1. /\ RowsOf(c) \subseteq source /\ RowsOf(c) \cap owed = {}
      /\ ai' = [ai EXCEPT ![c] = @ + 1]
      /\ syncs' = syncs \cup {<<c, ai[c] + 1>>}
      /\ repair' = IF repair.pc = "off" THEN repair ELSE [repair EXCEPT !.clean = FALSE]
      /\ UNCHANGED <<source, owed, lost, log, removed, backfill>>
  BY DEF Persist
<1>2. /\ ai \in [AiCalls -> Nat] /\ ai'[c] = ai[c] + 1
      /\ \A d \in AiCalls \ {c} : ai'[d] = ai[d]
  BY <1>1 DEF Inv, Typed
<1>3. \A r \in Rows : /\ Skipped(r)' = Skipped(r) /\ Shown(r)' = Shown(r)
                      /\ Joined(r) <= Joined(r)' /\ Joined(r)' \in Nat /\ Joined(r) \in Nat
  BY <1>1, <1>2 DEF Skipped, IsAi, Shown, Joined
<1>4. BackfillFigures' /\ RepairFigures'
  BY <1>1, <1>3, BackfillFiguresWait, RepairFiguresWait DEF Figures
<1>5. RepairAgrees'
  BY <1>1 DEF RepairAgrees, Inv, RepairInv
<1>6. \A r \in Rows : Shown(r)' => NotAhead(log[r], Joined(r))'
  <2> SUFFICES ASSUME NEW r \in Rows, Shown(r) PROVE NotAhead(log[r], Joined(r)')
    BY <1>1, <1>3 DEF NotAhead
  <2>1. log[r] \in Written /\ NotAhead(log[r], Joined(r))
    BY DEF Figures, TablesFigures, Inv, Typed, Shown
  <2> QED
    BY <1>3, <2>1 DEF NotAhead, Written
<1>7. \A s \in syncs' : s[1] \in AiCalls /\ 0 < s[2] /\ s[2] <= ai'[s[1]]
  <2> SUFFICES ASSUME NEW s \in syncs' PROVE s[1] \in AiCalls /\ 0 < s[2] /\ s[2] <= ai'[s[1]]
    OBVIOUS
  <2>1. CASE s \in syncs
    <3>1. s[1] \in AiCalls /\ 0 < s[2] /\ s[2] <= ai[s[1]] /\ s[2] \in Nat
      BY <2>1 DEF Figures, TablesFigures, Inv, Typed
    <3> QED
      BY <1>2, <3>1
  <2>2. CASE s = <<c, ai[c] + 1>>
    BY <1>2, <2>2
  <2> QED
    BY <1>1, <2>1, <2>2
<1>8. \A d \in AiCalls : ai'[d] > 0 => RowsOf(d)' \subseteq source' /\ RowsOf(d)' \cap owed' = {}
  <2>1. \A d \in AiCalls : RowsOf(d)' = RowsOf(d)
    BY DEF RowsOf
  <2> QED
    BY <1>1, <1>2, <2>1 DEF Figures, TablesFigures
<1>9. CostShownWhenCalm'
  <2> SUFFICES ASSUME NEW r \in Rows, Shown(r)', r \notin removed, Recording[r] \in AiCalls \ lost,
                      ai'[Recording[r]] = 1, \A s \in syncs' : s[1] # Recording[r]
               PROVE  log'[r].cost = 1
    BY <1>1 DEF CostShownWhenCalm
  <2>1. <<c, ai[c] + 1>> \in syncs' /\ <<c, ai[c] + 1>>[1] = c
    BY <1>1
  <2>2. Recording[r] # c
    BY <2>1
  <2> QED
    BY <1>1, <1>2, <1>3, <2>2 DEF Figures, TablesFigures, CostShownWhenCalm
<1>10. \A r \in source : r \in Rows
  BY DEF Inv, Typed
<1>11. \A r \in source' : Recording[r] \in AiCalls \ lost' =>
        IF Skipped(r)' THEN ~Shown(r)' ELSE r \in owed' \/ Shown(r)' \/ r \in removed'
  BY <1>1, <1>3, <1>10 DEF Figures, TablesFigures
<1>12. \A r \in owed' : ~Skipped(r)'
  BY <1>1, <1>3 DEF Figures, TablesFigures, Inv, Typed
<1>13. TablesFigures'
  BY <1>6, <1>7, <1>8, <1>9, <1>11, <1>12 DEF TablesFigures
<1> QED
  BY <1>4, <1>5, <1>13 DEF Figures

LEMMA SyncFigures ==
  ASSUME Inv, Figures, NEW s \in syncs, Sync(s) \/ SyncFails(s)
  PROVE  Figures'
<1>1. syncs' = syncs \ {s} /\ UNCHANGED <<source, owed, ai, removed, repair, backfill>>
  BY DEF Sync, SyncFails, jobs
<1>2. BackfillFigures' /\ RepairFigures'
  BY <1>1, JoinStays, BackfillFiguresWait, RepairFiguresWait DEF Figures
<1>3. RepairAgrees'
  BY <1>1 DEF Figures, RepairAgrees
<1>4. /\ s[1] \in AiCalls /\ 0 < s[2] /\ s[2] <= ai[s[1]] /\ s[2] \in Nat
      /\ ai \in [AiCalls -> Nat]
  BY DEF Figures, TablesFigures, Inv, Typed
<1>5. \A r \in Rows : Skipped(r)' = Skipped(r) /\ Joined(r)' = Joined(r)
  BY <1>1 DEF Skipped, IsAi, Joined
<1>6. \A r \in Rows : Shown(r) => log[r] \in Written /\ Absent \notin Written
  BY DEF Inv, Typed, Shown, Written, Absent
<1>7. \A r \in Rows : Shown(r)' <=> Shown(r)
  <2>1. CASE Sync(s)
    <3>1. \A r \in Rows : Shown(r) => [log[r] EXCEPT !.cost = s[2]] \in Written
      BY <1>4, <1>6 DEF Written
    <3> QED
      BY <1>6, <2>1, <3>1 DEF Sync, Shown
  <2>2. CASE SyncFails(s)
    BY <2>2 DEF SyncFails, Shown
  <2> QED
    BY <2>1, <2>2
<1>8. /\ lost \subseteq lost'
      /\ \A r \in Rows : Shown(r) /\ Recording[r] # s[1] => log'[r] = log[r]
      /\ \A r \in Rows : Shown(r) /\ Recording[r] = s[1] =>
           \/ log'[r] = log[r] /\ s[1] \in lost'
           \/ log'[r].cost = s[2] /\ log'[r].text = log[r].text
  <2>1. CASE Sync(s)
    BY <1>6, <2>1 DEF Sync, Written
  <2>2. CASE SyncFails(s)
    BY <2>2 DEF SyncFails
  <2> QED
    BY <2>1, <2>2
<1>9. \A r \in Rows : Shown(r)' => NotAhead(log[r], Joined(r))'
  <2> SUFFICES ASSUME NEW r \in Rows, Shown(r) PROVE NotAhead(log'[r], Joined(r))
    BY <1>5, <1>7 DEF NotAhead
  <2>1. NotAhead(log[r], Joined(r))
    BY DEF Figures, TablesFigures
  <2>2. CASE log'[r] = log[r]
    BY <2>1, <2>2
  <2>3. CASE Recording[r] = s[1] /\ log'[r].cost = s[2] /\ log'[r].text = log[r].text
    BY <1>4, <2>1, <2>3 DEF NotAhead, Joined, IsAi
  <2> QED
    BY <1>8, <2>2, <2>3
<1>10. CostShownWhenCalm'
  <2> SUFFICES ASSUME NEW r \in Rows, Shown(r)', r \notin removed, Recording[r] \in AiCalls \ lost',
                      ai[Recording[r]] = 1, \A t \in syncs' : t[1] # Recording[r]
               PROVE  log'[r].cost = 1
    BY <1>1 DEF CostShownWhenCalm
  <2>1. CASE Recording[r] = s[1]
    BY <1>4, <1>7, <1>8, <2>1
  <2>2. CASE Recording[r] # s[1]
    BY <1>1, <1>7, <1>8, <2>2 DEF Figures, TablesFigures, CostShownWhenCalm
  <2> QED
    BY <2>1, <2>2
<1>11. source \subseteq Rows /\ owed \subseteq Rows /\ \A c : RowsOf(c)' = RowsOf(c)
  BY DEF Inv, Typed, RowsOf
<1>12. \A r \in source' : Recording[r] \in AiCalls \ lost' =>
        IF Skipped(r)' THEN ~Shown(r)' ELSE r \in owed' \/ Shown(r)' \/ r \in removed'
  BY <1>1, <1>5, <1>7, <1>8, <1>11 DEF Figures, TablesFigures
<1>13. \A r \in owed' : ~Skipped(r)'
  BY <1>1, <1>5, <1>11 DEF Figures, TablesFigures
<1>14. TablesFigures'
  BY <1>1, <1>9, <1>10, <1>11, <1>12, <1>13 DEF Figures, TablesFigures
<1> QED
  BY <1>2, <1>3, <1>14 DEF Figures

-----------------------------------------------------------------------------
(* The scripts *)

\* An action that leaves the tables and the repair alone.
LEMMA QuietFigures ==
  ASSUME Inv, Figures, UNCHANGED <<tables, log, removed, repair>>, BackfillFigures',
         backfill.pc \in {"off", "done"} => backfill'.pc \in {"off", "done"}
  PROVE  Figures'
<1>1. TablesFigures'
  BY TablesFiguresStay DEF Figures
<1>2. UNCHANGED <<ai, syncs, log>>
  BY DEF tables
<1>3. RepairFigures'
  BY <1>2, JoinStays, RepairFiguresWait DEF Figures
<1>4. RepairAgrees'
  BY <1>2, RepairAgreesWaits DEF Figures, Shown
<1> QED
  BY <1>1, <1>3, <1>4 DEF Figures

LEMMA OthersFigures ==
  ASSUME Inv, Figures, PruneStart \/ PruneRead \/ WalkStart \/ Page \/ Tick
  PROVE  Figures'
<1>1. UNCHANGED <<tables, log, removed, repair, backfill, ai>>
  BY DEF PruneStart, PruneRead, WalkStart, Page, Tick, jobs, tables
<1>2. BackfillFigures'
  BY <1>1, JoinStays, BackfillFiguresWait DEF Figures
<1> QED
  BY <1>1, <1>2, QuietFigures

LEMMA BackfillStartFigures ==
  ASSUME Inv, Figures, NEW scope \in Scopes, BackfillStart(scope)
  PROVE  Figures'
<1>1. /\ UNCHANGED <<tables, log, removed, ai>>
      /\ backfill'.pc = "read"
      /\ repair' = IF repair.pc = "off" THEN repair ELSE [repair EXCEPT !.clean = FALSE]
  BY DEF BackfillStart, tables
<1>2. TablesFigures' /\ BackfillFigures'
  BY <1>1, TablesFiguresStay DEF Figures, BackfillFigures
<1>3. RepairFigures'
  BY <1>1, JoinStays, RepairFiguresWait DEF Figures
<1>4. RepairAgrees'
  BY <1>1 DEF RepairAgrees, Inv, RepairInv
<1> QED
  BY <1>2, <1>3, <1>4 DEF Figures

LEMMA BackfillQuietFigures ==
  ASSUME Inv, Figures, BackfillRead \/ BackfillJoin \/ BackfillDies
  PROVE  Figures'
<1>1. /\ UNCHANGED <<tables, log, removed, repair, ai>>
      /\ backfill.pc \notin {"off", "done"}
  BY DEF BackfillRead, BackfillJoin, BackfillDies, tables
<1>2. \A r \in Rows : Skipped(r)' = Skipped(r)
  BY DEF Skipped, IsAi
<1>3. backfill.pc = "join" => backfill.todo \subseteq Rows
  BY DEF Inv, BackfillInv, Typed
<1>4. CASE BackfillRead
  <2>1. PICK todoRows : todoRows = {r \in backfill.scope \cap source : Stream[r] = Streams[backfill.stream]}
    OBVIOUS
  <2>2. PICK batch : batch = FirstRows(After(todoRows, backfill.cursor), BackfillBatch)
    OBVIOUS
  <2>3. backfill.pc = "read" /\ source \subseteq Rows
        /\ backfill = [pc |-> backfill.pc, scope |-> backfill.scope, stream |-> backfill.stream,
                       cursor |-> backfill.cursor, todo |-> backfill.todo,
                       found |-> backfill.found, due |-> backfill.due]
    BY <1>4 DEF BackfillRead, Inv, BackfillInv, Typed
  <2>4. batch \subseteq Rows
    BY <2>1, <2>2, <2>3 DEF FirstRows, After
  <2>5. \/ backfill'.pc \in {"read", "done"}
        \/ backfill'.pc = "join" /\ backfill'.todo = {r \in batch : ~Skipped(r)}
    <3>1. backfill' = IF batch # {}
             THEN [backfill EXCEPT !.pc = "join", !.cursor = Last(batch),
                                   !.todo = {r \in batch : ~Skipped(r)}]
           ELSE IF backfill.stream < Len(Streams)
             THEN [backfill EXCEPT !.stream = @ + 1, !.cursor = NoCursor]
           ELSE [pc |-> "done", due |-> backfill.due]
      BY <1>4, <2>1, <2>2 DEF BackfillRead
    <3> QED
      BY <2>3, <3>1
  <2>6. BackfillFigures'
    BY <1>2, <2>4, <2>5 DEF BackfillFigures
  <2> QED
    BY <1>1, <2>6, QuietFigures
<1>5. CASE BackfillJoin
  <2>1. /\ backfill.pc = "join" /\ backfill'.pc \in {"read", "write"}
        /\ backfill'.todo = backfill.todo
        /\ backfill'.found = [r \in backfill.todo |-> Joined(r)]
    BY <1>5 DEF BackfillJoin, Inv, BackfillInv
  <2>2. \A r \in backfill.todo : r \in Rows /\ backfill'.found[r] = Joined(r)
    BY <1>3, <2>1
  <2>3. BackfillFigures'
    BY <1>1, <1>2, <2>1, <2>2, JoinStays DEF BackfillFigures, Figures
  <2> QED
    BY <1>1, <2>3, QuietFigures
<1>6. CASE BackfillDies
  <2>1. BackfillFigures'
    BY <1>6 DEF BackfillDies, Off, BackfillFigures
  <2> QED
    BY <1>1, <2>1, QuietFigures
<1> QED
  BY <1>4, <1>5, <1>6

LEMMA BackfillWriteFigures ==
  ASSUME Inv, Figures, BackfillWrite
  PROVE  Figures'
<1>1. /\ backfill.pc = "write" /\ backfill.todo # {} /\ backfill.todo \subseteq source
      /\ source \subseteq Rows /\ \A q \in backfill.todo : backfill.found[q] \in Nat
      /\ backfill = [pc |-> backfill.pc, scope |-> backfill.scope, stream |-> backfill.stream,
                     cursor |-> backfill.cursor, todo |-> backfill.todo,
                     found |-> backfill.found, due |-> backfill.due]
  BY DEF BackfillWrite, Inv, BackfillInv, Typed
<1>2. PICK r : r = First(backfill.todo)
  OBVIOUS
<1>3. r \in backfill.todo /\ r \in Rows /\ r \in source
  BY <1>1, <1>2, FirstIn
<1>4. PICK n : n = backfill.found[r]
  OBVIOUS
<1>5. n \in Nat /\ n <= Joined(r) /\ ~Skipped(r)
  BY <1>1, <1>3, <1>4 DEF Figures, BackfillFigures
<1>6. PICK v : v = Upserted(r, n)
  OBVIOUS
<1>7. log' = [log EXCEPT ![r] = v] /\ UNCHANGED <<source, owed, ai, syncs, lost, removed, repair>>
  BY <1>2, <1>4, <1>6 DEF BackfillWrite, tables
<1>8. TablesFigures'
  BY <1>3, <1>5, <1>6, <1>7, UpsertFigures, RowWrittenFigures DEF Figures
<1>9. /\ backfill'.pc \in {"read", "write"}
      /\ backfill'.pc = "write" => backfill'.todo \subseteq backfill.todo /\ backfill'.found = backfill.found
  BY <1>1, <1>2 DEF BackfillWrite
<1>10. \A q \in Rows : Skipped(q)' = Skipped(q) /\ Joined(q)' = Joined(q)
  BY <1>7 DEF Skipped, IsAi, Joined
<1>11. BackfillFigures'
  BY <1>1, <1>9, <1>10 DEF Figures, BackfillFigures
<1>12. RepairFigures'
  BY <1>7, JoinStays, RepairFiguresWait DEF Figures
<1>13. RepairAgrees'
  BY <1>1, <1>7 DEF Figures, RepairAgrees
<1> QED
  BY <1>8, <1>11, <1>12, <1>13 DEF Figures

\* Rows leave the read model.
LEMMA DeletedFigures ==
  ASSUME Inv, Figures, NEW S, Delete(S), UNCHANGED <<tables, backfill>>
  PROVE  /\ TablesFigures' /\ BackfillFigures'
         /\ UNCHANGED repair => Figures'
<1>1. /\ \A r \in Rows : log'[r] = IF r \in S THEN Absent ELSE log[r]
      /\ removed' = removed \cup {r \in S : Shown(r)}
      /\ UNCHANGED <<source, owed, ai, syncs, lost>>
  BY DEF Delete, tables
<1>2. \A r \in Rows : /\ Skipped(r)' = Skipped(r) /\ Joined(r)' = Joined(r)
                      /\ Shown(r)' => Shown(r) /\ log'[r] = log[r]
                      /\ Shown(r) => Shown(r)' \/ r \in removed'
  BY <1>1 DEF Skipped, IsAi, Joined, Shown
<1>3. removed \subseteq removed' /\ source \subseteq Rows /\ owed \subseteq Rows
  BY <1>1 DEF Inv, Typed
<1>4. \A r \in Rows : Shown(r)' => NotAhead(log[r], Joined(r))'
  BY <1>2 DEF Figures, TablesFigures, NotAhead
<1>5. \A c \in AiCalls : ai'[c] > 0 => RowsOf(c)' \subseteq source' /\ RowsOf(c)' \cap owed' = {}
  BY <1>1 DEF Figures, TablesFigures, RowsOf
<1>6. \A r \in source' : Recording[r] \in AiCalls \ lost' =>
        IF Skipped(r)' THEN ~Shown(r)' ELSE r \in owed' \/ Shown(r)' \/ r \in removed'
  BY <1>1, <1>2, <1>3 DEF Figures, TablesFigures
<1>7. \A r \in owed' : ~Skipped(r)'
  BY <1>1, <1>2, <1>3 DEF Figures, TablesFigures
<1>8. CostShownWhenCalm'
  BY <1>1, <1>2, <1>3 DEF Figures, TablesFigures, CostShownWhenCalm
<1>9. TablesFigures'
  BY <1>1, <1>4, <1>5, <1>6, <1>7, <1>8 DEF Figures, TablesFigures
<1>10. BackfillFigures'
  BY <1>1, JoinStays, BackfillFiguresWait DEF Figures
<1>11. ASSUME UNCHANGED repair PROVE RepairFigures' /\ RepairAgrees'
  BY <1>1, <1>2, <1>11, JoinStays, RepairFiguresWait, RepairAgreesWaits DEF Figures
<1> QED
  BY <1>9, <1>10, <1>11 DEF Figures

LEMMA PruneDeleteFigures ==
  ASSUME Inv, Figures, PruneDelete
  PROVE  Figures'
  BY DeletedFigures DEF PruneDelete

\* The record of a repair under way.
LEMMA RepairRecord ==
  ASSUME Inv, repair.pc \in {"read", "join", "write", "twins", "delete"}
  PROVE  repair = [pc |-> repair.pc, cursor |-> repair.cursor, rows |-> repair.rows,
                   found |-> repair.found, todo |-> repair.todo, copies |-> repair.copies,
                   clean |-> repair.clean]
  BY DEF Inv, RepairInv

\* A step of the repair that leaves the tables alone.
LEMMA RepairQuietly ==
  ASSUME Inv, Figures, UNCHANGED <<tables, log, removed, backfill>>,
         RepairFigures', RepairAgrees'
  PROVE  Figures'
<1>1. TablesFigures'
  BY TablesFiguresStay DEF Figures
<1>2. BackfillFigures'
  BY JoinStays, BackfillFiguresWait DEF Figures, tables
<1> QED
  BY <1>1, <1>2 DEF Figures

LEMMA RepairStartFigures ==
  ASSUME Inv, Figures, RepairStart
  PROVE  Figures'
<1>1. /\ repair' = [pc |-> "read", cursor |-> NoCursor, rows |-> <<>>, found |-> <<>>,
                     todo |-> {}, copies |-> {},
                     clean |-> syncs = {} /\ backfill.pc \in {"off", "done"}]
      /\ UNCHANGED <<tables, log, removed, backfill>>
  BY DEF RepairStart
<1>2. repair'.clean <=> syncs = {} /\ backfill.pc \in {"off", "done"}
  BY <1>1
<1>3. RepairFigures'
  BY <1>1 DEF RepairFigures
<1>4. repair'.pc = "read" /\ repair'.cursor = NoCursor
  BY <1>1
<1>5. RepairAgrees'
  BY <1>1, <1>2, <1>4 DEF RepairAgrees, ToRepair, tables
<1> QED
  BY <1>1, <1>3, <1>5, RepairQuietly

LEMMA RepairDiesFigures ==
  ASSUME Inv, Figures, RepairDies
  PROVE  Figures'
<1>1. repair'.pc = "off" /\ UNCHANGED <<tables, log, removed, backfill>>
  BY DEF RepairDies, Off
<1>2. RepairFigures' /\ RepairAgrees'
  BY <1>1 DEF RepairFigures, RepairAgrees
<1> QED
  BY <1>1, <1>2, RepairQuietly

\* The rows of a batch are as they stand; those passed over have been dealt with.
LEMMA RepairReadFigures ==
  ASSUME Inv, Figures, RepairRead
  PROVE  Figures'
<1>1. PICK shown : shown = {r \in Rows : Shown(r)}
  OBVIOUS
<1>2. PICK rest : rest = After(shown, repair.cursor)
  OBVIOUS
<1>3. PICK batch : batch = FirstRows(rest, RepairBatch)
  OBVIOUS
<1>4. /\ repair.pc = "read" /\ UNCHANGED <<tables, log, removed, backfill>>
      /\ UNCHANGED <<source, ai, syncs>>
      /\ repair' = IF batch = {} THEN [pc |-> "done", clean |-> repair.clean]
                   ELSE [repair EXCEPT !.pc = "join", !.cursor = Last(batch), !.todo = batch,
                                       !.rows = [r \in batch |-> log[r]]]
  BY <1>1, <1>2, <1>3 DEF RepairRead, tables
<1>5. rest \subseteq shown /\ shown \subseteq Rows /\ batch \subseteq rest
  BY <1>1, <1>2, <1>3 DEF After, FirstRows
<1>6. ASSUME NEW r \in Rows, Shown(r), repair.clean PROVE Agrees(r) \/ r \in rest
  <2>1. Agrees(r) \/ ToRepair(r)
    BY <1>4, <1>6 DEF Figures, RepairAgrees
  <2> QED
    BY <1>1, <1>2, <1>4, <1>6, <2>1 DEF ToRepair, After
<1>7. \A r \in Rows : Shown(r)' = Shown(r) /\ Agrees(r)' = Agrees(r) /\ Joined(r)' = Joined(r)
  BY <1>4 DEF Shown, Agrees, Joined, IsAi
<1>8. CASE batch = {}
  <2>1. rest = {}
    BY <1>3, <1>5, <1>8, FirstRowsOfSome, SizesAssumption
  <2>2. repair'.pc = "done" /\ repair'.clean = repair.clean
    BY <1>4, <1>8
  <2>3. RepairFigures'
    BY <2>2 DEF RepairFigures
  <2>4. RepairAgrees'
    BY <1>4, <1>6, <1>7, <2>1, <2>2 DEF Figures, RepairAgrees
  <2> QED
    BY <1>4, <2>3, <2>4, RepairQuietly
<1>9. CASE batch # {}
  <2>1. /\ repair'.pc = "join" /\ repair'.cursor = Last(batch) /\ repair'.todo = batch
        /\ repair'.rows = [r \in batch |-> log[r]] /\ repair'.clean = repair.clean
    BY <1>4, <1>9, RepairRecord
  <2>2. \A r \in batch : r \in Rows /\ Shown(r) /\ repair'.rows[r] = log[r]
    BY <1>1, <1>5, <2>1
  <2>3. RepairFigures'
    <3>1. \A r \in batch : log[r] \in Written /\ NotAhead(log[r], Joined(r))
      BY <2>2 DEF Figures, TablesFigures, Inv, Typed, Shown
    <3> QED
      BY <1>7, <2>1, <2>2, <3>1 DEF RepairFigures
  <2>4. Last(batch) \in batch
    BY <1>5, <1>9, LastIn
  <2>5. ASSUME NEW r \in rest, ~Before(Last(batch), r) PROVE r \in batch
    <3>1. r = Last(batch) \/ Before(r, Last(batch))
      BY <1>5, <2>4, <2>5, BeforeOrders
    <3> QED
      BY <1>3, <1>5, <2>4, <3>1, FirstRowsBefore, SizesAssumption
  <2>6. ASSUME NEW r \in Rows, Shown(r), repair.clean PROVE Agrees(r) \/ ToRepair(r)'
    BY <1>4, <1>6, <2>1, <2>2, <2>5, <2>6 DEF ToRepair, Before
  <2>7. RepairAgrees'
    BY <1>4, <1>7, <2>1, <2>6 DEF Figures, RepairAgrees
  <2> QED
    BY <1>4, <2>3, <2>7, RepairQuietly
<1> QED
  BY <1>8, <1>9

LEMMA RepairJoinFigures ==
  ASSUME Inv, Figures, RepairJoin
  PROVE  Figures'
<1>1. /\ repair.pc = "join" /\ repair.todo \subseteq Rows
      /\ UNCHANGED <<tables, log, removed, backfill, ai, syncs>>
  BY DEF RepairJoin, Inv, RepairInv, tables
<1>2. /\ repair'.pc = "write" /\ repair'.cursor = repair.cursor /\ repair'.rows = repair.rows
      /\ repair'.todo = repair.todo /\ repair'.clean = repair.clean
      /\ repair'.found = [r \in repair.todo |-> Joined(r)]
  BY <1>1, RepairRecord DEF RepairJoin
<1>3. \A r \in Rows : Shown(r)' = Shown(r) /\ Agrees(r)' = Agrees(r) /\ Joined(r)' = Joined(r)
  BY <1>1 DEF Shown, Agrees, Joined, IsAi
<1>4. \A r \in repair.todo : repair'.found[r] = Joined(r) /\ Joined(r) \in Nat
  BY <1>1, <1>2, JoinFinds DEF Inv
<1>5. RepairFigures'
  BY <1>1, <1>2, <1>3, <1>4 DEF Figures, RepairFigures
<1>6. \A r \in Rows : ToRepair(r) => ToRepair(r)'
  BY <1>1, <1>2 DEF ToRepair, Before
<1>7. RepairAgrees'
  BY <1>1, <1>2, <1>3, <1>4, <1>6 DEF Figures, RepairAgrees
<1> QED
  BY <1>1, <1>5, <1>7, RepairQuietly

\* A row is dealt with: it agrees, or is not there.
LEMMA RepairRowFigures ==
  ASSUME Inv, Figures, RepairKeeps \/ RepairWrite
  PROVE  Figures'
<1>1. PICK r : r = First(repair.todo)
  OBVIOUS
<1>2. /\ repair.pc = "write" /\ repair.todo # {} /\ repair.todo \subseteq Rows
      /\ \A q \in repair.todo : repair.found[q] \in Nat
      /\ UNCHANGED <<tables, removed, backfill, source, owed, ai, syncs, lost>>
  BY DEF RepairKeeps, RepairWrite, Inv, RepairInv, tables
<1>3. r \in repair.todo
  BY <1>1, <1>2, FirstIn
<1>4. /\ repair'.pc = IF repair.todo = {r} THEN "twins" ELSE "write"
      /\ repair'.todo = repair.todo \ {r} /\ repair'.cursor = repair.cursor
      /\ repair'.rows = repair.rows /\ repair'.found = repair.found
      /\ repair'.clean = repair.clean
  BY <1>1, <1>2, RepairRecord DEF RepairKeeps, RepairWrite, RepairNext
<1>5. PICK v : v = Rebuilt(repair.found[r])
  OBVIOUS
<1>6. /\ repair.rows[r] \in Written /\ NotAhead(repair.rows[r], repair.found[r])
      /\ repair.found[r] <= Joined(r) /\ repair.found[r] \in Nat /\ Joined(r) \in Nat
  BY <1>2, <1>3, JoinFinds DEF Figures, RepairFigures, Inv
<1>7. \A q \in Rows : Joined(q)' = Joined(q)
  BY <1>2 DEF Joined, IsAi
<1>8. /\ TablesFigures'
      /\ \A q \in Rows \ {r} : log'[q] = log[q]
      /\ \/ RepairKeeps /\ log'[r] = log[r] /\ repair.rows[r] = v
         \/ log'[r] = v
  <2>1. CASE RepairKeeps
    <3>1. UNCHANGED <<tables, log, removed>> /\ repair.rows[r] = v
      BY <1>1, <1>5, <2>1 DEF RepairKeeps
    <3> QED
      BY <2>1, <3>1, TablesFiguresStay DEF Figures
  <2>2. CASE RepairWrite
    <3>1. Shown(r) /\ repair.rows[r] # v /\ log' = [log EXCEPT ![r] = v]
      BY <1>1, <1>5, <2>2 DEF RepairWrite
    <3>2. r \in source /\ r \in Rows
      BY <1>2, <1>3, <3>1 DEF Inv, LogHasSource
    <3>3. v \in Written /\ NotAhead(v, Joined(r)) /\ v.cost = repair.found[r]
      BY <1>5, <1>6 DEF Rebuilt, Written, NotAhead
    <3>4. repair.found[r] # 0
      <4> SUFFICES ASSUME repair.found[r] = 0 PROVE FALSE
        OBVIOUS
      <4>1. repair.rows[r].cost = 0 /\ repair.rows[r].text = FALSE
        BY <1>6 DEF NotAhead, Written
      <4>2. v = [cost |-> 0, text |-> FALSE]
        <5>1. (repair.found[r] > 0) = FALSE
          OBVIOUS
        <5> QED
          BY <1>5, <5>1 DEF Rebuilt
      <4>3. repair.rows[r] = [cost |-> 0, text |-> FALSE]
        BY <1>6, <4>1 DEF Written
      <4> QED
        BY <3>1, <4>2, <4>3
    <3>5. Recording[r] \in AiCalls /\ ai[Recording[r]] = 1 => v.cost = 1
      BY <1>6, <3>3, <3>4 DEF Joined, IsAi
    <3>6. TablesFigures'
      BY <1>2, <3>1, <3>2, <3>3, <3>5, RowWrittenFigures DEF Figures
    <3> QED
      BY <3>1, <3>2, <3>6 DEF Inv, Typed
  <2> QED
    BY <2>1, <2>2
<1>9. BackfillFigures'
  BY <1>2, JoinStays, BackfillFiguresWait DEF Figures
<1>10. RepairFigures'
  BY <1>2, <1>4, <1>7 DEF Figures, RepairFigures
<1>11. RepairAgrees'
  <2> SUFFICES ASSUME repair.clean PROVE RepairAgrees'
    BY <1>4 DEF RepairAgrees
  <2>1. /\ syncs = {} /\ backfill.pc \in {"off", "done"}
        /\ \A q \in Rows : Shown(q) => Agrees(q) \/ ToRepair(q)
        /\ \A q \in repair.todo : repair.found[q] = Joined(q)
    BY <1>2 DEF Figures, RepairAgrees
  <2>2. \A q \in Rows \ {r} : Shown(q)' => Agrees(q)' \/ ToRepair(q)'
    <3> SUFFICES ASSUME NEW q \in Rows \ {r}, Shown(q)' PROVE Agrees(q)' \/ ToRepair(q)'
      OBVIOUS
    <3>1. Shown(q) /\ log'[q] = log[q]
      BY <1>8 DEF Shown
    <3>2. Agrees(q) => Agrees(q)'
      BY <1>7, <3>1 DEF Agrees
    <3>3. ToRepair(q) => ToRepair(q)'
      BY <1>2, <1>4, <3>1 DEF ToRepair, Before
    <3> QED
      BY <2>1, <3>1, <3>2, <3>3
  <2>3. Shown(r)' => Agrees(r)' \/ ToRepair(r)'
    <3>1. v = Rebuilt(Joined(r)')
      BY <1>2, <1>3, <1>5, <1>7, <2>1
    <3>2. CASE log'[r] = v
      BY <3>1, <3>2 DEF Agrees
    <3>3. CASE log'[r] = log[r] /\ repair.rows[r] = v
      <4>1. Shown(r)' => Shown(r)
        BY <3>3 DEF Shown
      <4>2. Agrees(r) => Agrees(r)'
        BY <1>2, <1>3, <1>7, <3>3 DEF Agrees
      <4>3. CASE repair.rows[r] = log[r]
        BY <3>1, <3>3, <4>3 DEF Agrees
      <4>4. CASE repair.cursor = NoCursor \/ Before(repair.cursor, r)
        BY <1>4, <4>4 DEF ToRepair, Before
      <4>5. r \in Rows
        BY <1>2, <1>3
      <4> QED
        BY <2>1, <4>1, <4>2, <4>3, <4>4, <4>5 DEF ToRepair
    <3> QED
      BY <1>8, <3>2, <3>3
  <2>4. repair'.pc # "done" /\ repair'.pc # "delete"
    BY <1>4
  <2>5. repair'.pc = "twins" => repair'.todo = {}
    BY <1>4
  <2>6. \A q \in repair'.todo : repair'.found[q] = Joined(q)'
    BY <1>2, <1>4, <1>7, <2>1
  <2> QED
    BY <1>2, <2>1, <2>2, <2>3, <2>4, <2>5, <2>6 DEF RepairAgrees
<1> QED
  BY <1>8, <1>9, <1>10, <1>11 DEF Figures

LEMMA RepairTwinsFigures ==
  ASSUME Inv, Figures, RepairTwins
  PROVE  Figures'
<1>1. /\ repair.pc = "twins"
      /\ UNCHANGED <<tables, log, removed, backfill, ai, syncs>>
  BY DEF RepairTwins, tables
<1>2. /\ repair'.pc = "delete" /\ repair'.cursor = repair.cursor /\ repair'.todo = repair.todo
      /\ repair'.clean = repair.clean
  BY <1>1, RepairRecord DEF RepairTwins
<1>3. \A r \in Rows : Shown(r)' = Shown(r) /\ Agrees(r)' = Agrees(r)
  BY <1>1 DEF Shown, Agrees, Joined, IsAi
<1>4. RepairFigures'
  BY <1>2 DEF RepairFigures
<1>5. \A r \in Rows : ToRepair(r) => ToRepair(r)'
  BY <1>1, <1>2 DEF ToRepair, Before
<1>6. RepairAgrees'
  BY <1>1, <1>2, <1>3, <1>5 DEF Figures, RepairAgrees
<1> QED
  BY <1>1, <1>4, <1>6, RepairQuietly

LEMMA RepairDeleteFigures ==
  ASSUME Inv, Figures, RepairDelete
  PROVE  Figures'
<1>1. /\ repair.pc = "delete" /\ Delete(repair.copies)
      /\ UNCHANGED <<tables, backfill, ai, syncs>>
  BY DEF RepairDelete, tables
<1>2. /\ repair'.pc = "read" /\ repair'.cursor = repair.cursor /\ repair'.todo = repair.todo
      /\ repair'.clean = repair.clean
  BY <1>1, RepairRecord DEF RepairDelete
<1>3. TablesFigures' /\ BackfillFigures'
  BY <1>1, DeletedFigures
<1>4. RepairFigures'
  BY <1>2 DEF RepairFigures
<1>5. \A r \in Rows : Shown(r)' => Shown(r) /\ log'[r] = log[r]
  BY <1>1 DEF Delete, Shown
<1>6. \A r \in Rows : Joined(r)' = Joined(r)
  BY <1>1 DEF Joined, IsAi
<1>7. \A r \in Rows : Shown(r)' => (Agrees(r) => Agrees(r)') /\ (ToRepair(r) => ToRepair(r)')
  BY <1>1, <1>2, <1>5, <1>6 DEF Agrees, ToRepair, Before
<1>8. RepairAgrees'
  BY <1>1, <1>2, <1>5, <1>7 DEF Figures, RepairAgrees
<1> QED
  BY <1>3, <1>4, <1>8 DEF Figures

LEMMA FiguresKept == ASSUME Inv, Figures, [Next]_vars PROVE Figures'
<1>1. CASE UNCHANGED vars
  <2>1. UNCHANGED <<tables, log, removed, repair, backfill, ai>>
    BY <1>1 DEF vars, jobs, tables
  <2>2. BackfillFigures'
    BY <2>1, JoinStays, BackfillFiguresWait DEF Figures
  <2> QED
    BY <2>1, <2>2, QuietFigures
<1>2. ASSUME NEW c \in {Recording[r] : r \in Rows}, Record(c) PROVE Figures'
  BY <1>2, RecordFigures
<1>3. ASSUME NEW r \in owed, Project(r) \/ ProjectFails(r) PROVE Figures'
  BY <1>3, ProjectFigures
<1>4. ASSUME NEW c \in AiCalls, Persist(c) PROVE Figures'
  BY <1>4, PersistFigures
<1>5. ASSUME NEW s \in syncs, Sync(s) \/ SyncFails(s) PROVE Figures'
  BY <1>5, SyncFigures
<1>6. ASSUME NEW scope \in Scopes, BackfillStart(scope) PROVE Figures'
  BY <1>6, BackfillStartFigures
<1>7. CASE BackfillRead \/ BackfillJoin \/ BackfillWrite \/ BackfillDies
  BY <1>7, BackfillQuietFigures, BackfillWriteFigures
<1>8. CASE RepairStart \/ RepairRead \/ RepairJoin \/ RepairDies
  BY <1>8, RepairStartFigures, RepairReadFigures, RepairJoinFigures, RepairDiesFigures
<1>9. CASE RepairKeeps \/ RepairWrite \/ RepairTwins \/ RepairDelete
  BY <1>9, RepairRowFigures, RepairTwinsFigures, RepairDeleteFigures
<1>10. CASE PruneStart \/ PruneRead \/ PruneDelete \/ WalkStart \/ Page \/ Tick
  BY <1>10, OthersFigures, PruneDeleteFigures
<1> QED
  BY <1>1, <1>2, <1>3, <1>4, <1>5, <1>6, <1>7, <1>8, <1>9, <1>10 DEF Next

LEMMA FiguresInvariance == Spec => []Figures
<1>1. Init => Figures
  BY FiguresInit
<1>2. Inv /\ Figures /\ [Next]_vars => Figures'
  BY FiguresKept
<1> QED
  BY <1>1, <1>2, Invariance, PTL DEF Spec

\* The figures of a request come to stand in each of its rows, in whatever order recorder,
\* history, backfill and repair write them: none writes an older version over a newer one.
THEOREM CostShownWhenCalmCorrect == Spec => []CostShownWhenCalm
<1>1. Figures => CostShownWhenCalm
  BY DEF Figures, TablesFigures
<1> QED
  BY <1>1, FiguresInvariance, PTL

\* A repair during which no history was persisted and no backfill ran leaves every row as
\* its sources have it, also those that recorders write and prune removes meanwhile.
THEOREM RepairedRowsAgreeCorrect == Spec => []RepairedRowsAgree
<1>1. Figures => RepairedRowsAgree
  BY DEF Figures, RepairAgrees, RepairedRowsAgree, Agrees
<1> QED
  BY <1>1, FiguresInvariance, PTL

-----------------------------------------------------------------------------
(* SettingsCache                                                           *)
(*                                                                         *)
(* A copy is as recent as the read or the write it comes from: what that      *)
(* found was in force then or is so still, and a policy that another takes     *)
(* the place of was in force until then (InForceSince).  One change at a time   *)
(* finds the row as it is and holds what is meant (OneChange).                *)

Policies == [Fields -> Nat]
Patches  == UNION {[named -> Nat] : named \in SUBSET Fields}

CallRecords == [pc : {"read", "found", "write", "written"}, kind : {"get", "show", "change"},
                server : Servers, patch : Patches, row : {Policy!Nothing} \cup Policies, from : Nat]

PolicyTyped ==
  /\ time \in Nat /\ changes \in Nat
  /\ row \in {Policy!Nothing} \cup Policies
  /\ copy \in [Servers -> {Policy!NoCopy} \cup [policy : Policies, until : Nat]]
  /\ doing \in [Calls -> {Policy!NoCall} \cup CallRecords]
  /\ DOMAIN past \subseteq Policies /\ \A p \in DOMAIN past : past[p] \in Nat
  /\ meant \in Policies /\ together \in BOOLEAN

\* A policy was in force, or stood in for one, at a time or since.
InForceSince(p, from) ==
  p = Policy!Effective(row) \/ (p \in DOMAIN past /\ from <= past[p])

\* What a call has found or written, and what a process serves, is as old as it seems.
CallsRecent ==
  \A c \in Calls :
    /\ doing[c].pc \in {"write", "written"} => doing[c].row \in Policies /\ doing[c].kind = "change"
    /\ doing[c].pc \in {"found", "written"} =>
         /\ doing[c].from <= time /\ time <= doing[c].from + MaxBusy
         /\ InForceSince(Policy!Effective(doing[c].row), doing[c].from)

CopiesRecent ==
  \A s \in Servers : copy[s] # Policy!NoCopy =>
    /\ time < copy[s].until /\ copy[s].until <= time + Lifetime
    /\ InForceSince(copy[s].policy, copy[s].until - Lifetime - MaxBusy)

IsChange(c) == doing[c].pc # "none" /\ doing[c].kind = "change"

\* As long as changes do not overlap, there is one at most, and it has found the row as it
\* is and holds what is meant.
OneChange ==
  ~together =>
    /\ \A b, c \in Calls : IsChange(b) /\ IsChange(c) => b = c
    /\ Policy!Effective(row) = meant
    /\ \A c \in Calls : IsChange(c) =>
         /\ doing[c].pc = "found" => Policy!Effective(doing[c].row) = Policy!Effective(row)
         /\ doing[c].pc = "write" => doing[c].row = Policy!Merged(meant, doing[c].patch)

PolicyInv == PolicyTyped /\ CallsRecent /\ CopiesRecent /\ OneChange

LEMMA DefaultIsPolicy == Policy!Default \in Policies
  BY DEF Policy!Default, Policies

LEMMA NothingIsPatch == Policy!Nothing \in Patches
<1>1. Policy!Nothing \in [{} -> Nat]
  BY DEF Policy!Nothing
<1> QED
  BY <1>1 DEF Patches

LEMMA EffectiveIsPolicy ==
  ASSUME NEW r \in {Policy!Nothing} \cup Policies
  PROVE  /\ Policy!Effective(r) \in Policies
         /\ r \in Policies => Policy!Effective(r) = r
<1>1. ASSUME r \in Policies, r = Policy!Nothing PROVE r = Policy!Default
  <2>1. DOMAIN r = Fields /\ DOMAIN r = {}
    BY <1>1 DEF Policies, Policy!Nothing
  <2> QED
    BY <1>1, <2>1 DEF Policy!Nothing, Policy!Default
<1> QED
  BY <1>1, DefaultIsPolicy DEF Policy!Effective

LEMMA MergedIsPolicy ==
  ASSUME NEW p \in Policies, NEW patch \in Patches
  PROVE  Policy!Merged(p, patch) \in Policies
<1>1. \A f \in DOMAIN patch : patch[f] \in Nat
  BY DEF Patches
<1> QED
  BY <1>1 DEF Policy!Merged, Policies

LEMMA PolicyInitEstablishes == ASSUME Policy!Init PROVE PolicyInv
<1>1. \A c \in Calls : doing[c].pc = "none"
  BY DEF Policy!Init, Policy!NoCall
<1>2. DOMAIN past = {}
  BY DEF Policy!Init, Policy!Nothing
<1>3. PolicyTyped
  BY <1>2, DefaultIsPolicy DEF Policy!Init, PolicyTyped
<1>4. Policy!Effective(row) = meant
  BY DEF Policy!Init, Policy!Effective
<1> QED
  BY <1>1, <1>3, <1>4 DEF Policy!Init, PolicyInv, CallsRecent, CopiesRecent, OneChange, IsChange

LEMMA CallTyped ==
  ASSUME PolicyTyped, NEW c \in Calls, doing[c].pc # "none"
  PROVE  doing[c] \in CallRecords
  BY DEF PolicyTyped, Policy!NoCall

\* A call takes a step that changes neither the row nor its history.
LEMMA CallSteps ==
  ASSUME PolicyInv, NEW c \in Calls, NEW d \in {Policy!NoCall} \cup CallRecords,
         doing' = [doing EXCEPT ![c] = d],
         UNCHANGED <<time, row, past, meant>>, changes' \in Nat,
         copy' = copy \/ \E s \in Servers : \E p \in Policies :
                            /\ Policy!SetCopy(s, p)
                            /\ \E from \in Nat : InForceSince(p, from) /\ time <= from + MaxBusy,
         d.pc \in {"write", "written"} => d.row \in Policies /\ d.kind = "change",
         d.pc \in {"found", "written"} =>
           d.from <= time /\ time <= d.from + MaxBusy /\ InForceSince(Policy!Effective(d.row), d.from),
         together' \in BOOLEAN, together => together',
         ~together' /\ d.pc # "none" /\ d.kind = "change" =>
           /\ \A b \in Calls \ {c} : ~IsChange(b)
           /\ d.pc = "found" => Policy!Effective(d.row) = Policy!Effective(row)
           /\ d.pc = "write" => d.row = Policy!Merged(meant, d.patch)
  PROVE  PolicyInv'
<1>1. \A b \in Calls : doing'[b] = IF b = c THEN d ELSE doing[b]
  BY DEF PolicyInv, PolicyTyped
<1>2. \A p, from : InForceSince(p, from)' = InForceSince(p, from)
  BY DEF InForceSince, Policy!Effective
<1>3. CallsRecent'
  BY <1>1, <1>2 DEF PolicyInv, CallsRecent, Policy!Effective, InForceSince
<1>4. /\ copy' \in [Servers -> {Policy!NoCopy} \cup [policy : Policies, until : Nat]]
      /\ CopiesRecent'
  <2>1. CASE copy' = copy
    BY <1>2, <2>1 DEF PolicyInv, PolicyTyped, CopiesRecent, InForceSince, Policy!Effective
  <2>2. CASE \E s \in Servers : \E p \in Policies :
               /\ Policy!SetCopy(s, p)
               /\ \E from \in Nat : InForceSince(p, from) /\ time <= from + MaxBusy
    <3> PICK s \in Servers, p \in Policies, from \in Nat :
               Policy!SetCopy(s, p) /\ InForceSince(p, from) /\ time <= from + MaxBusy
      BY <2>2
    <3>1. PICK k : k = [policy |-> p, until |-> time + Lifetime]
      OBVIOUS
    <3>2. k \in [policy : Policies, until : Nat] /\ k.policy = p /\ k.until = time + Lifetime
      BY <3>1, PolicyAssumption DEF PolicyInv, PolicyTyped
    <3>3. \A q \in Servers : copy'[q] = IF q = s THEN k ELSE copy[q]
      BY <3>1 DEF Policy!SetCopy, PolicyInv, PolicyTyped
    <3>4. copy' \in [Servers -> {Policy!NoCopy} \cup [policy : Policies, until : Nat]]
      BY <3>1, <3>2 DEF Policy!SetCopy, PolicyInv, PolicyTyped
    <3>5. time < k.until /\ k.until <= time + Lifetime
      BY <3>2, PolicyAssumption DEF PolicyInv, PolicyTyped
    <3>6. InForceSince(p, k.until - Lifetime - MaxBusy)
      BY <3>2, PolicyAssumption DEF PolicyInv, PolicyTyped, InForceSince
    <3>7. CopiesRecent'
      BY <1>2, <3>2, <3>3, <3>5, <3>6 DEF PolicyInv, CopiesRecent
    <3> QED
      BY <3>4, <3>7
  <2> QED
    BY <2>1, <2>2
<1>5. PolicyTyped'
  BY <1>4 DEF PolicyInv, PolicyTyped
<1>6. OneChange'
  <2>1. \A b \in Calls : IsChange(b)' <=> IF b = c THEN d.pc # "none" /\ d.kind = "change"
                                              ELSE IsChange(b)
    BY <1>1 DEF IsChange
  <2> QED
    BY <1>1, <2>1 DEF PolicyInv, OneChange, Policy!Effective
<1> QED
  BY <1>3, <1>4, <1>5, <1>6 DEF PolicyInv

LEMMA NoCallIsNone == Policy!NoCall.pc = "none"
  BY DEF Policy!NoCall

LEMMA CallStarts ==
  ASSUME PolicyTyped, NEW c \in Calls, NEW s \in Servers, NEW patch \in Patches,
         NEW kind \in {"get", "show", "change"}
  PROVE  /\ Policy!Call(kind, s, patch) \in CallRecords
         /\ Policy!Call(kind, s, patch).pc = "read" /\ Policy!Call(kind, s, patch).kind = kind
  BY DEF Policy!Call, CallRecords

LEMMA GetShowKeep ==
  ASSUME PolicyInv, NEW c \in Calls, NEW s \in Servers, Policy!Get(c, s) \/ Policy!Show(c, s)
  PROVE  PolicyInv'
<1> PICK kind \in {"get", "show"} : Policy!Starts(c, Policy!Call(kind, s, Policy!Nothing))
  BY DEF Policy!Get, Policy!Show
<1>1. PICK d : d = Policy!Call(kind, s, Policy!Nothing)
  OBVIOUS
<1>2. d \in CallRecords /\ d.pc = "read" /\ d.kind = kind
  BY <1>1, NothingIsPatch, CallStarts DEF PolicyInv
<1>3. /\ doing' = [doing EXCEPT ![c] = d]
      /\ UNCHANGED <<time, row, copy, changes, past, meant, together>>
  BY <1>1 DEF Policy!Get, Policy!Show, Policy!Starts, Policy!history
<1> QED
  BY <1>2, <1>3, CallSteps DEF PolicyInv, PolicyTyped

LEMMA ChangeKeeps ==
  ASSUME PolicyInv, NEW c \in Calls, NEW s \in Servers, NEW fields \in SUBSET Fields,
         Policy!Change(c, s, fields)
  PROVE  PolicyInv'
<1> PICK patch : patch = [f \in fields |-> changes + 1]
  OBVIOUS
<1>1. patch \in [fields -> Nat]
  BY DEF PolicyInv, PolicyTyped
<1>2. patch \in Patches
  BY <1>1 DEF Patches
<1>3. PICK d : d = Policy!Call("change", s, patch)
  OBVIOUS
<1>4. d \in CallRecords /\ d.pc = "read" /\ d.kind = "change"
  BY <1>2, <1>3, CallStarts DEF PolicyInv
<1>5. /\ doing' = [doing EXCEPT ![c] = d] /\ doing[c] = Policy!NoCall
      /\ UNCHANGED <<time, row, copy, past, meant>>
      /\ changes' = changes + 1
      /\ together' = (together \/ \E o \in Calls : doing[o] # Policy!NoCall /\ doing[o].kind = "change")
  BY <1>3 DEF Policy!Change, Policy!Starts
<1>6. ~together' => \A b \in Calls : ~IsChange(b)
  BY <1>5, NoCallIsNone DEF IsChange
<1>7. together' \in BOOLEAN /\ (together => together') /\ changes' \in Nat
  BY <1>5 DEF PolicyInv, PolicyTyped
<1> QED
  BY <1>4, <1>5, <1>6, <1>7, CallSteps

LEMMA ReadKeeps ==
  ASSUME PolicyInv, NEW c \in Calls, Policy!Read(c)
  PROVE  PolicyInv'
<1>1. doing[c] \in CallRecords
  BY CallTyped DEF Policy!Read, PolicyInv
<1>2. PICK d : d = [doing[c] EXCEPT !.pc = "found", !.row = row, !.from = time]
  OBVIOUS
<1>3. /\ d \in CallRecords /\ d.pc = "found" /\ d.kind = doing[c].kind
      /\ d.row = row /\ d.from = time
  BY <1>1, <1>2 DEF CallRecords, PolicyInv, PolicyTyped
<1>4. /\ doing' = [doing EXCEPT ![c] = d]
      /\ UNCHANGED <<time, row, copy, changes, past, meant, together>>
  BY <1>2 DEF Policy!Read, Policy!history
<1>5. ~together /\ d.kind = "change" => \A b \in Calls \ {c} : ~IsChange(b)
  BY <1>3 DEF Policy!Read, PolicyInv, OneChange, IsChange
<1>6. d.from <= time /\ time <= d.from + MaxBusy
  BY <1>3, PolicyAssumption DEF PolicyInv, PolicyTyped
<1>7. InForceSince(Policy!Effective(d.row), d.from) /\ Policy!Effective(d.row) = Policy!Effective(row)
  BY <1>3 DEF InForceSince
<1>8. changes' \in Nat /\ together' \in BOOLEAN /\ (together => together')
  BY <1>4 DEF PolicyInv, PolicyTyped
<1> QED
  BY <1>3, <1>4, <1>5, <1>6, <1>7, <1>8, CallSteps

\* A call that has read ends, and may have set the copy of its process.
LEMMA FoundKeeps ==
  ASSUME PolicyInv, NEW c \in Calls, Policy!FoundByGet(c) \/ Policy!FoundByShow(c) \/ Policy!Written(c)
  PROVE  PolicyInv'
<1>1. doing[c] \in CallRecords /\ doing[c].pc \in {"found", "written"}
  BY CallTyped DEF Policy!FoundByGet, Policy!FoundByShow, Policy!Written, PolicyInv
<1>2. /\ doing[c].server \in Servers /\ doing[c].row \in {Policy!Nothing} \cup Policies
      /\ doing[c].from \in Nat
      /\ doing[c].pc = "written" => doing[c].row \in Policies
      /\ time <= doing[c].from + MaxBusy
      /\ InForceSince(Policy!Effective(doing[c].row), doing[c].from)
  BY <1>1 DEF CallRecords, PolicyInv, CallsRecent
<1>3. /\ doing' = [doing EXCEPT ![c] = Policy!NoCall]
      /\ UNCHANGED <<time, row, changes, past, meant, together>>
  BY DEF Policy!FoundByGet, Policy!FoundByShow, Policy!Written, Policy!Ends
<1>4. Policy!Effective(doing[c].row) \in Policies
  BY <1>2, EffectiveIsPolicy
<1>5. copy' = copy \/ Policy!SetCopy(doing[c].server, Policy!Effective(doing[c].row))
  BY <1>1, <1>2, EffectiveIsPolicy DEF Policy!FoundByGet, Policy!FoundByShow, Policy!Written,
     Policy!KeepRow, Policy!Effective
<1>6. PICK d : d = Policy!NoCall
  OBVIOUS
<1>7. d \in {Policy!NoCall} \cup CallRecords /\ d.pc = "none" /\ doing' = [doing EXCEPT ![c] = d]
  BY <1>3, <1>6, NoCallIsNone
<1>8. changes' \in Nat /\ together' \in BOOLEAN /\ (together => together')
  BY <1>3 DEF PolicyInv, PolicyTyped
<1>9. CASE copy' = copy
  BY <1>3, <1>7, <1>8, <1>9, CallSteps
<1>10. CASE Policy!SetCopy(doing[c].server, Policy!Effective(doing[c].row))
  BY <1>2, <1>3, <1>4, <1>7, <1>8, <1>10, CallSteps
<1> QED
  BY <1>5, <1>9, <1>10

LEMMA MergeKeeps ==
  ASSUME PolicyInv, NEW c \in Calls, Policy!Merge(c)
  PROVE  PolicyInv'
<1>1. /\ doing[c] \in CallRecords /\ doing[c].pc = "found" /\ doing[c].kind = "change"
  BY CallTyped DEF Policy!Merge, Policy!MergeInto, PolicyInv
<1>2. /\ doing[c].server \in Servers /\ doing[c].row \in {Policy!Nothing} \cup Policies
      /\ doing[c].from \in Nat /\ doing[c].patch \in Patches
      /\ time <= doing[c].from + MaxBusy
      /\ InForceSince(Policy!Effective(doing[c].row), doing[c].from)
  BY <1>1 DEF CallRecords, PolicyInv, CallsRecent
<1>3. PICK r : r = Policy!Merged(Policy!Effective(doing[c].row), doing[c].patch)
  OBVIOUS
<1>4. r \in Policies /\ Policy!Effective(doing[c].row) \in Policies
  BY <1>2, <1>3, EffectiveIsPolicy, MergedIsPolicy
<1>5. PICK d : d = [doing[c] EXCEPT !.pc = "write", !.row = r, !.from = 0]
  OBVIOUS
<1>6. /\ d \in CallRecords /\ d.pc = "write" /\ d.kind = "change" /\ d.row = r
      /\ d.patch = doing[c].patch
  BY <1>1, <1>4, <1>5 DEF CallRecords
<1>7. /\ doing' = [doing EXCEPT ![c] = d]
      /\ UNCHANGED <<time, row, changes, past, meant, together>>
  BY <1>3, <1>5 DEF Policy!Merge, Policy!MergeInto
<1>8. copy' = copy \/ Policy!SetCopy(doing[c].server, Policy!Effective(doing[c].row))
  BY <1>1, <1>2, EffectiveIsPolicy DEF Policy!Merge, Policy!MergeInto, Policy!KeepRow,
     Policy!Effective
<1>9. IsChange(c)
  BY <1>1 DEF IsChange
<1>10. ~together => /\ \A b \in Calls \ {c} : ~IsChange(b)
                    /\ d.row = Policy!Merged(meant, d.patch)
  BY <1>1, <1>3, <1>6, <1>9 DEF PolicyInv, OneChange
<1> QED
  BY <1>2, <1>4, <1>6, <1>7, <1>8, <1>10, CallSteps DEF PolicyInv, PolicyTyped

\* The row is written: what was in force was so until now.
LEMMA Puts ==
  ASSUME PolicyInv, NEW c \in Calls, doing[c].pc = "write", Policy!Put(doing[c]),
         NEW d \in {Policy!NoCall} \cup CallRecords, doing' = [doing EXCEPT ![c] = d],
         UNCHANGED <<time, copy, changes, together>>,
         \/ d = Policy!NoCall
         \/ d.pc = "written" /\ d.from = time /\ d.row = doing[c].row /\ d.kind = doing[c].kind
  PROVE  PolicyInv'
<1>1. /\ doing[c] \in CallRecords /\ doing[c].row \in Policies /\ doing[c].kind = "change"
      /\ doing[c].patch \in Patches
  BY CallTyped DEF PolicyInv, CallsRecent, CallRecords
<1>2. /\ row' = doing[c].row /\ Policy!Effective(row) \in Policies /\ Policy!Effective(row)' = doing[c].row
      /\ row' \in Policies
  BY <1>1, EffectiveIsPolicy DEF Policy!Put, PolicyInv, PolicyTyped, Policy!Effective
<1>3. /\ DOMAIN past' = DOMAIN past \cup {Policy!Effective(row)}
      /\ \A p \in DOMAIN past' : past'[p] = IF p = Policy!Effective(row) THEN time ELSE past[p]
  BY DEF Policy!Put, Policy!Passes
<1>4. \A b \in Calls : doing'[b] = IF b = c THEN d ELSE doing[b]
  BY DEF PolicyInv, PolicyTyped
<1>5. PolicyTyped'
  <2>1. DOMAIN past' \subseteq Policies /\ \A p \in DOMAIN past' : past'[p] \in Nat
    BY <1>2, <1>3 DEF PolicyInv, PolicyTyped
  <2>2. meant' \in Policies
    BY <1>1, MergedIsPolicy DEF Policy!Put, PolicyInv, PolicyTyped
  <2>3. doing' \in [Calls -> {Policy!NoCall} \cup CallRecords]
    BY DEF PolicyInv, PolicyTyped
  <2> QED
    BY <1>2, <2>1, <2>2, <2>3 DEF PolicyInv, PolicyTyped
<1>6. ASSUME NEW p, NEW from \in Int, from <= time, InForceSince(p, from)
      PROVE  p \in DOMAIN past' /\ from <= past'[p]
  BY <1>3, <1>6 DEF InForceSince, PolicyInv, PolicyTyped
<1>7. time \in Nat /\ time <= time + MaxBusy
  BY PolicyAssumption DEF PolicyInv, PolicyTyped
<1>8. CallsRecent'
  <2> SUFFICES ASSUME NEW b \in Calls
               PROVE  /\ doing'[b].pc \in {"write", "written"} =>
                           doing'[b].row \in Policies /\ doing'[b].kind = "change"
                      /\ doing'[b].pc \in {"found", "written"} =>
                           /\ doing'[b].from <= time' /\ time' <= doing'[b].from + MaxBusy
                           /\ InForceSince(Policy!Effective(doing[b].row), doing[b].from)'
    BY DEF CallsRecent
  <2>1. CASE b = c
    <3>1. d.pc = "written" => Policy!Effective(d.row) = Policy!Effective(row)'
      BY <1>1, <1>2, EffectiveIsPolicy, NoCallIsNone
    <3> QED
      BY <1>1, <1>4, <1>7, <2>1, <3>1, NoCallIsNone DEF InForceSince, Policy!Effective
  <2>2. CASE b # c
    <3>1. doing[b].pc \in {"found", "written"} => doing[b].from \in Nat
      BY CallTyped DEF CallRecords, PolicyInv
    <3>2. doing'[b] = doing[b]
      BY <1>4, <2>2
    <3> QED
      BY <1>6, <3>1, <3>2 DEF PolicyInv, CallsRecent, InForceSince, Policy!Effective
  <2> QED
    BY <2>1, <2>2
<1>9. CopiesRecent'
  <2> SUFFICES ASSUME NEW s \in Servers, copy[s] # Policy!NoCopy
               PROVE  /\ time < copy[s].until /\ copy[s].until <= time + Lifetime
                      /\ InForceSince(copy[s].policy, copy[s].until - Lifetime - MaxBusy)'
    BY DEF CopiesRecent, InForceSince, Policy!Effective
  <2>1. /\ time < copy[s].until /\ copy[s].until <= time + Lifetime
        /\ InForceSince(copy[s].policy, copy[s].until - Lifetime - MaxBusy)
        /\ copy[s].until \in Nat
    BY DEF PolicyInv, CopiesRecent, PolicyTyped
  <2>2. copy[s].until - Lifetime - MaxBusy \in Int /\ copy[s].until - Lifetime - MaxBusy <= time
    BY <1>7, <2>1, PolicyAssumption
  <2>3. /\ copy[s].policy \in DOMAIN past'
        /\ copy[s].until - Lifetime - MaxBusy <= past'[copy[s].policy]
    BY <1>6, <2>1, <2>2
  <2> QED
    BY <2>1, <2>3 DEF InForceSince
<1>10. OneChange'
  <2> SUFFICES ASSUME ~together PROVE OneChange'
    BY DEF OneChange
  <2>1. IsChange(c) /\ \A b \in Calls \ {c} : ~IsChange(b)
    BY <1>1 DEF PolicyInv, OneChange, IsChange
  <2>2. \A b \in Calls \ {c} : ~IsChange(b)'
    BY <1>4, <2>1 DEF IsChange
  <2>3. Policy!Effective(row)' = meant'
    BY <1>1, <1>2, <2>1 DEF Policy!Put, PolicyInv, OneChange
  <2>4. doing'[c].pc \notin {"found", "write"}
    BY <1>4, NoCallIsNone
  <2> QED
    BY <2>2, <2>3, <2>4 DEF OneChange
<1> QED
  BY <1>5, <1>8, <1>9, <1>10 DEF PolicyInv

LEMMA WriteKeeps ==
  ASSUME PolicyInv, NEW c \in Calls, Policy!Write(c) \/ Policy!WriteFails(c)
  PROVE  PolicyInv'
<1>1. doing[c].pc = "write" /\ doing[c] \in CallRecords
  BY CallTyped DEF Policy!Write, Policy!WriteFails, PolicyInv
<1>2. CASE Policy!Write(c)
  <2>1. PICK d : d = [doing[c] EXCEPT !.pc = "written", !.from = time]
    OBVIOUS
  <2>2. /\ d \in CallRecords /\ d.pc = "written" /\ d.from = time /\ d.row = doing[c].row
        /\ d.kind = doing[c].kind
    BY <1>1, <2>1 DEF CallRecords, PolicyInv, PolicyTyped
  <2>3. doing' = [doing EXCEPT ![c] = d]
    BY <1>2, <2>1 DEF Policy!Write
  <2> QED
    BY <1>1, <1>2, <2>2, <2>3, Puts DEF Policy!Write
<1>3. CASE Policy!WriteFails(c)
  <2>1. doing' = [doing EXCEPT ![c] = Policy!NoCall]
    BY <1>3 DEF Policy!WriteFails, Policy!Ends
  <2>2. CASE Policy!Put(doing[c])
    BY <1>1, <1>3, <2>1, <2>2, Puts DEF Policy!WriteFails
  <2>3. CASE UNCHANGED <<row, past, meant>>
    BY <1>3, <2>1, <2>3, NoCallIsNone, CallSteps DEF Policy!WriteFails, PolicyInv, PolicyTyped
  <2> QED
    BY <1>3, <2>2, <2>3 DEF Policy!WriteFails
<1> QED
  BY <1>2, <1>3

LEMMA ReadFailsKeeps ==
  ASSUME PolicyInv, NEW c \in Calls, Policy!ReadFails(c)
  PROVE  PolicyInv'
<1>1. doing[c] \in CallRecords /\ doing[c].server \in Servers
  BY CallTyped DEF Policy!ReadFails, PolicyInv, CallRecords
<1>2. doing' = [doing EXCEPT ![c] = Policy!NoCall] /\ UNCHANGED <<time, row, changes, meant, together>>
  BY DEF Policy!ReadFails, Policy!Ends
<1>3. CASE UNCHANGED <<copy, past>>
  BY <1>2, <1>3, NoCallIsNone, CallSteps DEF PolicyInv, PolicyTyped
<1>4. CASE Policy!SetCopy(doing[c].server, Policy!Default) /\ Policy!Passes(Policy!Default)
  <2>1. /\ DOMAIN past' = DOMAIN past \cup {Policy!Default}
        /\ \A p \in DOMAIN past' : past'[p] = IF p = Policy!Default THEN time ELSE past[p]
    BY <1>4 DEF Policy!Passes
  <2>2. \A b \in Calls : doing'[b] = IF b = c THEN Policy!NoCall ELSE doing[b]
    BY <1>2 DEF PolicyInv, PolicyTyped
  <2>3. Policy!Effective(row)' = Policy!Effective(row) /\ \A b \in Calls : Policy!Effective(doing[b].row)' = Policy!Effective(doing'[b].row)
    BY <1>2 DEF Policy!Effective
  <2>4. ASSUME NEW p, NEW from \in Int, from <= time, InForceSince(p, from)
        PROVE  InForceSince(p, from)'
    BY <2>1, <2>3, <2>4 DEF InForceSince, PolicyInv, PolicyTyped
  <2>5. PICK k : k = [policy |-> Policy!Default, until |-> time + Lifetime]
    OBVIOUS
  <2>6. k \in [policy : Policies,
  until : Nat] /\ k.policy = Policy!Default /\ k.until = time + Lifetime
    BY <2>5, PolicyAssumption, DefaultIsPolicy DEF PolicyInv, PolicyTyped
  <2>7. copy' = [copy EXCEPT ![doing[c].server] = k]
    BY <1>4, <2>5 DEF Policy!SetCopy
  <2>8. PolicyTyped'
    <3>1. DOMAIN past' \subseteq Policies /\ \A p \in DOMAIN past' : past'[p] \in Nat
      BY <2>1, DefaultIsPolicy DEF PolicyInv, PolicyTyped
    <3>2. doing' \in [Calls -> {Policy!NoCall} \cup CallRecords]
      BY <1>2 DEF PolicyInv, PolicyTyped
    <3>3. copy' \in [Servers -> {Policy!NoCopy} \cup [policy : Policies, until : Nat]]
      BY <1>1, <2>6, <2>7 DEF PolicyInv, PolicyTyped
    <3> QED
      BY <1>2, <3>1, <3>2, <3>3 DEF PolicyInv, PolicyTyped
  <2>9. CallsRecent'
    <3>1. \A b \in Calls : doing[b].pc \in {"found", "written"} => doing[b].from \in Nat
      BY CallTyped DEF CallRecords, PolicyInv
    <3>2. \A b \in Calls \ {c} : doing'[b] = doing[b]
      BY <2>2
    <3>3. \A b \in Calls \ {c} : doing[b].pc \in {"found", "written"} =>
             InForceSince(Policy!Effective(doing[b].row), doing[b].from)'
      <4> SUFFICES ASSUME NEW b \in Calls \ {c}, doing[b].pc \in {"found", "written"}
                   PROVE  InForceSince(Policy!Effective(doing[b].row), doing[b].from)'
        OBVIOUS
      <4>1. doing[b].from \in Int /\ doing[b].from <= time
            /\ InForceSince(Policy!Effective(doing[b].row), doing[b].from)
        BY <3>1 DEF PolicyInv, CallsRecent
      <4> QED
        BY <2>1, <2>3, <3>2, <4>1 DEF InForceSince, PolicyInv, PolicyTyped
    <3> QED
      BY <1>2, <2>2, <3>2, <3>3, NoCallIsNone DEF PolicyInv, CallsRecent
  <2>10. CopiesRecent'
    <3>1. \A q \in Servers : copy'[q] = IF q = doing[c].server THEN k ELSE copy[q]
      BY <2>7 DEF PolicyInv, PolicyTyped
    <3>2. ASSUME NEW s \in Servers, s # doing[c].server, copy[s] # Policy!NoCopy
          PROVE  /\ time < copy[s].until /\ copy[s].until <= time + Lifetime
                 /\ InForceSince(copy[s].policy, copy[s].until - Lifetime - MaxBusy)'
      <4>1. /\ time < copy[s].until /\ copy[s].until <= time + Lifetime
            /\ InForceSince(copy[s].policy, copy[s].until - Lifetime - MaxBusy)
            /\ copy[s].until \in Nat /\ time \in Nat
        BY <3>2 DEF PolicyInv, CopiesRecent, PolicyTyped
      <4>2. copy[s].until - Lifetime - MaxBusy \in Int /\ copy[s].until - Lifetime - MaxBusy <= time
        BY <4>1, PolicyAssumption
      <4>3. copy'[s] = copy[s]
        BY <3>1, <3>2
      <4> QED
        BY <2>1, <2>3, <4>1, <4>2, <4>3 DEF InForceSince, PolicyInv, PolicyTyped
    <3>3. /\ time < k.until /\ k.until <= time + Lifetime
          /\ k.policy \in DOMAIN past' /\ k.until - Lifetime - MaxBusy <= past'[k.policy]
      BY <2>1, <2>6, PolicyAssumption DEF PolicyInv, PolicyTyped
    <3> QED
      BY <1>2, <3>1, <3>2, <3>3 DEF CopiesRecent, InForceSince
  <2>11. OneChange'
    <3>1. \A b \in Calls : IsChange(b)' => IsChange(b) /\ doing'[b] = doing[b]
      BY <2>2, NoCallIsNone DEF IsChange
    <3> QED
      BY <1>2, <2>3, <3>1 DEF PolicyInv, OneChange, Policy!Effective
  <2> QED
    BY <2>8, <2>9, <2>10, <2>11 DEF PolicyInv
<1> QED
  BY <1>3, <1>4 DEF Policy!ReadFails

LEMMA PolicyTickKeeps ==
  ASSUME PolicyInv, Policy!Tick
  PROVE  PolicyInv'
<1>1. /\ time' = time + 1 /\ UNCHANGED <<row, doing, changes, past, meant, together>>
      /\ \A c \in Calls : doing[c].pc \in {"found", "written"} => time - doing[c].from < MaxBusy
      /\ copy' = [s \in Servers |-> IF copy[s].until > time + 1 THEN copy[s] ELSE Policy!NoCopy]
  BY DEF Policy!Tick, Policy!history
<1>2. \A p, from : InForceSince(p, from)' <=> InForceSince(p, from)
  BY <1>1 DEF InForceSince, Policy!Effective
<1>3. PolicyTyped'
  BY <1>1 DEF PolicyInv, PolicyTyped
<1>4. time \in Nat
  BY DEF PolicyInv, PolicyTyped
<1>5. CallsRecent'
  <2>1. \A c \in Calls : doing[c].pc \in {"found", "written"} => doing[c].from \in Nat
    BY CallTyped DEF CallRecords, PolicyInv
  <2>2. \A c \in Calls : doing[c].pc \in {"found", "written"} =>
          doing[c].from <= time + 1 /\ time + 1 <= doing[c].from + MaxBusy
    BY <1>1, <1>4, <2>1, PolicyAssumption DEF PolicyInv, CallsRecent
  <2> QED
    BY <1>1, <2>2 DEF PolicyInv, CallsRecent, InForceSince, Policy!Effective
<1>6. CopiesRecent'
  <2> SUFFICES ASSUME NEW s \in Servers, copy'[s] # Policy!NoCopy
               PROVE  /\ time' < copy'[s].until /\ copy'[s].until <= time' + Lifetime
                      /\ InForceSince(copy[s].policy, copy[s].until - Lifetime - MaxBusy)'
    BY DEF CopiesRecent
  <2>1. copy'[s] = copy[s] /\ copy[s].until > time + 1 /\ copy[s] # Policy!NoCopy
    BY <1>1
  <2>2. copy[s].until \in Nat
    BY <2>1 DEF PolicyInv, PolicyTyped
  <2> QED
    BY <1>1, <1>4, <2>1, <2>2, PolicyAssumption DEF PolicyInv, CopiesRecent, InForceSince,
       Policy!Effective
<1>7. OneChange'
  BY <1>1 DEF PolicyInv, OneChange, IsChange, Policy!Effective
<1> QED
  BY <1>3, <1>5, <1>6, <1>7 DEF PolicyInv

\* What a process serves was in force a lifetime ago at most, and what a call took; and of
\* changes that do not overlap none undoes another.
THEOREM PolicyFollowsChangesCorrect == Policy!Spec => []PolicyFollowsChanges
<1>1. PolicyInv /\ [Policy!Next]_(Policy!vars) => PolicyInv'
  <2> SUFFICES ASSUME PolicyInv, [Policy!Next]_(Policy!vars) PROVE PolicyInv'
    OBVIOUS
  <2>1. CASE UNCHANGED Policy!vars
    BY <2>1 DEF Policy!vars, Policy!history, PolicyInv, PolicyTyped, CallsRecent, CopiesRecent,
       OneChange,
                IsChange, InForceSince, Policy!Effective
  <2>2. ASSUME NEW c \in Calls, NEW s \in Servers, Policy!Get(c, s) \/ Policy!Show(c, s) PROVE PolicyInv'
    BY <2>2, GetShowKeep
  <2>3. ASSUME NEW c \in Calls, NEW s \in Servers, NEW fields \in SUBSET Fields, Policy!Change(c, s, fields)
        PROVE PolicyInv'
    BY <2>3, ChangeKeeps
  <2>4. ASSUME NEW c \in Calls,
               \/ Policy!Read(c) \/ Policy!ReadFails(c) \/ Policy!FoundByGet(c) \/ Policy!FoundByShow(c)
               \/ Policy!Merge(c) \/ Policy!Write(c) \/ Policy!WriteFails(c) \/ Policy!Written(c)
        PROVE  PolicyInv'
    BY <2>4, ReadKeeps, ReadFailsKeeps, FoundKeeps, MergeKeeps, WriteKeeps
  <2> QED
    BY <2>1, <2>2, <2>3, <2>4, PolicyTickKeeps DEF Policy!Next
<1>2. PolicyInv => PolicyFollowsChanges
  <2> SUFFICES ASSUME PolicyInv PROVE PolicyFollowsChanges
    OBVIOUS
  <2>1. ASSUME NEW s \in Servers, copy[s] # Policy!NoCopy
        PROVE  \/ copy[s].policy = Policy!Effective(row)
               \/ copy[s].policy \in DOMAIN past /\ time < past[copy[s].policy] + Lifetime + MaxBusy
    <3>1. /\ time < copy[s].until /\ copy[s].until \in Nat /\ time \in Nat
          /\ InForceSince(copy[s].policy, copy[s].until - Lifetime - MaxBusy)
      BY <2>1 DEF PolicyInv, PolicyTyped, CopiesRecent
    <3> QED
      BY <3>1, PolicyAssumption DEF InForceSince, PolicyInv, PolicyTyped
  <2> QED
    BY <2>1 DEF PolicyFollowsChanges, Policy!PolicyFollowsChanges, Policy!ServedIsRecent,
       Policy!ChangesAdd, PolicyInv, OneChange
<1> QED
  BY <1>1, <1>2, PolicyInitEstablishes, PTL DEF Policy!Spec

=============================================================================
