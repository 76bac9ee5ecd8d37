---------------------------- MODULE HistoryBlobsProofs ----------------------------
(***************************************************************************)
(* The contents of the AI history and their files, for any number of events, *)
(* calls and days and whatever fails.                                       *)
(*                                                                         *)
(* Two parties remove files.  The cleanup removes those of contents that have *)
(* expired: Days says that no call of persistContent is under way for such an *)
(* event, and none will begin.  A call removes the attachments it has read as  *)
(* the ones it replaces: Replaces says that no row names them by then, as each *)
(* was committed once and before.  Readable follows the files that a call has  *)
(* written to the row that will name them.  Kept says, for an event with no     *)
(* failure and no overlap, which files there may be besides those that its rows *)
(* name, at each step of the one call or of the cleanup that is at it.         *)
(***************************************************************************)
EXTENDS HistoryBlobs, FiniteSetTheorems, TLAPS

-----------------------------------------------------------------------------
(* The invariant                                                           *)

\* Calls for an event are of one day, which has not ended for one that is under way; a
\* content has the retention of one of them; what the cleanup is at has expired.
Days ==
  /\ \A p \in Persists : UnderWay(p) => expires[p][1] = day + ContentDays
  /\ \A p, q \in Persists :
       EventOf[p] = EventOf[q] /\ step[p] # "idle" /\ step[q] # "idle" =>
         expires[p][1] = expires[q][1]
  /\ \A e \in Events : Exists(e) =>
       \E q \in Persists : /\ EventOf[q] = e /\ step[q] # "idle"
                           /\ expires[q][1] = contents[e].expires
  /\ \A e \in Events : /\ Exists(e) /\ contents[e].deleted => contents[e].expires < day
                       /\ ~Exists(e) => ~contents[e].file
  /\ \A e \in cleanup.batch : Exists(e) /\ contents[e].expires < day
  /\ cleanup.step = "idle" => cleanup.batch = {}
  /\ \A k \in cleanup.keys : k[1] \in cleanup.batch
  /\ \A a \in cleanup.rows : EventOf[a.id] \in cleanup.batch

Committed(p) == step[p] \in {"delete", "done"}

\* A row is of a call that has committed; what a call replaces was committed before, and is
\* gone when the call has committed.
Replaces ==
  /\ \A a \in attachments : Committed(a.id)
  /\ \A p \in Persists : step[p] \in {"commit", "delete"} =>
       \A a \in previous[p] : Committed(a.id) /\ EventOf[a.id] = EventOf[p] /\ a.id # p
  /\ \A p \in Persists : step[p] = "delete" =>
       \A a \in previous[p], b \in attachments : a.id # b.id

Own(p) == {Key(EventOf[p], a) : a \in AttachmentsOf(p)}
RestOf(p) ==
  {Key(EventOf[p], "response")} \cup IF p \in WithFile THEN {Key(EventOf[p], "file")} ELSE {}

\* What a call has written is there until its rows are.
Written(p) ==
  /\ step[p] \in {"prompt", "rest", "list", "commit"} => Own(p) \subseteq blobs
  /\ step[p] \in {"rest", "list", "commit"} => Key(EventOf[p], "prompt") \in blobs
  /\ step[p] \in {"list", "commit"} => RestOf(p) \subseteq blobs

Readable ==
  /\ \A p \in Persists : Written(p)
  /\ \A e \in Events : Live(e) => ContentKeys(e) \cup RowKeys(RowsOf(e)) \subseteq blobs

CallsOf(e) == {p \in Persists : EventOf[p] = e /\ UnderWay(p)}
BlobsOf(e) == {k \in blobs : k[1] = e}
Named(e)   == {a.id : a \in LiveRows(e)}
Settled(e) == RowKeys(LiveRows(e)) \cup IF contents[e].deleted THEN {} ELSE ContentKeys(e)
InHand(p)  == Own(p) \cup {Key(EventOf[p], "prompt")} \cup RestOf(p)

Calling(e) ==
  \A p \in CallsOf(e) :
    /\ \A q \in CallsOf(e) : p = q
    /\ step[p] # "delete" => BlobsOf(e) \subseteq Settled(e) \cup InHand(p)
    /\ step[p] = "delete" => /\ BlobsOf(e) \subseteq Settled(e) \cup RowKeys(previous[p])
                             /\ Named(e) = AttachmentsOf(p)
    /\ step[p] = "commit" => previous[p] = RowsOf(e)
    /\ step[p] # "prompt" => named[e] = AttachmentsOf(p)

Resting(e) ==
  CallsOf(e) = {} => /\ e \notin cleanup.batch => BlobsOf(e) \subseteq Settled(e)
                     /\ Live(e) => named[e] = Named(e)

Cleaning(e) ==
  e \in cleanup.batch =>
    /\ cleanup.step = "unlink" => /\ BlobsOf(e) \subseteq Settled(e)
                                  /\ ContentKeys(e) \subseteq cleanup.keys
    /\ cleanup.step \in {"read", "attachments"} => BlobsOf(e) \subseteq RowKeys(LiveRows(e))
    /\ cleanup.step = "attachments" => LiveRows(e) \subseteq cleanup.rows
    /\ cleanup.step \in {"marka", "mark"} => BlobsOf(e) = {}

Kept ==
  \A e \in Events :
    failures = 0 /\ e \notin overlapped => Calling(e) /\ Resting(e) /\ Cleaning(e)

Inv == TypeOK /\ Days /\ Replaces /\ Readable /\ Kept

-----------------------------------------------------------------------------
(* Types                                                                   *)

\* What the assumptions say of calls and their attachments.
LEMMA Calls ==
  /\ \A p \in Persists : EventOf[p] \in Events
  /\ \A p \in Persists : AttachmentsOf(p) \subseteq WithImage /\ AttachmentsOf(p) \subseteq {p}
  /\ \A a \in WithImage : a \in Persists /\ a \notin {"prompt", "response", "file"}
  /\ ContentDays \in Nat \ {0} /\ AttachmentDays \in Nat \ {0} /\ Batch \in Nat \ {0}
  /\ MaxDays \in Nat /\ MaxFailures \in Nat
  BY InputAssumption DEF AttachmentsOf

LEMMA KeyTypes ==
  ASSUME TypeOK
  PROVE  /\ \A p \in Persists : Own(p) \cup RestOf(p) \cup {Key(EventOf[p], "prompt")} \subseteq Keys
         /\ \A e \in Events : ContentKeys(e) \subseteq Keys
         /\ \A rs \in SUBSET AttachmentRows : RowKeys(rs) \subseteq Keys
  BY Calls DEF TypeOK, Own, RestOf, Key, Keys, ContentKeys, RowKeys, AttachmentRows

\* The rows that a call commits.
LEMMA RowsType ==
  ASSUME TypeOK, NEW p \in Persists, Rows(p)
  PROVE  /\ contents' \in [Events -> [expires : Int, file : BOOLEAN, deleted : BOOLEAN]]
         /\ attachments' \subseteq AttachmentRows
<1> DEFINE e == EventOf[p]
           row == [expires |-> expires[p][1], file |-> contents[e].file \/ p \in WithFile,
                   deleted |-> FALSE]
<1>1. expires[p][1] \in Nat /\ expires[p][2] \in Nat /\ e \in Events
  BY Calls DEF TypeOK
<1>2. row \in [expires : Int, file : BOOLEAN, deleted : BOOLEAN]
  BY <1>1 DEF TypeOK
<1>3. contents' = [contents EXCEPT ![e] = row]
  BY DEF Rows
<1> HIDE DEF row
<1>4. contents' \in [Events -> [expires : Int, file : BOOLEAN, deleted : BOOLEAN]]
  BY <1>1, <1>2, <1>3 DEF TypeOK
<1>5. \A a \in AttachmentsOf(p) :
         [id |-> a, expires |-> expires[p][2], deleted |-> FALSE] \in AttachmentRows
  BY <1>1, Calls DEF AttachmentRows
<1>6. attachments' \subseteq AttachmentRows
  BY <1>5 DEF Rows, TypeOK
<1> QED
  BY <1>4, <1>6

\* The cleanup goes on with what it has read.
LEMMA JobGoesOn ==
  ASSUME TypeOK, NEW from, NEW to \in {"read", "marka", "mark"}, Job(from, to)
  PROVE  /\ cleanup' \in Jobs /\ cleanup'.step = to /\ cleanup.step = from
         /\ cleanup'.batch = cleanup.batch /\ cleanup'.keys = cleanup.keys
         /\ cleanup'.rows = cleanup.rows
  BY DEF TypeOK, Jobs, Job

LEMMA ReadAttachmentsGoesOn ==
  ASSUME TypeOK, CleanupReadAttachments
  PROVE  /\ cleanup' \in Jobs /\ cleanup'.step = "attachments" /\ cleanup.step = "read"
         /\ cleanup'.batch = cleanup.batch /\ cleanup'.keys = cleanup.keys
         /\ cleanup'.rows = {a \in attachments : EventOf[a.id] \in cleanup.batch /\ ~a.deleted}
  BY DEF TypeOK, Jobs, CleanupReadAttachments

LEMMA BatchType ==
  ASSUME TypeOK
  PROVE  /\ cleanup.batch \subseteq Events /\ cleanup.keys \subseteq Keys
         /\ cleanup.rows \subseteq AttachmentRows
  BY DEF TypeOK, Jobs

LEMMA TypeSteps ==
  ASSUME TypeOK, [Next]_vars
  PROVE  TypeOK'
<1> USE DEF TypeOK, persisting, rows, Goto, Fails
<1>1. CASE UNCHANGED vars
  BY <1>1 DEF vars
<1>2. ASSUME NEW p \in Persists, WriteAttachments(p) PROVE TypeOK'
  <2>1. <<day + ContentDays, day + AttachmentDays>> \in Nat \X Nat
    BY Calls
  <2>2. blobs' \subseteq Keys
    BY <1>2, KeyTypes DEF WriteAttachments, Own
  <2>3. overlapped' \subseteq Events
    BY <1>2, Calls DEF WriteAttachments
  <2> QED
    BY <1>2, <2>1, <2>2, <2>3 DEF WriteAttachments
<1>3. ASSUME NEW p \in Persists, WritePrompt(p) \/ WriteRest(p) PROVE TypeOK'
  <2>1. blobs' \subseteq Keys
    BY <1>3, KeyTypes DEF WritePrompt, WriteRest, RestOf
  <2>2. step' \in [Persists -> {"idle", "prompt", "rest", "list", "commit", "delete", "done"}]
    BY <1>3 DEF WritePrompt, WriteRest
  <2>3. named' \in [Events -> SUBSET WithImage]
    BY <1>3, Calls DEF WritePrompt, WriteRest
  <2> QED
    BY <1>3, <2>1, <2>2, <2>3 DEF WritePrompt, WriteRest
<1>4. ASSUME NEW p \in Persists, ListPrevious(p) \/ DeletePrevious(p) PROVE TypeOK'
  <2>1. RowsOf(EventOf[p]) \subseteq AttachmentRows
    BY DEF RowsOf
  <2>2. previous' \in [Persists -> SUBSET AttachmentRows]
    BY <1>4, <2>1 DEF ListPrevious, DeletePrevious
  <2>3. blobs' \subseteq Keys
    BY <1>4 DEF ListPrevious, DeletePrevious
  <2>4. step' = [step EXCEPT ![p] = "commit"] \/ step' = [step EXCEPT ![p] = "done"]
    BY <1>4 DEF ListPrevious, DeletePrevious
  <2>5. UNCHANGED <<day, named, rows, expires, cleanup, stuck, overlapped, failures>>
    BY <1>4 DEF ListPrevious, DeletePrevious
  <2> QED
    BY <2>2, <2>3, <2>4, <2>5
<1>5. ASSUME NEW p \in Persists, Commit(p) PROVE TypeOK'
  BY <1>5, RowsType DEF Commit
<1>6. ASSUME NEW p \in Persists, PersistFails(p) PROVE TypeOK'
  BY <1>6, RowsType, Calls DEF PersistFails
<1>7. CASE CleanupRead
  <2>1. PICK es \in SUBSET Events :
           /\ Cardinality(es) <= Batch
           /\ cleanup' = [step |-> "unlink", batch |-> es, rows |-> {},
                          keys |-> UNION {ContentKeys(e) : e \in es}]
    BY <1>7 DEF CleanupRead
  <2>2. UNION {ContentKeys(e) : e \in es} \subseteq Keys
    BY KeyTypes
  <2>3. cleanup' \in Jobs /\ Cardinality(cleanup'.batch) <= Batch
    BY <2>1, <2>2 DEF Jobs
  <2> QED
    BY <1>7, <2>3 DEF CleanupRead
<1>8. CASE CleanupUnlink \/ CleanupUnlinkAttachments
  <2>1. PICK keys \in SUBSET Keys : Unlink(keys)
    BY <1>8, BatchType, KeyTypes DEF CleanupUnlink, CleanupUnlinkAttachments
  <2>2. cleanup' \in Jobs /\ Cardinality(cleanup'.batch) <= Batch
    BY <1>8, JobGoesOn DEF CleanupUnlink, CleanupUnlinkAttachments
  <2>3. blobs' \subseteq Keys /\ stuck' \subseteq Keys /\ failures' \in 0 .. MaxFailures
    BY <2>1, Calls DEF Unlink
  <2> QED
    BY <1>8, <2>2, <2>3 DEF CleanupUnlink, CleanupUnlinkAttachments
<1>9. CASE CleanupReadAttachments
  <2>1. cleanup' \in Jobs /\ Cardinality(cleanup'.batch) <= Batch
    BY <1>9, ReadAttachmentsGoesOn
  <2> QED
    BY <1>9, <2>1 DEF CleanupReadAttachments
<1>11. CASE CleanupMarkAttachments
  <2>1. \A a \in attachments : [a EXCEPT !.deleted = TRUE] \in AttachmentRows
    BY DEF AttachmentRows
  <2>2. attachments' \subseteq AttachmentRows
    BY <1>11, <2>1 DEF CleanupMarkAttachments
  <2>3. cleanup' \in Jobs /\ Cardinality(cleanup'.batch) <= Batch
    BY <1>11, JobGoesOn DEF CleanupMarkAttachments
  <2> QED
    BY <1>11, <2>2, <2>3 DEF CleanupMarkAttachments
<1>12. NoJob \in Jobs /\ Cardinality(NoJob.batch) <= Batch
  BY FS_EmptySet, Calls DEF NoJob, Jobs
<1>13. CASE CleanupMark
  BY <1>12, <1>13 DEF CleanupMark
<1>14. CASE CleanupFails
  BY <1>12, <1>14, Calls DEF CleanupFails
<1>15. CASE NextDay
  BY <1>15, Calls DEF NextDay
<1> QED
  BY <1>1, <1>2, <1>3, <1>4, <1>5, <1>6, <1>7, <1>8, <1>9, <1>11, <1>13, <1>14, <1>15
     DEF Next, Persist, Cleanup

-----------------------------------------------------------------------------
(* Days                                                                    *)

\* What the cleanup is at has no call under way, and none that might begin.
LEMMA ExpiredIsLeftAlone ==
  ASSUME TypeOK, Days
  PROVE  /\ \A p \in Persists : UnderWay(p) => EventOf[p] \notin cleanup.batch
         /\ \A p \in Persists : UnderWay(p) /\ Exists(EventOf[p]) => Live(EventOf[p])
         /\ \A p \in Persists : SameDay(p) => EventOf[p] \notin cleanup.batch
<1>1. day \in Nat /\ \A e \in Events : contents[e].expires \in Int
  BY Calls DEF TypeOK
<1>2. ASSUME NEW p \in Persists, UnderWay(p), Exists(EventOf[p])
      PROVE  ~(contents[EventOf[p]].expires < day)
  <2>1. PICK q \in Persists : /\ EventOf[q] = EventOf[p] /\ step[q] # "idle"
                              /\ expires[q][1] = contents[EventOf[p]].expires
    BY <1>2, Calls DEF Days
  <2>2. expires[q][1] = day + ContentDays
    BY <1>2, <2>1 DEF Days, UnderWay
  <2> QED
    BY <1>1, <2>1, <2>2, Calls
<1>3. ASSUME NEW p \in Persists, SameDay(p), Exists(EventOf[p])
      PROVE  ~(contents[EventOf[p]].expires < day)
  <2>1. PICK q \in Persists : /\ EventOf[q] = EventOf[p] /\ step[q] # "idle"
                              /\ expires[q][1] = contents[EventOf[p]].expires
    BY <1>3, Calls DEF Days
  <2>2. expires[q][1] = day + ContentDays
    BY <1>3, <2>1 DEF SameDay
  <2> QED
    BY <1>1, <2>1, <2>2, Calls
<1> QED
  BY <1>1, <1>2, <1>3, Calls DEF Days, Live

\* A call that goes on, or ends, with its rows committed or not.
LEMMA CallKeepsDays ==
  ASSUME TypeOK, Days, NEW p \in Persists, UnderWay(p), NEW s, s # "idle",
         step' = [step EXCEPT ![p] = s],
         UNCHANGED <<day, expires, cleanup>>,
         UNCHANGED contents \/ Rows(p)
  PROVE  Days'
<1>1. \A q \in Persists : /\ UnderWay(q)' => UnderWay(q)
                          /\ step'[q] # "idle" <=> step[q] # "idle"
  BY DEF UnderWay, TypeOK
<1>2. EventOf[p] \in Events /\ EventOf[p] \notin cleanup.batch /\ step[p] # "idle"
  BY Calls, ExpiredIsLeftAlone DEF UnderWay
<1>3. \A e \in Events : \/ contents'[e] = contents[e]
                        \/ e = EventOf[p] /\ contents'[e].expires = expires[p][1]
  BY DEF Rows, TypeOK
<1>4. cleanup.batch \subseteq Events
  BY BatchType
<1>5. \A e \in Events : Exists(e)' =>
         \E q \in Persists : /\ EventOf[q] = e /\ step'[q] # "idle"
                             /\ expires'[q][1] = contents'[e].expires
  BY <1>1, <1>2, <1>3 DEF Days, Exists
<1>6. \A e \in cleanup.batch : Exists(e)' /\ contents'[e].expires < day
  BY <1>2, <1>3, <1>4 DEF Days, Exists
<1>7. \A e \in Events : /\ Exists(e)' /\ contents'[e].deleted => contents'[e].expires < day
                        /\ ~Exists(e)' => ~contents'[e].file
  <2>1. expires[p][1] \in Nat
    BY DEF TypeOK
  <2>2. \A e \in Events : contents'[e] # contents[e] =>
                            ~contents'[e].deleted /\ contents'[e].expires \in Nat
    BY <1>2, <2>1 DEF Rows, TypeOK
  <2> QED
    BY <2>2 DEF Days, Exists
<1>8. /\ \A q \in Persists : UnderWay(q)' => expires'[q][1] = day' + ContentDays
      /\ \A q, r \in Persists :
           EventOf[q] = EventOf[r] /\ step'[q] # "idle" /\ step'[r] # "idle" =>
             expires'[q][1] = expires'[r][1]
  BY <1>1 DEF Days
<1>9. /\ \A e \in cleanup'.batch : Exists(e)' /\ contents'[e].expires < day'
      /\ \A e \in Events : /\ Exists(e)' /\ contents'[e].deleted => contents'[e].expires < day'
                           /\ ~Exists(e)' => ~contents'[e].file
  BY <1>6, <1>7
<1>10. /\ cleanup'.step = "idle" => cleanup'.batch = {}
       /\ \A k \in cleanup'.keys : k[1] \in cleanup'.batch
       /\ \A a \in cleanup'.rows : EventOf[a.id] \in cleanup'.batch
  BY DEF Days
<1> QED
  BY <1>5, <1>8, <1>9, <1>10 DEF Days, Exists

\* A step of the cleanup that goes on with its batch, or ends.
LEMMA CleanupKeepsDays ==
  ASSUME TypeOK, Days, UNCHANGED <<day, expires, step>>,
         \A e \in Events : /\ contents'[e].expires = contents[e].expires
                           /\ contents'[e].file = contents[e].file
                           /\ contents'[e].deleted => contents[e].deleted \/ e \in cleanup.batch,
         \/ /\ cleanup'.batch = cleanup.batch /\ cleanup'.keys = cleanup.keys
            /\ cleanup'.step # "idle"
            /\ \A a \in cleanup'.rows : a \in cleanup.rows \/ EventOf[a.id] \in cleanup.batch
         \/ cleanup' = NoJob
  PROVE  Days'
<1>1. cleanup'.batch \subseteq cleanup.batch /\ cleanup.batch \subseteq Events
  BY BatchType DEF NoJob
<1>2. \A e \in Events : Exists(e)' <=> Exists(e)
  BY DEF Exists
<1>3. /\ \A e \in cleanup'.batch : Exists(e)' /\ contents'[e].expires < day
      /\ cleanup'.step = "idle" => cleanup'.batch = {}
      /\ \A k \in cleanup'.keys : k[1] \in cleanup'.batch
      /\ \A a \in cleanup'.rows : EventOf[a.id] \in cleanup'.batch
  BY <1>1, <1>2 DEF Days, NoJob
<1>4. \A e \in Events : /\ Exists(e)' /\ contents'[e].deleted => contents'[e].expires < day
                        /\ ~Exists(e)' => ~contents'[e].file
  BY <1>2 DEF Days
<1> QED
  BY <1>2, <1>3, <1>4 DEF Days, UnderWay

LEMMA DaysSteps ==
  ASSUME TypeOK, Days, [Next]_vars
  PROVE  Days'
<1> USE DEF persisting, rows
<1>1. CASE UNCHANGED vars
  BY <1>1 DEF vars, Days, UnderWay, Exists
<1>2. ASSUME NEW p \in Persists, WriteAttachments(p) PROVE Days'
  <2>1. /\ step[p] = "idle" /\ step' = [step EXCEPT ![p] = "prompt"]
        /\ expires' = [expires EXCEPT ![p] = <<day + ContentDays, day + AttachmentDays>>]
        /\ UNCHANGED <<day, contents, cleanup>> /\ SameDay(p)
    BY <1>2 DEF WriteAttachments, Goto
  <2>2. /\ \A q \in Persists \ {p} : step'[q] = step[q] /\ expires'[q] = expires[q]
        /\ step'[p] = "prompt" /\ expires'[p][1] = day + ContentDays
    BY <2>1 DEF TypeOK
  <2>3. \A q \in Persists : UnderWay(q)' => expires'[q][1] = day + ContentDays
    BY <2>2 DEF UnderWay, Days
  <2>4. \A q, r \in Persists :
           EventOf[q] = EventOf[r] /\ step'[q] # "idle" /\ step'[r] # "idle" =>
             expires'[q][1] = expires'[r][1]
    BY <2>1, <2>2 DEF SameDay, Days
  <2>5. \A e \in Events : Exists(e) =>
           \E q \in Persists : /\ EventOf[q] = e /\ step'[q] # "idle"
                               /\ expires'[q][1] = contents[e].expires
    BY <2>1, <2>2 DEF Days
  <2> QED
    BY <2>1, <2>3, <2>4, <2>5 DEF Days, Exists
<1>3. ASSUME NEW p \in Persists,
             WritePrompt(p) \/ WriteRest(p) \/ ListPrevious(p) \/ Commit(p)
             \/ DeletePrevious(p) \/ PersistFails(p)
      PROVE  Days'
  <2>1. /\ UnderWay(p) /\ UNCHANGED <<day, expires, cleanup>>
        /\ UNCHANGED contents \/ Rows(p)
        /\ \E s \in {"rest", "list", "commit", "delete", "done"} : step' = [step EXCEPT ![p] = s]
    BY <1>3 DEF WritePrompt, WriteRest, ListPrevious, Commit, DeletePrevious, PersistFails,
                Goto, UnderWay
  <2> QED
    BY <2>1, CallKeepsDays
<1>4. CASE CleanupRead
  <2>1. PICK es \in SUBSET {e \in Events : Purgeable(e)} :
           cleanup' = [step |-> "unlink", batch |-> es, rows |-> {},
                       keys |-> UNION {ContentKeys(e) : e \in es}]
    BY <1>4 DEF CleanupRead
  <2>2. \A k \in cleanup'.keys : k[1] \in cleanup'.batch
    BY <2>1 DEF ContentKeys, Key
  <2>3. UNCHANGED <<day, contents, step, expires>>
    BY <1>4 DEF CleanupRead
  <2>4. \A e \in cleanup'.batch : Exists(e) /\ contents[e].expires < day
    BY <2>1 DEF Purgeable
  <2>5. cleanup'.step # "idle" /\ cleanup'.rows = {}
    BY <2>1
  <2> QED
    BY <2>2, <2>3, <2>4, <2>5 DEF Days, UnderWay, Exists
<1>5. CASE CleanupUnlink \/ CleanupReadAttachments \/ CleanupUnlinkAttachments
           \/ CleanupMarkAttachments \/ CleanupMark \/ CleanupFails
  <2>1. /\ UNCHANGED <<day, expires, step>>
        /\ \A e \in Events : /\ contents'[e].expires = contents[e].expires
                             /\ contents'[e].file = contents[e].file
                             /\ contents'[e].deleted =>
                                  contents[e].deleted \/ e \in cleanup.batch
    BY <1>5 DEF CleanupUnlink, CleanupReadAttachments, CleanupUnlinkAttachments,
                CleanupMarkAttachments, CleanupMark, CleanupFails, TypeOK
  <2>2. CASE CleanupMark \/ CleanupFails
    BY <2>1, <2>2, CleanupKeepsDays DEF CleanupMark, CleanupFails
  <2>3. CASE CleanupUnlink \/ CleanupReadAttachments \/ CleanupUnlinkAttachments
             \/ CleanupMarkAttachments
    <3>1. cleanup'.batch = cleanup.batch /\ cleanup'.keys = cleanup.keys
          /\ cleanup'.step # "idle"
          /\ \A a \in cleanup'.rows : a \in cleanup.rows \/ EventOf[a.id] \in cleanup.batch
      BY <2>3, ReadAttachmentsGoesOn, JobGoesOn
         DEF CleanupUnlink, CleanupUnlinkAttachments, CleanupMarkAttachments
    <3> QED
      BY <2>1, <3>1, CleanupKeepsDays
  <2> QED
    BY <1>5, <2>2, <2>3
<1>6. CASE NextDay
  <2>1. /\ day' = day + 1 /\ \A p \in Persists : ~UnderWay(p)'
        /\ UNCHANGED <<contents, step, expires, cleanup>>
    BY <1>6 DEF NextDay, UnderWay
  <2>2. \A e \in Events : contents[e].expires \in Int /\ day \in Int
    BY Calls DEF TypeOK
  <2>3. \A e \in Events : contents[e].expires < day => contents[e].expires < day'
    BY <2>1, <2>2
  <2> QED
    BY <2>1, <2>3, BatchType DEF Days, Exists
<1> QED
  BY <1>1, <1>2, <1>3, <1>4, <1>5, <1>6 DEF Next, Persist, Cleanup

-----------------------------------------------------------------------------
(* Replacements                                                            *)

\* Rows have the ids that rows had before.
SameIds == \A b \in attachments' : \E c \in attachments : b.id = c.id

\* A step that reads nothing to replace and commits nothing.
LEMMA ReplacesWaits ==
  ASSUME TypeOK, Replaces, SameIds, previous' = previous,
         \A q \in Persists :
           \/ step'[q] = step[q]
           \/ ~Committed(q) /\ step'[q] \in {"prompt", "rest", "list", "done"}
           \/ step[q] = "delete" /\ step'[q] = "done"
  PROVE  Replaces'
<1>1. \A q \in Persists : /\ Committed(q) => Committed(q)'
                          /\ step'[q] \in {"commit", "delete"} => step'[q] = step[q]
  BY DEF Committed
<1>2. /\ \A a \in attachments : a.id \in Persists
      /\ \A q \in Persists : \A a \in previous[q] : a.id \in Persists
  BY Calls DEF TypeOK, AttachmentRows
<1> QED
  BY <1>1, <1>2 DEF Replaces, SameIds

NewRows(p) ==
  {[id |-> a, expires |-> expires[p][2], deleted |-> FALSE] : a \in AttachmentsOf(p)}

LEMMA NewIds ==
  ASSUME NEW p \in Persists
  PROVE  {b.id : b \in NewRows(p)} = AttachmentsOf(p)
<1>1. ASSUME NEW a \in AttachmentsOf(p) PROVE a \in {b.id : b \in NewRows(p)}
  <2> DEFINE row == [id |-> a, expires |-> expires[p][2], deleted |-> FALSE]
  <2>1. row \in NewRows(p)
    BY DEF NewRows
  <2>2. row.id = a
    OBVIOUS
  <2> QED
    BY <2>1, <2>2
<1>2. \A b \in NewRows(p) : b.id \in AttachmentsOf(p)
  BY DEF NewRows
<1> QED
  BY <1>1, <1>2

\* What a call's rows do to the attachments.
LEMMA CommittedRows ==
  ASSUME TypeOK, NEW p \in Persists, Rows(p)
  PROVE  /\ \A b \in attachments' :
              \/ b \in attachments /\ EventOf[b.id] # EventOf[p]
              \/ b.id = p /\ ~b.deleted
         /\ RowsOf(EventOf[p])' = NewRows(p)
         /\ \A e \in Events \ {EventOf[p]} : RowsOf(e)' = RowsOf(e) /\ contents'[e] = contents[e]
         /\ contents'[EventOf[p]] = [expires |-> expires[p][1],
                                     file |-> contents[EventOf[p]].file \/ p \in WithFile,
                                     deleted |-> FALSE]
<1>1. /\ \A b \in attachments' :
              \/ b \in attachments /\ EventOf[b.id] # EventOf[p]
              \/ b \in NewRows(p)
      /\ \A b \in attachments : EventOf[b.id] # EventOf[p] => b \in attachments'
      /\ NewRows(p) \subseteq attachments'
  BY DEF Rows, RowsOf, NewRows
<1>2. \A b \in NewRows(p) : b.id = p /\ ~b.deleted
  BY Calls DEF NewRows
<1>3. EventOf[p] \in Events
  BY Calls
<1>4. \A e \in Events \ {EventOf[p]} : RowsOf(e)' = RowsOf(e)
  BY <1>1, <1>2 DEF RowsOf
<1>5. RowsOf(EventOf[p])' = NewRows(p)
  BY <1>1, <1>2 DEF RowsOf
<1>6. \A e \in Events \ {EventOf[p]} : contents'[e] = contents[e]
  BY DEF Rows, TypeOK
<1>7. contents'[EventOf[p]] = [expires |-> expires[p][1],
                               file |-> contents[EventOf[p]].file \/ p \in WithFile,
                               deleted |-> FALSE]
  BY <1>3 DEF Rows, TypeOK
<1> QED
  BY <1>1, <1>2, <1>4, <1>5, <1>6, <1>7

LEMMA CommittedElsewhere ==
  ASSUME TypeOK, NEW p \in Persists, Rows(p), NEW e \in Events, e # EventOf[p]
  PROVE  RowsOf(e)' = RowsOf(e) /\ contents'[e] = contents[e]
<1>1. \A b \in NewRows(p) : b.id = p
  BY Calls DEF NewRows
<1>2. attachments' = (attachments \ RowsOf(EventOf[p])) \cup NewRows(p)
  BY DEF Rows, NewRows
<1>3. RowsOf(e)' = {a \in attachments' : EventOf[a.id] = e}
  BY DEF RowsOf
<1>4. \A b \in RowsOf(EventOf[p]) : EventOf[b.id] = EventOf[p]
  BY DEF RowsOf
<1>5. RowsOf(e)' = RowsOf(e)
  BY <1>1, <1>2, <1>3, <1>4 DEF RowsOf
<1>6. contents'[e] = contents[e]
  BY DEF Rows, TypeOK
<1> QED
  BY <1>5, <1>6

LEMMA CommittedFile ==
  ASSUME TypeOK, NEW p \in Persists, Rows(p)
  PROVE  /\ contents'[EventOf[p]].file <=> (contents[EventOf[p]].file \/ p \in WithFile)
         /\ ~contents'[EventOf[p]].deleted
<1> DEFINE file == contents[EventOf[p]].file \/ p \in WithFile
<1>1. contents'[EventOf[p]] = [expires |-> expires[p][1], file |-> file, deleted |-> FALSE]
  BY CommittedRows
<1> HIDE DEF file
<1>2. (contents'[EventOf[p]].file <=> file) /\ ~contents'[EventOf[p]].deleted
  BY <1>1
<1> QED
  BY <1>2 DEF file

LEMMA CommitKeepsReplaces ==
  ASSUME TypeOK, Replaces, NEW p \in Persists, step[p] = "commit", Rows(p),
         previous' = previous, NEW s \in {"delete", "done"}, step' = [step EXCEPT ![p] = s]
  PROVE  Replaces'
<1>1. \A q \in Persists : /\ Committed(q) => Committed(q)'
                          /\ q # p => step'[q] = step[q]
  BY DEF Committed, TypeOK
<1>2. Committed(p)' /\ step'[p] = s /\ ~Committed(p)
  BY DEF Committed, TypeOK
<1>3. /\ \A a \in attachments : a.id \in Persists
      /\ \A q \in Persists : \A a \in previous[q] : a.id \in Persists
  BY Calls DEF TypeOK, AttachmentRows
<1>4. ASSUME NEW b \in attachments' PROVE Committed(b.id)'
  <2>1. CASE b \in attachments
    <3>1. Committed(b.id) /\ b.id \in Persists
      BY <1>3, <2>1 DEF Replaces
    <3> QED
      BY <1>1, <3>1
  <2>2. CASE b.id = p
    BY <1>2, <2>2 DEF Committed
  <2> QED
    BY <2>1, <2>2, CommittedRows
<1>5. \A q \in Persists : step'[q] \in {"commit", "delete"} =>
         \A a \in previous[q] : Committed(a.id)' /\ EventOf[a.id] = EventOf[q] /\ a.id # q
  BY <1>1, <1>2, <1>3 DEF Replaces
<1>6. ASSUME NEW q \in Persists, step'[q] = "delete", NEW a \in previous[q], NEW b \in attachments'
      PROVE  a.id # b.id
  <2>1. Committed(a.id) /\ EventOf[a.id] = EventOf[q]
    BY <1>1, <1>6 DEF Replaces
  <2>2. CASE b.id = p
    BY <1>2, <2>1, <2>2
  <2>3. CASE b \in attachments /\ EventOf[b.id] # EventOf[p]
    BY <1>1, <1>6, <2>1, <2>3 DEF Replaces
  <2> QED
    BY <2>2, <2>3, CommittedRows
<1> QED
  BY <1>4, <1>5, <1>6 DEF Replaces

LEMMA ReplacesSteps ==
  ASSUME TypeOK, Replaces, [Next]_vars
  PROVE  Replaces'
<1> USE DEF persisting, rows
<1>1. CASE UNCHANGED vars
  BY <1>1, ReplacesWaits DEF vars, SameIds
<1>2. ASSUME NEW p \in Persists,
             WriteAttachments(p) \/ WritePrompt(p) \/ WriteRest(p) \/ DeletePrevious(p)
      PROVE  Replaces'
  <2>1. UNCHANGED <<attachments, previous>>
    BY <1>2 DEF WriteAttachments, WritePrompt, WriteRest, DeletePrevious
  <2>2. \A q \in Persists :
           \/ step'[q] = step[q]
           \/ ~Committed(q) /\ step'[q] \in {"prompt", "rest", "list", "done"}
           \/ step[q] = "delete" /\ step'[q] = "done"
    BY <1>2 DEF WriteAttachments, WritePrompt, WriteRest, DeletePrevious, Goto, Committed, TypeOK
  <2> QED
    BY <2>1, <2>2, ReplacesWaits DEF SameIds
<1>3. ASSUME NEW p \in Persists, ListPrevious(p) PROVE Replaces'
  <2>1. /\ step[p] = "list" /\ attachments' = attachments
        /\ previous'[p] = RowsOf(EventOf[p]) /\ step'[p] = "commit"
        /\ \A q \in Persists \ {p} : previous'[q] = previous[q] /\ step'[q] = step[q]
    BY <1>3 DEF ListPrevious, Goto, TypeOK
  <2>2. \A q \in Persists : Committed(q) => Committed(q)' /\ q # p
    BY <2>1 DEF Committed
  <2>3. /\ \A a \in attachments : a.id \in Persists
        /\ \A q \in Persists : \A a \in previous[q] : a.id \in Persists
    BY Calls DEF TypeOK, AttachmentRows
  <2> QED
    BY <2>1, <2>2, <2>3 DEF Replaces, RowsOf
<1>4. ASSUME NEW p \in Persists, Commit(p) PROVE Replaces'
  BY <1>4, CommitKeepsReplaces DEF Commit, Goto
<1>5. ASSUME NEW p \in Persists, PersistFails(p) PROVE Replaces'
  <2>1. CASE UNCHANGED attachments
    <3>1. \A q \in Persists :
             \/ step'[q] = step[q]
             \/ ~Committed(q) /\ step'[q] \in {"prompt", "rest", "list", "done"}
             \/ step[q] = "delete" /\ step'[q] = "done"
      BY <1>5 DEF PersistFails, UnderWay, Committed, TypeOK
    <3> QED
      BY <1>5, <2>1, <3>1, ReplacesWaits DEF PersistFails, SameIds
  <2>2. CASE step[p] = "commit" /\ Rows(p)
    BY <1>5, <2>2, CommitKeepsReplaces DEF PersistFails
  <2> QED
    BY <1>5, <2>1, <2>2 DEF PersistFails
<1>6. CASE Cleanup \/ CleanupFails \/ NextDay
  <2>1. SameIds
    BY <1>6 DEF Cleanup, CleanupRead, CleanupUnlink, CleanupReadAttachments,
                CleanupUnlinkAttachments, CleanupMarkAttachments, CleanupMark, CleanupFails,
                NextDay, SameIds, TypeOK, AttachmentRows
  <2>2. UNCHANGED <<step, previous>>
    BY <1>6 DEF Cleanup, CleanupRead, CleanupUnlink, CleanupReadAttachments,
                CleanupUnlinkAttachments, CleanupMarkAttachments, CleanupMark, CleanupFails,
                NextDay
  <2> QED
    BY <2>1, <2>2, ReplacesWaits
<1> QED
  BY <1>1, <1>2, <1>3, <1>4, <1>5, <1>6 DEF Next, Persist

-----------------------------------------------------------------------------
(* Readable                                                                *)

Needed(e) == ContentKeys(e) \cup RowKeys(RowsOf(e))

\* None of the files that are removed is one that a call has in hand or a live content needs.
Spares(gone) ==
  /\ \A p \in Persists : UnderWay(p) /\ step[p] # "delete" => InHand(p) \cap gone = {}
  /\ \A e \in Events : Live(e) => Needed(e) \cap gone = {}

\* The cleanup only removes files of contents that have expired.
LEMMA CleanupSpares ==
  ASSUME TypeOK, Days, NEW gone, \A k \in gone : k[1] \in cleanup.batch
  PROVE  Spares(gone)
<1>1. \A p \in Persists : \A k \in InHand(p) : k[1] = EventOf[p]
  BY DEF InHand, Own, RestOf, Key
<1>2. \A e \in Events : \A k \in Needed(e) : k[1] = e
  BY DEF Needed, ContentKeys, RowKeys, RowsOf, Key
<1>3. \A p \in Persists : UnderWay(p) => EventOf[p] \notin cleanup.batch
  BY ExpiredIsLeftAlone
<1>4. \A e \in Events : Live(e) => e \notin cleanup.batch
  <2>1. \A e \in Events : contents[e].expires \in Int /\ day \in Int
    BY Calls DEF TypeOK
  <2> QED
    BY <2>1 DEF Days, Live
<1> QED
  BY <1>1, <1>2, <1>3, <1>4 DEF Spares

\* A call only removes attachments that no row names and that no other call has in hand.
LEMMA PreviousSpared ==
  ASSUME TypeOK, Replaces, NEW p \in Persists, step[p] = "delete",
         NEW gone, gone \subseteq RowKeys(previous[p])
  PROVE  Spares(gone)
<1>1. \A a \in previous[p] : /\ Committed(a.id) /\ a.id \notin {"prompt", "response", "file"}
                             /\ \A b \in attachments : a.id # b.id
  BY Calls DEF Replaces, TypeOK, AttachmentRows
<1>2. \A k \in gone : \E a \in previous[p] : k[2] = a.id
  BY DEF RowKeys, Key
<1>3. ASSUME NEW q \in Persists, UnderWay(q), step[q] # "delete", NEW k \in InHand(q)
      PROVE  k \notin gone
  <2>1. ~Committed(q)
    BY <1>3 DEF Committed, UnderWay
  <2>2. k[2] = q \/ k[2] \in {"prompt", "response", "file"}
    BY <1>3, Calls DEF InHand, Own, RestOf, Key
  <2> QED
    BY <1>1, <1>2, <2>1, <2>2
<1>4. ASSUME NEW e \in Events, NEW k \in Needed(e) PROVE k \notin gone
  <2>1. k[2] \in {"prompt", "response", "file"} \/ \E b \in attachments : k[2] = b.id
    BY <1>4 DEF Needed, ContentKeys, RowKeys, RowsOf, Key
  <2> QED
    BY <1>1, <1>2, <2>1
<1> QED
  BY <1>3, <1>4 DEF Spares

\* Removing files that are spared.
LEMMA SparedIsReadable ==
  ASSUME TypeOK, Readable, NEW gone, Spares(gone), blobs' = blobs \ gone, UNCHANGED rows, day' = day,
         \A p \in Persists : step'[p] = step[p] \/ step'[p] = "done"
  PROVE  Readable'
<1>1. ASSUME NEW p \in Persists PROVE Written(p)'
  <2>1. CASE step'[p] = "done"
    BY <2>1 DEF Written
  <2>2. CASE step'[p] \in {"prompt", "rest", "list", "commit"} /\ step'[p] = step[p]
    <3>1. InHand(p) \cap gone = {} /\ Written(p)
      BY <2>2 DEF Spares, UnderWay, Readable
    <3> QED
      BY <2>2, <3>1 DEF Written, InHand, Own, RestOf, AttachmentsOf, Key
  <2>3. CASE step'[p] \notin {"prompt", "rest", "list", "commit"}
    BY <2>3 DEF Written
  <2> QED
    BY <1>1, <2>1, <2>2, <2>3
<1>2. \A e \in Events : Live(e)' => Live(e) /\ Needed(e)' = Needed(e)
  BY DEF Live, Exists, Needed, ContentKeys, RowKeys, RowsOf, rows
<1> QED
  BY <1>1, <1>2 DEF Readable, Spares, Needed

\* A step that removes no file, and makes no content live nor gives one more keys.
LEMMA GrowingIsReadable ==
  ASSUME TypeOK, Readable, blobs \subseteq blobs',
         \A p \in Persists : step'[p] = step[p] \/ Written(p)',
         \A e \in Events : Live(e)' => Live(e) /\ Needed(e)' = Needed(e)
  PROVE  Readable'
<1>1. ASSUME NEW p \in Persists, step'[p] = step[p] PROVE Written(p)'
  BY <1>1 DEF Readable, Written, Own, RestOf, AttachmentsOf, Key
<1> QED
  BY <1>1 DEF Readable, Needed

\* The rows of a call name what it has written, and what the row named before.
LEMMA CommittedIsReadable ==
  ASSUME TypeOK, Days, Readable, NEW p \in Persists, step[p] = "commit", Rows(p),
         blobs' = blobs, day' = day,
         NEW s \in {"delete", "done"}, step' = [step EXCEPT ![p] = s]
  PROVE  Readable'
<1> DEFINE e == EventOf[p]
<1>1. e \in Events /\ Own(p) \cup RestOf(p) \cup {Key(e, "prompt")} \subseteq blobs
  BY Calls DEF Readable, Written
<1>2. contents[e].file => Key(e, "file") \in blobs
  <2>1. contents[e].file => Live(e)
    BY <1>1, ExpiredIsLeftAlone DEF Days, UnderWay
  <2> QED
    BY <1>1, <2>1 DEF Readable, ContentKeys
<1>3. Needed(e)' \subseteq blobs
  <2>1. RowKeys(NewRows(p)) \subseteq Own(p)
    BY Calls DEF RowKeys, NewRows, Own
  <2>2. RowKeys(RowsOf(e))' = RowKeys(NewRows(p))
    BY CommittedRows DEF RowKeys
  <2>3. contents'[e].file <=> (contents[e].file \/ p \in WithFile)
    BY CommittedFile
  <2>4. ContentKeys(e)' \subseteq blobs
    BY <1>1, <1>2, <2>3 DEF ContentKeys, RestOf, Key
  <2> QED
    BY <1>1, <2>1, <2>2, <2>4 DEF Needed
<1>4. \A f \in Events \ {e} : Live(f)' => Live(f) /\ Needed(f)' = Needed(f)
  <2>1. \A f \in Events \ {e} : RowsOf(f)' = RowsOf(f) /\ contents'[f] = contents[f]
    BY CommittedRows
  <2> QED
    BY <2>1 DEF Live, Exists, Needed, ContentKeys, RowKeys, Key
<1>5. \A q \in Persists : Written(q)'
  <2>1. \A q \in Persists : step'[q] = step[q] \/ step'[q] = s
    BY DEF TypeOK
  <2> QED
    BY <2>1 DEF Readable, Written, Own, RestOf, AttachmentsOf, Key
<1> QED
  BY <1>3, <1>4, <1>5 DEF Readable, Needed

\* Marking rows keeps their ids.
LEMMA MarkedRows ==
  ASSUME TypeOK, CleanupMarkAttachments, NEW e \in Events
  PROVE  /\ RowKeys(RowsOf(e))' = RowKeys(RowsOf(e))
         /\ \A b \in attachments' : \E a \in attachments :
              /\ b.id = a.id
              /\ \/ b = a /\ \A c \in cleanup.rows : c.id # a.id
                 \/ b.deleted /\ \E c \in cleanup.rows : c.id = a.id
<1> DEFINE Marked(a) == IF \E c \in cleanup.rows : c.id = a.id THEN [a EXCEPT !.deleted = TRUE] ELSE a
<1>1. attachments' = {Marked(a) : a \in attachments}
  BY DEF CleanupMarkAttachments
<1>2. \A a \in attachments : Marked(a).id = a.id
  BY DEF TypeOK, AttachmentRows
<1>3. \A a \in attachments : \/ Marked(a) = a /\ \A c \in cleanup.rows : c.id # a.id
                             \/ Marked(a).deleted /\ \E c \in cleanup.rows : c.id = a.id
  BY DEF TypeOK, AttachmentRows
<1> HIDE DEF Marked
<1>4. /\ \A b \in attachments' : \E a \in attachments : b = Marked(a)
      /\ \A a \in attachments : Marked(a) \in attachments'
  BY <1>1
<1>5. RowKeys(RowsOf(e))' = {Key(EventOf[b.id], b.id) : b \in {b \in attachments' : EventOf[b.id] = e}}
  BY DEF RowKeys, RowsOf, Key
<1>6. RowKeys(RowsOf(e))' = RowKeys(RowsOf(e))
  BY <1>2, <1>4, <1>5 DEF RowKeys, RowsOf, Key
<1> QED
  BY <1>2, <1>3, <1>4, <1>6

LEMMA UnlinkGone ==
  ASSUME NEW keys, Unlink(keys)
  PROVE  \E gone \in SUBSET keys : blobs' = blobs \ gone
  BY DEF Unlink

LEMMA ReadableSteps ==
  ASSUME TypeOK, Days, Replaces, Readable, [Next]_vars
  PROVE  Readable'
<1> USE DEF persisting, rows
<1>1. ASSUME NEW p \in Persists, WriteAttachments(p) \/ WritePrompt(p) \/ WriteRest(p) \/ ListPrevious(p)
      PROVE  Readable'
  <2>1. UNCHANGED <<day, contents, attachments>> /\ blobs \subseteq blobs'
    BY <1>1 DEF WriteAttachments, WritePrompt, WriteRest, ListPrevious
  <2>2. \A e \in Events : Live(e)' => Live(e) /\ Needed(e)' = Needed(e)
    BY <2>1 DEF Live, Exists, Needed, ContentKeys, RowKeys, RowsOf, Key
  <2>3. \A q \in Persists \ {p} : step'[q] = step[q]
    BY <1>1 DEF WriteAttachments, WritePrompt, WriteRest, ListPrevious, Goto, TypeOK
  <2>4. Written(p) /\ step[p] \in {"idle", "prompt", "rest", "list"}
    BY <1>1 DEF Readable, WriteAttachments, WritePrompt, WriteRest, ListPrevious, Goto
  <2>5. Written(p)'
    <3>1. CASE WriteAttachments(p)
      BY <3>1 DEF WriteAttachments, Goto, Written, Own, TypeOK
    <3>2. CASE WritePrompt(p)
      BY <2>4, <3>2 DEF WritePrompt, Goto, Written, Own, TypeOK
    <3>3. CASE WriteRest(p)
      BY <2>4, <3>3 DEF WriteRest, Goto, Written, Own, RestOf, TypeOK
    <3>4. CASE ListPrevious(p)
      BY <2>4, <3>4 DEF ListPrevious, Goto, Written, Own, RestOf, TypeOK
    <3> QED
      BY <1>1, <3>1, <3>2, <3>3, <3>4
  <2> QED
    BY <2>1, <2>2, <2>3, <2>5, GrowingIsReadable
<1>2. ASSUME NEW p \in Persists, Commit(p) PROVE Readable'
  BY <1>2, CommittedIsReadable DEF Commit, Goto
<1>3. ASSUME NEW p \in Persists, PersistFails(p) PROVE Readable'
  <2>1. CASE UNCHANGED rows
    <3>1. UNCHANGED <<day, blobs, contents, attachments>>
      BY <1>3, <2>1 DEF PersistFails
    <3>2. \A e \in Events : Live(e)' => Live(e) /\ Needed(e)' = Needed(e)
      BY <3>1 DEF Live, Exists, Needed, ContentKeys, RowKeys, RowsOf, Key
    <3>3. \A q \in Persists : step'[q] = step[q] \/ step'[q] = "done"
      BY <1>3 DEF PersistFails, TypeOK
    <3>4. \A q \in Persists : step'[q] = step[q] \/ Written(q)'
      BY <3>3 DEF Written
    <3> QED
      BY <3>1, <3>2, <3>4, GrowingIsReadable
  <2>2. CASE step[p] = "commit" /\ Rows(p)
    BY <1>3, <2>2, CommittedIsReadable DEF PersistFails
  <2> QED
    BY <1>3, <2>1, <2>2 DEF PersistFails
<1>4. ASSUME NEW p \in Persists, DeletePrevious(p) PROVE Readable'
  <2>1. PICK gone \in SUBSET RowKeys(previous[p]) : blobs' = blobs \ gone
    BY <1>4 DEF DeletePrevious
  <2>2. Spares(gone)
    BY <1>4, <2>1, PreviousSpared DEF DeletePrevious, Goto
  <2>3. UNCHANGED rows /\ day' = day /\ \A q \in Persists : step'[q] = step[q] \/ step'[q] = "done"
    BY <1>4 DEF DeletePrevious, Goto, TypeOK
  <2> QED
    BY <2>1, <2>2, <2>3, SparedIsReadable
<1>5. CASE CleanupUnlink \/ CleanupUnlinkAttachments
  <2>1. PICK keys : Unlink(keys) /\ \A k \in keys : k[1] \in cleanup.batch
    BY <1>5 DEF CleanupUnlink, CleanupUnlinkAttachments, Days, RowKeys, Key
  <2>2. PICK gone \in SUBSET keys : blobs' = blobs \ gone
    BY <2>1, UnlinkGone
  <2>3. Spares(gone)
    BY <2>1, <2>2, CleanupSpares
  <2>4. UNCHANGED rows /\ day' = day /\ step' = step
    BY <1>5 DEF CleanupUnlink, CleanupUnlinkAttachments
  <2> QED
    BY <2>2, <2>3, <2>4, SparedIsReadable
<1>6. CASE \/ UNCHANGED vars \/ CleanupRead \/ CleanupReadAttachments \/ CleanupFails
           \/ CleanupMarkAttachments \/ CleanupMark \/ NextDay
  <2>1. blobs' = blobs /\ step' = step
    BY <1>6 DEF vars, CleanupRead, CleanupReadAttachments, CleanupFails, CleanupMarkAttachments,
                CleanupMark, NextDay
  <2>2. \A e \in Events : Live(e)' => Live(e) /\ Needed(e)' = Needed(e)
    <3>1. CASE \/ UNCHANGED vars \/ CleanupRead \/ CleanupReadAttachments \/ CleanupFails
      BY <3>1 DEF vars, CleanupRead, CleanupReadAttachments, CleanupFails,
                  Live, Exists, Needed, ContentKeys, RowKeys, RowsOf, Key
    <3>2. CASE CleanupMarkAttachments
      <4>1. UNCHANGED <<day, contents>>
        BY <3>2 DEF CleanupMarkAttachments
      <4>2. \A e \in Events : RowKeys(RowsOf(e))' = RowKeys(RowsOf(e))
        BY <3>2, MarkedRows
      <4> QED
        BY <4>1, <4>2 DEF Live, Exists, Needed, ContentKeys, Key
    <3>3. CASE CleanupMark
      <4>1. /\ UNCHANGED <<day, attachments>>
            /\ \A e \in Events : \/ contents'[e].deleted /\ contents'[e].file = contents[e].file
                                 \/ contents'[e] = contents[e]
        BY <3>3 DEF CleanupMark, TypeOK
      <4> QED
        BY <4>1 DEF Live, Exists, Needed, ContentKeys, RowKeys, RowsOf, Key
    <3>4. CASE NextDay
      <4>1. day' = day + 1 /\ UNCHANGED <<contents, attachments>>
        BY <3>4 DEF NextDay
      <4>2. day \in Int /\ \A e \in Events : contents[e].expires \in Int
        BY Calls DEF TypeOK
      <4>3. \A e \in Events : Needed(e)' = Needed(e)
        BY <4>1 DEF Needed, ContentKeys, RowKeys, RowsOf, Key
      <4> QED
        BY <4>1, <4>2, <4>3 DEF Live, Exists
    <3> QED
      BY <1>6, <3>1, <3>2, <3>3, <3>4
  <2> QED
    BY <2>1, <2>2, GrowingIsReadable
<1> QED
  BY <1>1, <1>2, <1>3, <1>4, <1>5, <1>6 DEF Next, Persist, Cleanup


-----------------------------------------------------------------------------
(* Kept                                                                    *)

Fine(e) == Calling(e) /\ Resting(e) /\ Cleaning(e)

\* A step that leaves an event alone.
LEMMA FineElsewhere ==
  ASSUME TypeOK, NEW e \in Events, Fine(e),
         \A p \in Persists : EventOf[p] = e => step'[p] = step[p] /\ previous'[p] = previous[p],
         BlobsOf(e)' = BlobsOf(e), RowsOf(e)' = RowsOf(e),
         contents'[e] = contents[e], named'[e] = named[e], Live(e)' => Live(e),
         cleanup' = cleanup \/ (e \notin cleanup.batch /\ e \notin cleanup'.batch)
  PROVE  Fine(e)'
<1>1. /\ CallsOf(e)' = CallsOf(e)
      /\ \A p \in CallsOf(e) : step'[p] = step[p] /\ previous'[p] = previous[p]
  BY DEF CallsOf, UnderWay
<1>2. LiveRows(e)' = LiveRows(e) /\ ContentKeys(e)' = ContentKeys(e)
  BY DEF LiveRows, ContentKeys, Key
<1>3. Named(e)' = Named(e) /\ Settled(e)' = Settled(e)
  BY <1>2 DEF Named, Settled, RowKeys, Key
<1>4. \A p : /\ InHand(p)' = InHand(p) /\ AttachmentsOf(p)' = AttachmentsOf(p)
  BY DEF InHand, Own, RestOf, AttachmentsOf, Key
<1>5. \A p \in CallsOf(e) : RowKeys(previous[p])' = RowKeys(previous[p])
  BY <1>1 DEF RowKeys, Key
<1>6. Calling(e)'
  BY <1>1, <1>3, <1>4, <1>5 DEF Fine, Calling
<1>7. Resting(e)' /\ Cleaning(e)'
  BY <1>1, <1>2, <1>3 DEF Fine, Resting, Cleaning, RowKeys, Key
<1> QED
  BY <1>6, <1>7 DEF Fine

\* The only call for an event goes on.
LEMMA FineAtCall ==
  ASSUME TypeOK, NEW p \in Persists, NEW e \in Events, e = EventOf[p],
         e \notin cleanup.batch, cleanup' = cleanup,
         step'[p] \notin {"idle", "done"},
         \A q \in CallsOf(e) : q = p,
         \A q \in Persists \ {p} : step'[q] = step[q],
         step'[p] # "delete" => BlobsOf(e)' \subseteq Settled(e)' \cup InHand(p),
         step'[p] = "delete" => /\ BlobsOf(e)' \subseteq Settled(e)' \cup RowKeys(previous'[p])
                                /\ Named(e)' = AttachmentsOf(p),
         step'[p] = "commit" => previous'[p] = RowsOf(e)',
         step'[p] # "prompt" => named'[e] = AttachmentsOf(p)
  PROVE  Fine(e)'
<1>1. CallsOf(e)' = {p}
  BY DEF CallsOf, UnderWay
<1>2. InHand(p)' = InHand(p) /\ AttachmentsOf(p)' = AttachmentsOf(p)
      /\ RowKeys(previous[p])' = RowKeys(previous'[p])
  BY DEF InHand, Own, RestOf, AttachmentsOf, RowKeys, Key
<1>3. Calling(e)'
  BY <1>1, <1>2 DEF Calling
<1>4. Resting(e)' /\ Cleaning(e)'
  BY <1>1 DEF Resting, Cleaning
<1> QED
  BY <1>3, <1>4 DEF Fine

\* What is known of the call that is under way for an event.
LEMMA OneCall ==
  ASSUME TypeOK, Days, NEW p \in Persists, UnderWay(p), Fine(EventOf[p])
  PROVE  /\ EventOf[p] \in Events /\ EventOf[p] \notin cleanup.batch
         /\ \A q \in CallsOf(EventOf[p]) : q = p
         /\ step[p] # "delete" => BlobsOf(EventOf[p]) \subseteq Settled(EventOf[p]) \cup InHand(p)
         /\ step[p] = "delete" =>
              /\ BlobsOf(EventOf[p]) \subseteq Settled(EventOf[p]) \cup RowKeys(previous[p])
              /\ Named(EventOf[p]) = AttachmentsOf(p)
         /\ step[p] = "commit" => previous[p] = RowsOf(EventOf[p])
         /\ step[p] # "prompt" => named[EventOf[p]] = AttachmentsOf(p)
<1>1. p \in CallsOf(EventOf[p])
  BY DEF CallsOf
<1> QED
  BY <1>1, Calls, ExpiredIsLeftAlone DEF Fine, Calling

\* What a call writes has the event's keys.
LEMMA OwnKeys ==
  ASSUME NEW p \in Persists
  PROVE  \A k \in InHand(p) : k[1] = EventOf[p]
  BY DEF InHand, Own, RestOf, Key

LEMMA PreviousKeys ==
  ASSUME Replaces, NEW p \in Persists, step[p] = "delete"
  PROVE  \A k \in RowKeys(previous[p]) : k[1] = EventOf[p]
  BY DEF Replaces, RowKeys, Key

LEMMA WriteKeepsFine ==
  ASSUME TypeOK, Days, NEW p \in Persists, NEW e \in Events, e = EventOf[p], Fine(e),
         e \notin overlapped',
         WriteAttachments(p) \/ WritePrompt(p) \/ WriteRest(p) \/ ListPrevious(p)
  PROVE  Fine(e)'
<1> USE DEF rows
<1>1. /\ UNCHANGED <<contents, attachments, cleanup>>
      /\ \A q \in Persists \ {p} : step'[q] = step[q]
      /\ step'[p] \in {"prompt", "rest", "list", "commit"}
  BY DEF WriteAttachments, WritePrompt, WriteRest, ListPrevious, Goto, TypeOK
<1>2. Settled(e)' = Settled(e) /\ RowsOf(e)' = RowsOf(e)
  BY <1>1 DEF Settled, LiveRows, RowsOf, RowKeys, ContentKeys, Key
<1>3. \A k \in blobs' : k \in blobs \/ k \in InHand(p)
  BY DEF WriteAttachments, WritePrompt, WriteRest, ListPrevious, InHand, Own, RestOf
<1>4. BlobsOf(e)' \subseteq BlobsOf(e) \cup InHand(p)
  BY <1>3 DEF BlobsOf
<1>5. CASE WriteAttachments(p)
  <2>1. e \notin cleanup.batch
    BY <1>5, ExpiredIsLeftAlone DEF WriteAttachments
  <2>2. \A q \in CallsOf(e) : q = p
    BY <1>5 DEF WriteAttachments, CallsOf
  <2>3. CallsOf(e) = {}
    BY <1>5, <2>2 DEF WriteAttachments, Goto, CallsOf, UnderWay
  <2>4. BlobsOf(e) \subseteq Settled(e)
    BY <2>1, <2>3 DEF Fine, Resting
  <2>5. step'[p] = "prompt"
    BY <1>5 DEF WriteAttachments, Goto, TypeOK
  <2> QED
    BY <1>1, <1>2, <1>4, <2>1, <2>2, <2>4, <2>5, FineAtCall
<1>6. CASE WritePrompt(p) \/ WriteRest(p) \/ ListPrevious(p)
  <2>1. UnderWay(p) /\ step[p] # "delete"
    BY <1>6 DEF WritePrompt, WriteRest, ListPrevious, Goto, UnderWay
  <2>2. /\ e \notin cleanup.batch /\ \A q \in CallsOf(e) : q = p
        /\ BlobsOf(e) \subseteq Settled(e) \cup InHand(p)
    BY <2>1, OneCall
  <2>3. named'[e] = AttachmentsOf(p)
    BY <1>6, <2>1, OneCall DEF WritePrompt, WriteRest, ListPrevious, Goto, TypeOK
  <2>4. step'[p] = "commit" => previous'[p] = RowsOf(e)'
    BY <1>2, <1>6 DEF WritePrompt, WriteRest, ListPrevious, Goto, TypeOK
  <2> QED
    BY <1>1, <1>2, <1>4, <2>2, <2>3, <2>4, FineAtCall
<1> QED
  BY <1>5, <1>6

LEMMA CommitKeepsFine ==
  ASSUME TypeOK, Days, NEW p \in Persists, NEW e \in Events, e = EventOf[p], Fine(e), Commit(p)
  PROVE  Fine(e)'
<1> USE DEF rows
<1>1. /\ step[p] = "commit" /\ UnderWay(p) /\ Rows(p) /\ step'[p] = "delete"
      /\ UNCHANGED <<blobs, named, previous, cleanup>>
      /\ \A q \in Persists \ {p} : step'[q] = step[q]
  BY DEF Commit, Goto, UnderWay, TypeOK
<1>2. /\ BlobsOf(e) \subseteq Settled(e) \cup InHand(p) /\ previous[p] = RowsOf(e)
      /\ named[e] = AttachmentsOf(p)
  BY <1>1, OneCall
<1>3. RowsOf(e)' = NewRows(p) /\ ~contents'[e].deleted
  <2>1. RowsOf(e)' = NewRows(p)
    BY <1>1, CommittedRows DEF RowsOf
  <2>2. ~contents'[e].deleted
    BY <1>1, CommittedFile
  <2> QED
    BY <2>1, <2>2
<1>4. contents'[e].file <=> (contents[e].file \/ p \in WithFile)
  BY <1>1, CommittedFile
<1>5. LiveRows(e)' = NewRows(p)
  BY <1>3 DEF LiveRows, NewRows
<1>6. Named(e)' = AttachmentsOf(p)
  <2>1. Named(e)' = {a.id : a \in NewRows(p)}
    BY <1>5 DEF Named
  <2> QED
    BY <2>1, NewIds
<1>7. RowKeys(LiveRows(e))' = Own(p)
  <2>1. RowKeys(LiveRows(e))' = RowKeys(NewRows(p))
    BY <1>5 DEF RowKeys, Key
  <2>2. RowKeys(NewRows(p)) = Own(p)
    BY Calls, NewIds DEF RowKeys, Own
  <2> QED
    BY <2>1, <2>2
<1>8. ContentKeys(e)' \subseteq Settled(e)' /\ Own(p) \subseteq Settled(e)'
  BY <1>3, <1>7 DEF Settled
<1>9. ContentKeys(e) \cup InHand(p) \subseteq Settled(e)'
  BY <1>4, <1>8 DEF ContentKeys, InHand, RestOf, Key
<1>10. RowKeys(LiveRows(e)) \subseteq RowKeys(previous[p])
  BY <1>2 DEF RowKeys, LiveRows
<1>11. BlobsOf(e)' = BlobsOf(e)
  BY <1>1 DEF BlobsOf
<1>12. BlobsOf(e)' \subseteq Settled(e)' \cup RowKeys(previous'[p])
  <2>1. Settled(e) \subseteq RowKeys(previous[p]) \cup ContentKeys(e)
    BY <1>10 DEF Settled
  <2> QED
    BY <1>1, <1>2, <1>9, <1>11, <2>1
<1>13. e \notin cleanup.batch /\ \A q \in CallsOf(e) : q = p
  BY <1>1, OneCall
<1> QED
  BY <1>1, <1>2, <1>6, <1>12, <1>13, FineAtCall

LEMMA DeleteKeepsFine ==
  ASSUME TypeOK, Days, NEW p \in Persists, NEW e \in Events, e = EventOf[p], Fine(e),
         DeletePrevious(p)
  PROVE  Fine(e)'
<1> USE DEF rows
<1>1. /\ step[p] = "delete" /\ UnderWay(p) /\ step'[p] = "done"
      /\ UNCHANGED <<day, contents, attachments, named, cleanup>>
      /\ \A q \in Persists \ {p} : step'[q] = step[q]
      /\ blobs' = blobs \ (RowKeys(previous[p]) \ Own(p))
  BY DEF DeletePrevious, Goto, UnderWay, Own, TypeOK
<1>2. /\ BlobsOf(e) \subseteq Settled(e) \cup RowKeys(previous[p])
      /\ Named(e) = AttachmentsOf(p) /\ named[e] = AttachmentsOf(p)
      /\ e \notin cleanup.batch /\ \A q \in CallsOf(e) : q = p
  BY <1>1, OneCall
<1>3. CallsOf(e)' = {}
  BY <1>1, <1>2 DEF CallsOf, UnderWay
<1>4. Own(p) \subseteq Settled(e)
  <2>1. \A a \in AttachmentsOf(p) : \E b \in LiveRows(e) : b.id = a /\ EventOf[b.id] = e
    BY <1>2 DEF Named, LiveRows, RowsOf
  <2> QED
    BY <2>1 DEF Own, Settled, RowKeys
<1>5. BlobsOf(e)' \subseteq Settled(e)
  BY <1>1, <1>2, <1>4 DEF BlobsOf
<1>6. Settled(e)' = Settled(e) /\ Named(e)' = Named(e)
  BY <1>1 DEF Settled, Named, LiveRows, RowsOf, RowKeys, ContentKeys, Key
<1>7. named'[e] = Named(e)'
  BY <1>1, <1>2, <1>6
<1> QED
  BY <1>1, <1>2, <1>3, <1>5, <1>6, <1>7 DEF Fine, Calling, Resting, Cleaning


\* What the cleanup is at has no call under way and is not live.
LEMMA Expired ==
  ASSUME TypeOK, Days, NEW e \in cleanup.batch
  PROVE  e \in Events /\ CallsOf(e) = {} /\ ~Live(e)
<1>1. e \in Events /\ day \in Int /\ contents[e].expires \in Int
  BY BatchType, Calls DEF TypeOK
<1>2. ~Live(e)
  BY <1>1 DEF Days, Live
<1> QED
  BY <1>1, <1>2, ExpiredIsLeftAlone DEF CallsOf

\* An unlink that does not fail removes its keys, which are the batch's.
LEMMA UnlinkAll ==
  ASSUME TypeOK, NEW keys, Unlink(keys), failures' = 0, NEW e \in Events
  PROVE  BlobsOf(e)' = BlobsOf(e) \ keys
<1>1. failures' # failures + 1
  BY DEF TypeOK
<1>2. blobs' = blobs \ keys
  BY <1>1 DEF Unlink, Fails
<1> QED
  BY <1>2 DEF BlobsOf

\* A step of the cleanup at an event of its batch.
LEMMA FineAtCleanup ==
  ASSUME TypeOK, Days, NEW e \in Events, e \in cleanup.batch, step' = step,
         UNCHANGED <<day, contents>> \/ ~Live(e)',
         cleanup'.step = "unlink" => /\ BlobsOf(e)' \subseteq Settled(e)'
                                     /\ ContentKeys(e)' \subseteq cleanup'.keys,
         cleanup'.step \in {"read", "attachments"} => BlobsOf(e)' \subseteq RowKeys(LiveRows(e))',
         cleanup'.step = "attachments" => LiveRows(e)' \subseteq cleanup'.rows,
         cleanup'.step \in {"marka", "mark"} => BlobsOf(e)' = {},
         e \notin cleanup'.batch => BlobsOf(e)' = {}
  PROVE  Fine(e)'
<1>1. CallsOf(e)' = {}
  BY Expired DEF CallsOf, UnderWay
<1>2. ~Live(e)'
  BY Expired DEF Live, Exists
<1> QED
  BY <1>1, <1>2 DEF Fine, Calling, Resting, Cleaning

LEMMA ReadKeepsFine ==
  ASSUME TypeOK, Days, NEW e \in Events, Fine(e), CleanupRead
  PROVE  Fine(e)'
<1> USE DEF rows, persisting
<1>1. PICK es \in SUBSET {f \in Events : Purgeable(f)} :
         cleanup' = [step |-> "unlink", batch |-> es, rows |-> {},
                     keys |-> UNION {ContentKeys(f) : f \in es}]
  BY DEF CleanupRead
<1>2. /\ UNCHANGED <<day, blobs, named, contents, attachments, step, previous>>
      /\ cleanup.step = "idle"
  BY DEF CleanupRead
<1>3. cleanup.batch = {}
  BY <1>2 DEF Days
<1>4. /\ BlobsOf(e)' = BlobsOf(e) /\ RowsOf(e)' = RowsOf(e) /\ (Live(e)' <=> Live(e))
      /\ Settled(e)' = Settled(e) /\ ContentKeys(e)' = ContentKeys(e)
  BY <1>2 DEF BlobsOf, RowsOf, Live, Exists, Settled, LiveRows, RowKeys, ContentKeys, RowsOf, Key
<1>5. CASE e \notin es
  BY <1>1, <1>2, <1>3, <1>4, <1>5, FineElsewhere
<1>6. CASE e \in es
  <2>1. Exists(e) /\ ~Live(e)
    <3>1. day \in Int /\ contents[e].expires \in Int
      BY Calls DEF TypeOK
    <3> QED
      BY <1>1, <1>6, <3>1 DEF Purgeable, Live
  <2>2. CallsOf(e) = {}
    BY <2>1, ExpiredIsLeftAlone DEF CallsOf
  <2>3. BlobsOf(e) \subseteq Settled(e)
    BY <1>3, <2>2 DEF Fine, Resting
  <2>4. CallsOf(e)' = {}
    BY <1>2, <2>2 DEF CallsOf, UnderWay
  <2>5. ContentKeys(e) \subseteq cleanup'.keys /\ cleanup'.step = "unlink"
    BY <1>1, <1>6
  <2> QED
    BY <1>4, <2>1, <2>3, <2>4, <2>5 DEF Fine, Calling, Resting, Cleaning
<1> QED
  BY <1>5, <1>6

LEMMA UnlinkKeepsFine ==
  ASSUME TypeOK, Days, NEW e \in Events, Fine(e), failures' = 0,
         CleanupUnlink \/ CleanupUnlinkAttachments
  PROVE  Fine(e)'
<1> USE DEF rows, persisting
<1>1. UNCHANGED <<day, named, contents, attachments, step, previous>>
  BY DEF CleanupUnlink, CleanupUnlinkAttachments
<1>2. /\ RowsOf(e)' = RowsOf(e) /\ (Live(e)' <=> Live(e)) /\ LiveRows(e)' = LiveRows(e)
      /\ RowKeys(LiveRows(e))' = RowKeys(LiveRows(e))
  BY <1>1 DEF RowsOf, Live, Exists, LiveRows, RowKeys, Key
<1>3. PICK keys :
         /\ Unlink(keys) /\ \A k \in keys : k[1] \in cleanup.batch
         /\ CleanupUnlink => keys = cleanup.keys
         /\ CleanupUnlinkAttachments => keys = RowKeys(cleanup.rows)
  <2>1. CASE CleanupUnlink
    <3>1. Unlink(cleanup.keys) /\ \A k \in cleanup.keys : k[1] \in cleanup.batch
      BY <2>1 DEF CleanupUnlink, Days
    <3>2. ~CleanupUnlinkAttachments
      BY <2>1 DEF CleanupUnlink, CleanupUnlinkAttachments, Job
    <3> QED
      BY <3>1, <3>2
  <2>2. CASE CleanupUnlinkAttachments
    <3>1. Unlink(RowKeys(cleanup.rows)) /\ \A k \in RowKeys(cleanup.rows) : k[1] \in cleanup.batch
      BY <2>2 DEF CleanupUnlinkAttachments, Days, RowKeys, Key
    <3>2. ~CleanupUnlink
      BY <2>2 DEF CleanupUnlink, CleanupUnlinkAttachments, Job
    <3> QED
      BY <3>1, <3>2
  <2> QED
    BY <2>1, <2>2
<1>4. BlobsOf(e)' = BlobsOf(e) \ keys
  BY <1>3, UnlinkAll
<1>5. cleanup'.batch = cleanup.batch
  BY JobGoesOn DEF CleanupUnlink, CleanupUnlinkAttachments
<1>6. CASE e \notin cleanup.batch
  <2>1. BlobsOf(e)' = BlobsOf(e)
    BY <1>3, <1>4, <1>6 DEF BlobsOf
  <2> QED
    BY <1>1, <1>2, <1>5, <1>6, <2>1, FineElsewhere
<1>7. CASE e \in cleanup.batch /\ CleanupUnlink
  <2>1. cleanup.step = "unlink" /\ cleanup'.step = "read"
    BY <1>7, JobGoesOn DEF CleanupUnlink
  <2>2. BlobsOf(e)' \subseteq RowKeys(LiveRows(e))
    BY <1>3, <1>4, <1>7, <2>1 DEF Fine, Cleaning, Settled
  <2> QED
    BY <1>1, <1>2, <1>5, <1>7, <2>1, <2>2, FineAtCleanup
<1>8. CASE e \in cleanup.batch /\ CleanupUnlinkAttachments
  <2>1. cleanup.step = "attachments" /\ cleanup'.step = "marka"
    BY <1>8, JobGoesOn DEF CleanupUnlinkAttachments
  <2>2. BlobsOf(e) \subseteq RowKeys(LiveRows(e)) /\ LiveRows(e) \subseteq cleanup.rows
    BY <1>8, <2>1 DEF Fine, Cleaning
  <2>3. RowKeys(LiveRows(e)) \subseteq RowKeys(cleanup.rows)
    BY <2>2 DEF RowKeys
  <2>4. BlobsOf(e)' = {}
    BY <1>3, <1>4, <1>8, <2>2, <2>3
  <2> QED
    BY <1>1, <1>5, <1>8, <2>1, <2>4, FineAtCleanup
<1> QED
  BY <1>6, <1>7, <1>8

LEMMA ReadAttachmentsKeepsFine ==
  ASSUME TypeOK, Days, NEW e \in Events, Fine(e), CleanupReadAttachments
  PROVE  Fine(e)'
<1> USE DEF rows, persisting
<1>1. UNCHANGED <<day, blobs, named, contents, attachments, step, previous>>
  BY DEF CleanupReadAttachments
<1>2. /\ RowsOf(e)' = RowsOf(e) /\ (Live(e)' <=> Live(e)) /\ LiveRows(e)' = LiveRows(e)
      /\ RowKeys(LiveRows(e))' = RowKeys(LiveRows(e)) /\ BlobsOf(e)' = BlobsOf(e)
  BY <1>1 DEF RowsOf, Live, Exists, LiveRows, RowKeys, BlobsOf, Key
<1>3. /\ cleanup'.batch = cleanup.batch /\ cleanup.step = "read" /\ cleanup'.step = "attachments"
      /\ cleanup'.rows = {a \in attachments : EventOf[a.id] \in cleanup.batch /\ ~a.deleted}
  BY ReadAttachmentsGoesOn
<1>4. CASE e \notin cleanup.batch
  BY <1>1, <1>2, <1>3, <1>4, FineElsewhere
<1>5. CASE e \in cleanup.batch
  <2>1. LiveRows(e) \subseteq cleanup'.rows
    BY <1>3, <1>5 DEF LiveRows, RowsOf
  <2>2. BlobsOf(e) \subseteq RowKeys(LiveRows(e))
    BY <1>3, <1>5 DEF Fine, Cleaning
  <2> QED
    BY <1>1, <1>2, <1>3, <1>5, <2>1, <2>2, FineAtCleanup
<1> QED
  BY <1>4, <1>5

LEMMA MarkKeepsFine ==
  ASSUME TypeOK, Days, NEW e \in Events, Fine(e), CleanupMarkAttachments \/ CleanupMark
  PROVE  Fine(e)'
<1> USE DEF rows, persisting
<1>1. UNCHANGED <<day, blobs, named, step, previous>>
  BY DEF CleanupMarkAttachments, CleanupMark
<1>2. BlobsOf(e)' = BlobsOf(e)
  BY <1>1 DEF BlobsOf
<1>3. /\ e \notin cleanup.batch => e \notin cleanup'.batch
      /\ cleanup.step \in {"marka", "mark"}
      /\ cleanup'.step \notin {"unlink", "read", "attachments"}
  <2>1. CASE CleanupMarkAttachments
    BY <2>1, JobGoesOn DEF CleanupMarkAttachments
  <2>2. CASE CleanupMark
    BY <2>2 DEF CleanupMark, NoJob
  <2> QED
    BY <2>1, <2>2
<1>4. CASE e \notin cleanup.batch
  <2>1. contents'[e] = contents[e]
    BY <1>4 DEF CleanupMarkAttachments, CleanupMark
  <2>2. Live(e)' => Live(e)
    BY <1>1, <2>1 DEF Live, Exists
  <2>3. RowsOf(e)' = RowsOf(e)
    <3>1. CASE CleanupMark
      BY <3>1 DEF CleanupMark, RowsOf
    <3>2. CASE CleanupMarkAttachments
      <4>1. \A a \in RowsOf(e) : \A b \in cleanup.rows : b.id # a.id
        BY <1>4 DEF Days, RowsOf
      <4>2. \A a \in RowsOf(e) : a \in attachments'
        BY <3>2, <4>1 DEF CleanupMarkAttachments, RowsOf
      <4>3. \A b \in RowsOf(e)' : b \in RowsOf(e)
        <5>1. \A b \in attachments' : EventOf[b.id] = e =>
                 b \in attachments
          <6> SUFFICES ASSUME NEW b \in attachments', EventOf[b.id] = e PROVE b \in attachments
            OBVIOUS
          <6>1. PICK a \in attachments : /\ b.id = a.id
                                         /\ \/ b = a
                                            \/ \E c \in cleanup.rows : c.id = a.id
            BY <3>2, MarkedRows
          <6>2. a \in RowsOf(e)
            BY <6>1 DEF RowsOf
          <6> QED
            BY <4>1, <6>1, <6>2
        <5> QED
          BY <5>1 DEF RowsOf
      <4> QED
        BY <4>2, <4>3 DEF RowsOf
    <3> QED
      BY <3>1, <3>2
  <2> QED
    BY <1>1, <1>2, <1>3, <1>4, <2>1, <2>2, <2>3, FineElsewhere
<1>5. CASE e \in cleanup.batch
  <2>1. BlobsOf(e) = {}
    BY <1>3, <1>5 DEF Fine, Cleaning
  <2>2. UNCHANGED <<day, contents>> \/ ~Live(e)'
    BY <1>5 DEF CleanupMarkAttachments, CleanupMark, Live, TypeOK
  <2> QED
    BY <1>1, <1>2, <1>3, <1>5, <2>1, <2>2, FineAtCleanup
<1> QED
  BY <1>4, <1>5

LEMMA KeptSteps ==
  ASSUME TypeOK, Days, Replaces, Kept, [Next]_vars
  PROVE  Kept'
<1> USE DEF rows, persisting
<1> SUFFICES ASSUME NEW e \in Events, failures' = 0, e \notin overlapped' PROVE Fine(e)'
  BY DEF Kept, Fine
<1>1. failures' # failures + 1 /\ failures \in Nat
  BY Calls DEF TypeOK
<1>2. CASE UNCHANGED vars \/ NextDay
  <2>1. /\ UNCHANGED <<blobs, named, contents, attachments, step, previous, cleanup, overlapped,
                       failures>>
        /\ day' \in {day, day + 1}
    BY <1>2 DEF vars, NextDay
  <2>2. Fine(e)
    BY <2>1 DEF Kept, Fine
  <2>3. BlobsOf(e)' = BlobsOf(e) /\ RowsOf(e)' = RowsOf(e)
    BY <2>1 DEF BlobsOf, RowsOf
  <2>4. Live(e)' => Live(e)
    <3>1. day \in Int /\ contents[e].expires \in Int
      BY Calls DEF TypeOK
    <3> QED
      BY <2>1, <3>1 DEF Live, Exists
  <2> QED
    BY <2>1, <2>2, <2>3, <2>4, FineElsewhere
<1>3. ASSUME NEW p \in Persists, Persist(p) PROVE Fine(e)'
  <2>1. failures' = failures /\ overlapped \subseteq overlapped'
    BY <1>3 DEF Persist, WriteAttachments, WritePrompt, WriteRest, ListPrevious, Commit,
       DeletePrevious
  <2>2. Fine(e)
    BY <2>1 DEF Kept, Fine
  <2>3. CASE EventOf[p] = e
    BY <1>3, <2>2, <2>3, WriteKeepsFine, CommitKeepsFine, DeleteKeepsFine DEF Persist
  <2>4. CASE EventOf[p] # e
    <3>1. \A q \in Persists : EventOf[q] = e => step'[q] = step[q] /\ previous'[q] = previous[q]
      BY <1>3, <2>4 DEF Persist, WriteAttachments, WritePrompt, WriteRest, ListPrevious, Commit,
                        DeletePrevious, Goto, TypeOK
    <3>2. contents'[e] = contents[e] /\ RowsOf(e)' = RowsOf(e)
      <4>1. CASE Commit(p)
        BY <2>4, <4>1, CommittedElsewhere DEF Commit
      <4>2. CASE UNCHANGED <<contents, attachments>>
        BY <4>2 DEF RowsOf
      <4> QED
        BY <1>3, <4>1, <4>2 DEF Persist, WriteAttachments, WritePrompt, WriteRest, ListPrevious,
                                DeletePrevious
    <3>3. day' = day /\ cleanup' = cleanup /\ named'[e] = named[e]
      BY <1>3, <2>4 DEF Persist, WriteAttachments, WritePrompt, WriteRest, ListPrevious, Commit,
                        DeletePrevious, TypeOK
    <3>4. BlobsOf(e)' = BlobsOf(e)
      <4>1. /\ \A k \in InHand(p) : k[1] # e
            /\ step[p] = "delete" => \A k \in RowKeys(previous[p]) : k[1] # e
        BY <2>4, OwnKeys, PreviousKeys
      <4>2. \A k : k[1] = e => (k \in blobs' <=> k \in blobs)
        BY <1>3, <4>1 DEF Persist, WriteAttachments, WritePrompt, WriteRest, ListPrevious, Commit,
                          DeletePrevious, Goto, InHand, Own, RestOf
      <4> QED
        BY <4>2 DEF BlobsOf
    <3>5. Live(e)' => Live(e)
      BY <3>2, <3>3 DEF Live, Exists
    <3> QED
      BY <2>2, <3>1, <3>2, <3>3, <3>4, <3>5, FineElsewhere
  <2> QED
    BY <2>3, <2>4
<1>4. CASE Cleanup
  <2>1. overlapped' = overlapped
    BY <1>4 DEF Cleanup, CleanupRead, CleanupUnlink, CleanupReadAttachments,
                CleanupUnlinkAttachments, CleanupMarkAttachments, CleanupMark
  <2>2. failures = 0
    BY <1>1, <1>4 DEF Cleanup, CleanupRead, CleanupUnlink, CleanupReadAttachments,
                      CleanupUnlinkAttachments, CleanupMarkAttachments, CleanupMark, Unlink, Fails
  <2>3. Fine(e)
    BY <2>1, <2>2 DEF Kept, Fine
  <2> QED
    BY <1>4, <2>3, ReadKeepsFine, UnlinkKeepsFine, ReadAttachmentsKeepsFine, MarkKeepsFine
       DEF Cleanup
<1>5. ASSUME \/ CleanupFails \/ \E p \in Persists : PersistFails(p) PROVE FALSE
  BY <1>1, <1>5 DEF CleanupFails, PersistFails, Fails
<1> QED
  BY <1>2, <1>3, <1>4, <1>5 DEF Next


-----------------------------------------------------------------------------
(* The theorems                                                            *)

LEMMA InvInit ==
  ASSUME Init
  PROVE  Inv
<1>1. \A e \in Events : ~Exists(e) /\ ~Live(e)
  BY DEF Init, NoContent, Exists, Live
<1>2. TypeOK
  <2>1. NoJob \in Jobs /\ Cardinality(NoJob.batch) <= Batch
    BY FS_EmptySet, Calls DEF NoJob, Jobs
  <2> QED
    BY <2>1, Calls DEF Init, TypeOK, NoContent
<1>3. Days
  BY <1>1 DEF Init, Days, UnderWay, NoJob, NoContent
<1>4. Replaces
  BY DEF Init, Replaces
<1>5. Readable
  BY <1>1 DEF Init, Readable, Written
<1>6. Kept
  <2>1. \A e \in Events : CallsOf(e) = {} /\ BlobsOf(e) = {}
    BY DEF Init, CallsOf, UnderWay, BlobsOf
  <2> QED
    BY <1>1, <2>1 DEF Init, Kept, Calling, Resting, Cleaning, NoJob
<1> QED
  BY <1>2, <1>3, <1>4, <1>5, <1>6 DEF Inv

THEOREM InvCorrect == Spec => []Inv
<1>1. Init => Inv
  BY InvInit
<1>2. Inv /\ [Next]_vars => Inv'
  BY TypeSteps, DaysSteps, ReplacesSteps, ReadableSteps, KeptSteps DEF Inv
<1> QED
  BY <1>1, <1>2, PTL DEF Spec

\* persistContent and the cleanup job: whatever calls overlap and whatever fails, a content
\* that is neither expired nor deleted has its files, and so have its attachments.
THEOREM LiveContentIsReadableCorrect == Spec => []LiveContentIsReadable
<1>1. Inv => LiveContentIsReadable
  <2> SUFFICES ASSUME Inv, NEW e \in Events, Live(e)
               PROVE  ContentKeys(e) \cup RowKeys(LiveRows(e)) \subseteq blobs
    BY DEF LiveContentIsReadable
  <2>1. RowKeys(LiveRows(e)) \subseteq RowKeys(RowsOf(e))
    BY DEF RowKeys, LiveRows
  <2> QED
    BY <2>1 DEF Inv, Readable
<1> QED
  BY <1>1, InvCorrect, PTL

\* DeletePrevious and the cleanup job: of an event with no overlap, and while nothing has
\* failed, there are no files but those that its rows name.
THEOREM NoOrphanBlobsWhenCalmCorrect == Spec => []NoOrphanBlobsWhenCalm
<1>1. Inv => NoOrphanBlobsWhenCalm
  <2> SUFFICES ASSUME Inv, NEW e \in Events, AtRest(e)
               PROVE  BlobsOf(e) \subseteq Settled(e)
    BY DEF NoOrphanBlobsWhenCalm, BlobsOf, Settled
  <2>1. CallsOf(e) = {}
    BY DEF AtRest, CallsOf
  <2> QED
    BY <2>1 DEF Inv, Kept, AtRest, Resting
<1> QED
  BY <1>1, InvCorrect, PTL

\* Rows have their types, and the prompt of a live content names the attachments that the
\* page will show (extractPromptAttachments), when its event is at rest.
THEOREM RowsInOrderCorrect == Spec => []RowsInOrder
<1>1. Inv => RowsInOrder
  <2> SUFFICES ASSUME Inv, NEW e \in Events, AtRest(e), Live(e)
               PROVE  named[e] = Named(e)
    BY DEF RowsInOrder, PromptNamesRowsWhenCalm, Named, Inv
  <2>1. CallsOf(e) = {}
    BY DEF AtRest, CallsOf
  <2> QED
    BY <2>1 DEF Inv, Kept, AtRest, Resting
<1> QED
  BY <1>1, InvCorrect, PTL

===================================================================================
