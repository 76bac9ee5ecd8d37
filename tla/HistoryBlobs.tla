------------------------------ MODULE HistoryBlobs ------------------------------
(***************************************************************************)
(* The contents of the AI history: blobs in a file system, the rows that   *)
(* name them in PostgreSQL, and no transaction over both.  persistContent  *)
(* of ai-history.service.ts writes blobs, then rows, then removes the      *)
(* attachments it replaces; process-history-cleanup.ts of the worker       *)
(* removes the blobs of expired contents, then marks their rows.           *)
(*                                                                         *)
(* One action is one write, query or transaction.  Retention is counted    *)
(* in days, and no day ends while a persist is under way.                  *)
(***************************************************************************)
EXTENDS Integers, FiniteSets

CONSTANTS
  Events,          \* AiRequestEvent ids
  Persists,        \* calls of persistContent
  EventOf,         \* the event each call is for
  WithImage,       \* calls whose prompt has an image to keep as an attachment
  WithFile,        \* calls with the bytes of an uploaded file
  ContentDays,     \* retention of contents
  AttachmentDays,  \* retention of attachments
  Batch,           \* contents a cleanup takes at a time
  MaxDays,         \* bound: days
  MaxFailures      \* bound: writes, queries and unlinks that fail

ASSUME InputAssumption ==
  /\ EventOf \in [Persists -> Events]
  /\ WithImage \cup WithFile \subseteq Persists
  /\ Persists \cap {"prompt", "response", "file"} = {}
  /\ ContentDays \in Nat \ {0} /\ AttachmentDays \in Nat \ {0} /\ Batch \in Nat \ {0}
  /\ MaxDays \in Nat /\ MaxFailures \in Nat

VARIABLES
  day,
  blobs,        \* keys with a file
  named,        \* the attachments that the prompt of each event names
  contents,     \* AiRequestContent rows
  attachments,  \* AiRequestAttachment rows
  step,         \* where each persist is
  expires,      \* the days it computed for contents and attachments
  previous,     \* the attachments it read as the ones it replaces
  cleanup,      \* where the worker's job is, with the rows it has read
  stuck,        \* history: keys whose file could not be removed
  overlapped,   \* history: events two of whose persists were under way at once
  failures

persisting == <<step, expires, previous>>
rows       == <<contents, attachments>>
vars == <<day, blobs, named, contents, attachments, step, expires, previous, cleanup,
          stuck, overlapped, failures>>

\* The keys of history-blob.service.ts: an attachment has a random id, here its persist.
Key(e, part) == <<e, part>>
AttachmentsOf(p) == {p} \cap WithImage

NoContent == [expires |-> -1, file |-> FALSE, deleted |-> TRUE]
Exists(e) == contents[e].expires >= 0
ContentKeys(e) ==
  {Key(e, "prompt"), Key(e, "response")} \cup IF contents[e].file THEN {Key(e, "file")} ELSE {}
RowKeys(rs) == {Key(EventOf[a.id], a.id) : a \in rs}
RowsOf(e)   == {a \in attachments : EventOf[a.id] = e}

NoJob == [step |-> "idle", batch |-> {}, keys |-> {}, rows |-> {}]

Init ==
  /\ day = 0
  /\ blobs = {}
  /\ named = [e \in Events |-> {}]
  /\ contents = [e \in Events |-> NoContent]
  /\ attachments = {}
  /\ step = [p \in Persists |-> "idle"]
  /\ expires = [p \in Persists |-> <<0, 0>>]
  /\ previous = [p \in Persists |-> {}]
  /\ cleanup = NoJob
  /\ stuck = {}
  /\ overlapped = {}
  /\ failures = 0

UnderWay(p) == step[p] \notin {"idle", "done"}
Goto(p, from, to) == step[p] = from /\ step' = [step EXCEPT ![p] = to]
Fails == failures < MaxFailures /\ failures' = failures + 1

-----------------------------------------------------------------------------
(* persistContent                                                          *)

\* A request is persisted on the day it is served, the second time too.
SameDay(p) ==
  \A q \in Persists :
    EventOf[q] = EventOf[p] /\ step[q] # "idle" => expires[q][1] = day + ContentDays

\* The retention is read, the images of the prompt become attachment blobs.
WriteAttachments(p) ==
  /\ Goto(p, "idle", "prompt")
  /\ SameDay(p)
  /\ expires' = [expires EXCEPT ![p] = <<day + ContentDays, day + AttachmentDays>>]
  /\ blobs' = blobs \cup {Key(EventOf[p], a) : a \in AttachmentsOf(p)}
  /\ overlapped' = overlapped \cup
       {e \in {EventOf[p]} : \E q \in Persists \ {p} : EventOf[q] = e /\ UnderWay(q)}
  /\ UNCHANGED <<day, named, rows, previous, cleanup, stuck, failures>>

\* The prompt names the attachments that took the place of its images.
WritePrompt(p) ==
  /\ Goto(p, "prompt", "rest")
  /\ blobs' = blobs \cup {Key(EventOf[p], "prompt")}
  /\ named' = [named EXCEPT ![EventOf[p]] = AttachmentsOf(p)]
  /\ UNCHANGED <<day, rows, expires, previous, cleanup, stuck, overlapped, failures>>

WriteRest(p) ==
  /\ Goto(p, "rest", "list")
  /\ blobs' = blobs \cup {Key(EventOf[p], "response")}
                    \cup IF p \in WithFile THEN {Key(EventOf[p], "file")} ELSE {}
  /\ UNCHANGED <<day, named, rows, expires, previous, cleanup, stuck, overlapped, failures>>

\* Mistake: what is to be replaced is removed before anything replaces it.
ListPreviousAndDelete(p) ==
  /\ Goto(p, "list", "commit")
  /\ previous' = [previous EXCEPT ![p] = RowsOf(EventOf[p])]
  /\ blobs' = blobs \ RowKeys(RowsOf(EventOf[p]))
  /\ UNCHANGED <<day, named, rows, expires, cleanup, stuck, overlapped, failures>>

ListPrevious(p) ==
  /\ Goto(p, "list", "commit")
  /\ previous' = [previous EXCEPT ![p] = RowsOf(EventOf[p])]
  /\ UNCHANGED <<day, blobs, named, rows, expires, cleanup, stuck, overlapped, failures>>

\* Mistake: the attachment rows of the persist before stay.
RowsAdded(p) ==
  LET e == EventOf[p]
  IN  /\ contents' = [contents EXCEPT ![e] =
                        [expires |-> expires[p][1], file |-> @.file \/ p \in WithFile,
                         deleted |-> FALSE]]
      /\ attachments' = attachments \cup
           {[id |-> a, expires |-> expires[p][2], deleted |-> FALSE] : a \in AttachmentsOf(p)}

\* The content row is written over, but a key that is not given stays; the
\* attachment rows are replaced.
Rows(p) ==
  LET e == EventOf[p]
  IN  /\ contents' = [contents EXCEPT ![e] =
                        [expires |-> expires[p][1], file |-> @.file \/ p \in WithFile,
                         deleted |-> FALSE]]
      /\ attachments' = (attachments \ RowsOf(e)) \cup
           {[id |-> a, expires |-> expires[p][2], deleted |-> FALSE] : a \in AttachmentsOf(p)}

Commit(p) ==
  /\ Goto(p, "commit", "delete")
  /\ Rows(p)
  /\ UNCHANGED <<day, blobs, named, expires, previous, cleanup, stuck, overlapped, failures>>

\* Mistake: what was replaced is forgotten.
ForgetPrevious(p) ==
  /\ Goto(p, "delete", "done")
  /\ UNCHANGED <<day, blobs, named, rows, expires, previous, cleanup, stuck, overlapped, failures>>

DeletePrevious(p) ==
  /\ Goto(p, "delete", "done")
  /\ blobs' = blobs \ (RowKeys(previous[p]) \ {Key(EventOf[p], a) : a \in AttachmentsOf(p)})
  /\ UNCHANGED <<day, named, rows, expires, previous, cleanup, stuck, overlapped, failures>>

\* A write fails or the process dies; the caller only logs it.
PersistFails(p) ==
  /\ UnderWay(p)
  /\ Fails
  /\ step' = [step EXCEPT ![p] = "done"]
  /\ \/ UNCHANGED rows
     \/ step[p] = "commit" /\ Rows(p)
  /\ UNCHANGED <<day, blobs, named, expires, previous, cleanup, overlapped, stuck>>

-----------------------------------------------------------------------------
(* processHistoryCleanupJob                                                *)

Job(from, to) == cleanup.step = from /\ cleanup' = [cleanup EXCEPT !.step = to]

Purgeable(e) == Exists(e) /\ contents[e].expires < day /\ ~contents[e].deleted

\* Mistake: a content is taken for expired on its last day.
CleanupReadEarly ==
  /\ cleanup.step = "idle"
  /\ \E es \in SUBSET {e \in Events : contents[e].expires <= day /\ ~contents[e].deleted} :
        /\ es # {} /\ Cardinality(es) <= Batch
        /\ cleanup' = [step |-> "unlink", batch |-> es, rows |-> {},
                       keys |-> UNION {ContentKeys(e) : e \in es}]
  /\ UNCHANGED <<day, blobs, named, rows, persisting, stuck, overlapped, failures>>

\* Mistake: the row is marked first, and a job that fails then never comes back.
CleanupReadAndMark ==
  /\ cleanup.step = "idle"
  /\ \E es \in SUBSET {e \in Events : Purgeable(e)} :
        /\ es # {} /\ Cardinality(es) <= Batch
        /\ cleanup' = [step |-> "unlink", batch |-> es, rows |-> {},
                       keys |-> UNION {ContentKeys(e) : e \in es}]
        /\ contents' = [e \in Events |-> IF e \in es THEN [contents[e] EXCEPT !.deleted = TRUE]
                                                     ELSE contents[e]]
  /\ UNCHANGED <<day, blobs, named, attachments, persisting, stuck, overlapped, failures>>

\* The oldest expired contents, a batch at most.
CleanupRead ==
  /\ cleanup.step = "idle"
  /\ \E es \in SUBSET {e \in Events : Purgeable(e)} :
        /\ es # {} /\ Cardinality(es) <= Batch
        /\ \A e \in Events \ es : Purgeable(e) =>
              /\ Cardinality(es) = Batch
              /\ \A f \in es : contents[f].expires <= contents[e].expires
        /\ cleanup' = [step |-> "unlink", batch |-> es, rows |-> {},
                       keys |-> UNION {ContentKeys(e) : e \in es}]
  /\ UNCHANGED <<day, blobs, named, rows, persisting, stuck, overlapped, failures>>

\* tryUnlink swallows every error: a file may stay, and nobody learns of it.
Unlink(keys) ==
  \/ blobs' = blobs \ keys /\ UNCHANGED <<stuck, failures>>
  \/ \E k \in keys : blobs' = blobs \ (keys \ {k}) /\ stuck' = stuck \cup {k} /\ Fails

CleanupUnlink ==
  /\ Job("unlink", "read")
  /\ Unlink(cleanup.keys)
  /\ UNCHANGED <<day, named, rows, persisting, overlapped>>

CleanupReadAttachments ==
  /\ cleanup.step = "read"
  /\ cleanup' = [cleanup EXCEPT !.step = "attachments",
                   !.rows = {a \in attachments : EventOf[a.id] \in cleanup.batch /\ ~a.deleted}]
  /\ UNCHANGED <<day, blobs, named, rows, persisting, stuck, overlapped, failures>>

CleanupUnlinkAttachments ==
  /\ Job("attachments", "marka")
  /\ Unlink(RowKeys(cleanup.rows))
  /\ UNCHANGED <<day, named, rows, persisting, overlapped>>

CleanupMarkAttachments ==
  /\ Job("marka", "mark")
  /\ attachments' = {IF \E b \in cleanup.rows : b.id = a.id THEN [a EXCEPT !.deleted = TRUE] ELSE a
                       : a \in attachments}
  /\ UNCHANGED <<day, blobs, named, contents, persisting, stuck, overlapped, failures>>

\* The last batch ends the job, a full one is followed by another read.
CleanupMark ==
  /\ cleanup.step = "mark"
  /\ cleanup' = NoJob
  /\ contents' = [e \in Events |-> IF e \in cleanup.batch THEN [contents[e] EXCEPT !.deleted = TRUE]
                                                          ELSE contents[e]]
  /\ UNCHANGED <<day, blobs, named, attachments, persisting, stuck, overlapped, failures>>

\* The job fails; the next attempt, or the next hour's job, starts from its beginning.
CleanupFails ==
  /\ cleanup.step # "idle"
  /\ Fails
  /\ cleanup' = NoJob
  /\ UNCHANGED <<day, blobs, named, rows, persisting, overlapped, stuck>>

NextDay ==
  /\ day < MaxDays
  /\ \A p \in Persists : ~UnderWay(p)
  /\ day' = day + 1
  /\ UNCHANGED <<blobs, named, rows, persisting, cleanup, stuck, overlapped, failures>>

-----------------------------------------------------------------------------

Persist(p) ==
  \/ WriteAttachments(p) \/ WritePrompt(p) \/ WriteRest(p) \/ ListPrevious(p)
  \/ Commit(p) \/ DeletePrevious(p)

Cleanup ==
  \/ CleanupRead \/ CleanupUnlink \/ CleanupReadAttachments \/ CleanupUnlinkAttachments
  \/ CleanupMarkAttachments \/ CleanupMark

Next ==
  \/ \E p \in Persists : Persist(p) \/ PersistFails(p)
  \/ Cleanup \/ CleanupFails
  \/ NextDay

\* The cleanup job repeats every hour.
Spec     == Init /\ [][Next]_vars
FairSpec == Spec /\ WF_vars(Cleanup)

-----------------------------------------------------------------------------
(* Properties                                                              *)

Keys == Events \X ({"prompt", "response", "file"} \cup WithImage)
AttachmentRows == [id : WithImage, expires : Nat, deleted : BOOLEAN]
Jobs == [step : {"idle", "unlink", "read", "attachments", "marka", "mark"},
         batch : SUBSET Events, keys : SUBSET Keys, rows : SUBSET AttachmentRows]

\* Every variable holds what persistContent and the cleanup job can leave there.
TypeOK ==
  /\ day \in 0 .. MaxDays
  /\ blobs \subseteq Keys
  /\ named \in [Events -> SUBSET WithImage]
  /\ contents \in [Events -> [expires : Int, file : BOOLEAN, deleted : BOOLEAN]]
  /\ attachments \subseteq AttachmentRows
  /\ step \in [Persists -> {"idle", "prompt", "rest", "list", "commit", "delete", "done"}]
  /\ expires \in [Persists -> Nat \X Nat]
  /\ previous \in [Persists -> SUBSET AttachmentRows]
  /\ cleanup \in Jobs /\ Cardinality(cleanup.batch) <= Batch
  /\ stuck \subseteq Keys /\ overlapped \subseteq Events
  /\ failures \in 0 .. MaxFailures

\* What getDetail and the file controller take for readable.
Live(e) == Exists(e) /\ ~contents[e].deleted /\ contents[e].expires >= day

LiveRows(e) == {a \in RowsOf(e) : ~a.deleted}

\* persistContent and the cleanup job: a content that is neither expired nor deleted
\* has its blobs, and so have its attachments, whatever overlaps and whatever fails.
LiveContentIsReadable ==
  \A e \in Events : Live(e) => ContentKeys(e) \cup RowKeys(LiveRows(e)) \subseteq blobs

AtRest(e) == /\ \A p \in Persists : EventOf[p] = e => ~UnderWay(p)
             /\ e \notin cleanup.batch
             /\ e \notin overlapped
             /\ failures = 0

\* DeletePrevious and the cleanup job: when nothing failed and no two persists of an
\* event overlapped, its blobs are those its rows name, none is left for good.
NoOrphanBlobsWhenCalm ==
  \A e \in Events : AtRest(e) =>
    {k \in blobs : k[1] = e} \subseteq
       RowKeys(LiveRows(e)) \cup IF contents[e].deleted THEN {} ELSE ContentKeys(e)

\* extractPromptAttachments: the attachments that a live prompt names are rows of its
\* event, or the page would show a picture that is not there.
PromptNamesRowsWhenCalm ==
  \A e \in Events : AtRest(e) /\ Live(e) => named[e] = {a.id : a \in LiveRows(e)}

\* The hourly job marks every expired content in the end, and by then its blobs are
\* gone, whatever attempts failed, but for those that an unlink silently left.
ExpiredIsPurged ==
  \A e \in Events :
    Purgeable(e) ~> contents[e].deleted /\ ContentKeys(e) \cap blobs \subseteq stuck

\* Rows are as the code writes them, and agree with the prompt blob that names them.
RowsInOrder == TypeOK /\ PromptNamesRowsWhenCalm
=============================================================================
