------------------------------- MODULE UsageEvents -------------------------------
(***************************************************************************)
(* A usage event on its way from the extension to a telemetry row.  The      *)
(* extension sends it until it is answered, with the time at which it first   *)
(* happened; the API puts a job into the usage-events queue under an id made  *)
(* of installation, time and type, of which BullMQ takes no second one while   *)
(* it keeps the first; a worker notes the event on its installation and        *)
(* creates the row, in two statements that are no transaction.               *)
(*                                                                         *)
(* BullMQ is external: it hands jobs out in order, puts a job whose attempt   *)
(* failed back behind the others, and takes back a job whose lock ran out,     *)
(* once, whether or not the worker still goes on.                          *)
(***************************************************************************)
EXTENDS Integers, Sequences, SequencesExt

CONSTANTS
  Events,
  KeyOf,       \* installation, time and type of each event: two may have the same
  Workers,
  Attempts,    \* attempts of a job
  KeepDone,    \* removeOnComplete
  KeepFailed,  \* removeOnFail
  MaxSends,    \* bound: deliveries
  MaxFaults    \* bound: lost connections, failed calls and attempts, lost locks

VARIABLES
  outbox,     \* events of the extension without an answer
  delivery,   \* deliveries the API serves
  sends,      \* how many there were
  answered,   \* events answered as queued
  degraded,   \* events answered although the queue could not be reached
  jobs,       \* what BullMQ knows, by id
  waiting, completed, failed,  \* ids of jobs, oldest first
  work,       \* the attempt each worker is at
  telemetry,  \* how many rows the events of each id have
  shown,      \* the event that the installation's row tells of
  last,       \* history: the event of the last job there was
  doubts,     \* history: how often a row of each id may have been written in vain
  exhausted,  \* history: ids of jobs that failed for good
  abreast,    \* history: two workers were at a job at a time
  faults

client == <<outbox, delivery, sends, answered, degraded>>
queue  == <<jobs, waiting, completed, failed, exhausted>>
rows   == <<telemetry, shown>>
vars   == <<client, queue, rows, work, last, doubts, abreast, faults>>

Ids  == {KeyOf[e] : e \in Events}
Idle == [pc |-> "idle"]
None == 0

Init ==
  /\ outbox = Events /\ delivery = {} /\ sends = 0
  /\ answered = {} /\ degraded = {}
  /\ jobs = <<>> /\ waiting = <<>> /\ completed = <<>> /\ failed = <<>>
  /\ work = [w \in Workers |-> Idle]
  /\ telemetry = [k \in Ids |-> 0]
  /\ shown = None /\ last = None
  /\ doubts = [k \in Ids |-> 0]
  /\ exhausted = {}
  /\ abreast = FALSE
  /\ faults = 0

Fault == faults < MaxFaults /\ faults' = faults + 1

-----------------------------------------------------------------------------
(* The extension and the API                                                *)

\* sendUsageEvent, or a flush of what it has buffered.
Send(e) ==
  /\ e \in outbox /\ sends < MaxSends /\ sends' = sends + 1
  /\ \A d \in delivery : d.event # e \/ ~d.heard
  /\ delivery' = delivery \cup {[id |-> sends + 1, event |-> e, heard |-> TRUE]}
  /\ UNCHANGED <<outbox, answered, degraded, queue, rows, work, last, doubts, abreast, faults>>

\* The connection is lost, before or after the API has read the request.
Lose(d) ==
  /\ d.heard /\ Fault
  /\ delivery' \in {delivery \ {d}, (delivery \ {d}) \cup {[d EXCEPT !.heard = FALSE]}}
  /\ UNCHANGED <<outbox, sends, answered, degraded, queue, rows, work, last, doubts, abreast>>

\* Mistake: the id is made of the time of the dispatch, as that of other queues.
JobIdNow(d) == 1000 + d.id

\* buildQueueDedupeKey.
JobId(d) == KeyOf[d.event]

\* queue.add, which does nothing for an id it knows.
Add(d) ==
  LET k == JobId(d)
  IN  IF k \in DOMAIN jobs
        THEN UNCHANGED <<jobs, waiting, last, doubts>>
        ELSE /\ jobs' = [j \in DOMAIN jobs \cup {k} |->
                           IF j = k THEN [event |-> d.event, attempts |-> 0, stalled |-> FALSE]
                           ELSE jobs[j]]
             /\ waiting' = Append(waiting, k)
             /\ last' = d.event
             \* A job there was, of which nothing is kept.
             /\ doubts' = [i \in Ids |-> IF i = KeyOf[d.event] /\ telemetry[i] > 0
                                            THEN doubts[i] + 1 ELSE doubts[i]]

Answer(d, set) == IF d.heard THEN set \cup {d.event} ELSE set

\* ingestUsageEventForInstallationSession.
Dispatch(d) ==
  /\ Add(d)
  /\ delivery' = delivery \ {d}
  /\ outbox' = IF d.heard THEN outbox \ {d.event} ELSE outbox
  /\ answered' = Answer(d, answered)
  /\ UNCHANGED <<sends, degraded, completed, failed, exhausted, rows, work, abreast, faults>>

\* The queue cannot be reached, or its reply is lost: the extension is told that all is well.
DispatchFails(d) ==
  /\ Fault
  /\ Add(d) \/ UNCHANGED <<jobs, waiting, last, doubts>>
  /\ delivery' = delivery \ {d}
  /\ outbox' = IF d.heard THEN outbox \ {d.event} ELSE outbox
  /\ degraded' = Answer(d, degraded)
  /\ UNCHANGED <<sends, answered, completed, failed, exhausted, rows, work, abreast>>

-----------------------------------------------------------------------------
(* BullMQ                                                                   *)

\* Only the last n ids are kept.
Kept(ids, n) == SubSeq(ids, IF Len(ids) > n THEN Len(ids) - n + 1 ELSE 1, Len(ids))

Forgetting(k, ids, n) ==
  jobs' = [j \in DOMAIN jobs \ (ToSet(Append(ids, k)) \ ToSet(Kept(Append(ids, k), n))) |-> jobs[j]]

Complete(k) ==
  /\ completed' = Kept(Append(completed, k), KeepDone)
  /\ Forgetting(k, completed, KeepDone)
  /\ UNCHANGED <<waiting, failed, exhausted>>

FailForGood(k) ==
  /\ failed' = Kept(Append(failed, k), KeepFailed)
  /\ Forgetting(k, failed, KeepFailed)
  /\ exhausted' = exhausted \cup {k}
  /\ UNCHANGED <<waiting, completed>>

Active == {w \in Workers : work[w].pc # "idle"}
Sets(w, attempt) == work' = [work EXCEPT ![w] = attempt]

\* The job comes to a worker, which finds its installation.
Take(w) ==
  /\ work[w] = Idle /\ waiting # <<>>
  /\ Sets(w, [pc |-> "touch", job |-> Head(waiting), event |-> jobs[Head(waiting)].event,
               locked |-> TRUE])
  /\ jobs' = [jobs EXCEPT ![Head(waiting)].attempts = @ + 1]
  /\ waiting' = Tail(waiting)
  /\ abreast' = (abreast \/ Active # {})
  /\ UNCHANGED <<client, completed, failed, exhausted, rows, last, doubts, faults>>

-----------------------------------------------------------------------------
(* The worker                                                               *)

\* touchInstallation.
Touch(w) ==
  /\ work[w].pc = "touch"
  /\ shown' = work[w].event
  /\ Sets(w, [work[w] EXCEPT !.pc = "create"])
  /\ UNCHANGED <<client, queue, telemetry, last, doubts, abreast, faults>>

\* createTelemetry.
Written(w) == telemetry' = [telemetry EXCEPT ![KeyOf[work[w].event]] = @ + 1]

Create(w) ==
  /\ work[w].pc = "create"
  /\ Written(w)
  /\ Sets(w, [work[w] EXCEPT !.pc = "end"])
  /\ UNCHANGED <<client, queue, shown, last, doubts, abreast, faults>>

\* The attempt has succeeded, which BullMQ notes while the worker has the lock.
End(w) ==
  /\ work[w].pc = "end"
  /\ IF work[w].locked THEN Complete(work[w].job) ELSE UNCHANGED queue
  /\ Sets(w, Idle)
  /\ UNCHANGED <<client, rows, last, doubts, abreast, faults>>

\* A statement fails, and the attempt with it; the row may have been created.
AttemptFails(w) ==
  LET k == work[w].job
  IN  /\ work[w].pc \in {"touch", "create"} /\ Fault
      /\ \/ UNCHANGED <<rows, doubts>>
         \/ /\ work[w].pc = "create"
            /\ Written(w)
            /\ doubts' = [doubts EXCEPT ![KeyOf[work[w].event]] = @ + 1]
            /\ UNCHANGED shown
      /\ IF ~work[w].locked THEN UNCHANGED queue
         ELSE IF jobs[k].attempts < Attempts
           THEN waiting' = Append(waiting, k) /\ UNCHANGED <<jobs, completed, failed, exhausted>>
         ELSE FailForGood(k)
      /\ Sets(w, Idle)
      /\ UNCHANGED <<client, last, abreast>>

\* The lock of a job runs out: the worker has died, or it goes on and does not know.
Stall(w) ==
  LET k == work[w].job
  IN  /\ work[w].pc # "idle" /\ work[w].locked /\ Fault
      /\ IF jobs[k].stalled THEN FailForGood(k)
         ELSE /\ jobs' = [jobs EXCEPT ![k].stalled = TRUE]
              /\ waiting' = <<k>> \o waiting
              /\ UNCHANGED <<completed, failed, exhausted>>
      /\ \E goesOn \in BOOLEAN :
            /\ Sets(w, IF goesOn THEN [work[w] EXCEPT !.locked = FALSE] ELSE Idle)
            /\ doubts' = IF goesOn \/ work[w].pc = "end"
                           THEN [doubts EXCEPT ![KeyOf[work[w].event]] = @ + 1] ELSE doubts
      /\ UNCHANGED <<client, rows, last, abreast>>

Next ==
  \/ \E e \in Events : Send(e)
  \/ \E d \in delivery : Lose(d) \/ Dispatch(d) \/ DispatchFails(d)
  \/ \E w \in Workers : \/ Take(w) \/ Touch(w) \/ Create(w) \/ End(w)
                        \/ AttemptFails(w) \/ Stall(w)

Spec == Init /\ [][Next]_vars

-----------------------------------------------------------------------------
(* Properties                                                              *)

\* However often an event is sent and tried, it has one row, but for attempts that were
\* given up when their row may have been written, and for a job that BullMQ has forgotten.
TelemetryOnce == \A k \in Ids : telemetry[k] <= 1 + doubts[k]

\* An event answered as queued has its row, or a job that will be tried, or one that failed
\* for good; of events with the same installation, time and type one is enough.
QueuedIsStored ==
  \A e \in answered :
    \/ telemetry[KeyOf[e]] > 0
    \/ KeyOf[e] \in ToSet(waiting) \cup {work[w].job : w \in Active} \cup exhausted

\* While nothing fails and one worker is busy at a time, the installation tells of the last
\* event queued, once all are worked off.
InstallationIsCurrent ==
  faults = 0 /\ ~abreast /\ waiting = <<>> /\ Active = {} => shown = last

\* What the extension sends is accounted for.
EventsAccountedFor == TelemetryOnce /\ QueuedIsStored /\ InstallationIsCurrent
=============================================================================
