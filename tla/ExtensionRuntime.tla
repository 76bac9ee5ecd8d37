--------------------------- MODULE ExtensionRuntime ---------------------------
(***************************************************************************)
(* The browser extension's runtime client (packages/extension) against the *)
(* installation sessions the API keeps for it (extension-control.service). *)
(* The client stores one session token and a buffer of usage events that   *)
(* could not be sent.  Its calls - send an event, refresh the session,     *)
(* flush the buffer, connect - are asynchronous: a call can be suspended   *)
(* at every request and at every access to the store, and others then run. *)
(*                                                                         *)
(* A token is the number of its session.  The store serves its accesses in *)
(* the order they are made, so that an access and the code that follows it *)
(* up to the next one are one step.                                        *)
(***************************************************************************)
EXTENDS Integers, Sequences, FiniteSets

CONSTANTS Procs,        \* the client's concurrent calls
          MaxItems,     \* capacity of the event buffer, at least 1 (100 in the code)
          MaxCalls,     \* bound: calls made of the client
          MaxAgings,    \* bound: times a session nears its end or reaches it
          MaxFaults     \* bound: requests or replies lost, errors of the API,
                        \* rotations and disconnections, stops of the worker

VARIABLES sessions,     \* the API's sessions, in order of issue
          handlers,     \* the refresh requests made, with what the API did of each
          site,         \* the platform site's operation on the installation
          stored,       \* the token in the client's store
          cached,       \* a bootstrap payload is in the client's store
          buffer,       \* the buffered events in the client's store
          refreshing,   \* installationSessionRefreshPromise: its request, or 0
          procs,        \* the calls
          used,         \* how much of each bound is used
          received,     \* history: events the API received
          flushed,      \* history: those received from a flush
          appended,     \* history: events put in the buffer, in order
          excused,      \* history: refused, trimmed, or lost with the worker
          ended,        \* history: usage events whose call ended
          overlap,      \* history: two calls were at the buffer at the same time
          upset         \* history: something else touched the sessions meanwhile

server  == <<sessions, handlers, site>>
client  == <<stored, cached, buffer, refreshing, procs>>
history == <<received, flushed, appended, excused, ended, overlap, upset>>
vars == <<server, client, used, history>>

-----------------------------------------------------------------------------
NoToken == 0
Kinds   == {"usage", "reconnect_requested", "reconnected"}
Event(n, kind) == [id |-> n, kind |-> kind]
NoEvent == Event(0, "usage")
Events  == [id : 0..MaxCalls, kind : Kinds]

Fresh == [revoked |-> FALSE, age |-> "fresh"]

\* findActiveByTokenHash: neither revoked nor expired.
Active(t) == ~sessions[t].revoked /\ sessions[t].age # "expired"

\* revokeActiveByInstallationId
RevokeAll == [t \in DOMAIN sessions |-> [sessions[t] EXCEPT !.revoked = TRUE]]

\* A call: what it does next, the event and token it holds, whether that token
\* had not expired, whether the session is to be refreshed by force, the refresh
\* it waits for, the events it read and sent, whether it met a 401, and whether it
\* is a connection.
Idle == [pc |-> "idle", task |-> "none", event |-> NoEvent, token |-> NoToken,
         usable |-> FALSE, retried |-> FALSE, waits |-> 0, snap |-> <<>>,
         sent |-> 0, unauthorized |-> FALSE, connects |-> FALSE]

Bounds == [calls |-> MaxCalls, agings |-> MaxAgings, faults |-> MaxFaults]
CanUse(b) == used[b] < Bounds[b]
Use(b)    == used' = [used EXCEPT ![b] = @ + 1]

\* The parts of the client that a step leaves alone are named by these.
SameServer  == UNCHANGED server
SameStore   == UNCHANGED <<stored, cached, buffer>>
SameHistory == UNCHANGED history

Goto(p, state) == procs' = [procs EXCEPT ![p] = state]

\* A call is over; the one that connects goes on to flush the buffer.
Over(p) == IF procs[p].connects THEN [Idle EXCEPT !.pc = "flush", !.task = "flush"]
                                ELSE Idle
HasEnded(p) == ended' = IF procs[p].event.kind = "usage" /\ procs[p].task = "send"
                        THEN ended \cup {procs[p].event} ELSE ended

\* A session was found for the call (or none: Without).
With(p, t) ==
  CASE procs[p].task = "send"  -> [procs[p] EXCEPT !.pc = "request", !.token = t,
                                     !.usable = FALSE, !.waits = 0]
    [] procs[p].task = "flush" -> [procs[p] EXCEPT !.pc = "deliver", !.token = t,
                                     !.usable = FALSE, !.waits = 0]
    [] OTHER -> Idle
Without(p, isUnauthorized) ==
  IF procs[p].task = "send"
  THEN [procs[p] EXCEPT !.pc = "append", !.token = NoToken, !.usable = FALSE,
                        !.waits = 0, !.unauthorized = isUnauthorized]
  ELSE Idle

-----------------------------------------------------------------------------
(* The calls of the client *)

StartSend(p) ==
  /\ procs[p].pc = "idle" /\ CanUse("calls") /\ Use("calls")
  /\ Goto(p, [Idle EXCEPT !.pc = "session", !.task = "send",
                          !.event = Event(used.calls + 1, "usage")])
  /\ SameServer /\ SameStore /\ SameHistory /\ UNCHANGED refreshing

StartFlush(p) ==
  /\ procs[p].pc = "idle" /\ CanUse("calls") /\ Use("calls")
  /\ Goto(p, [Idle EXCEPT !.pc = "flush", !.task = "flush"])
  /\ SameServer /\ SameStore /\ SameHistory /\ UNCHANGED refreshing

StartRefresh(p) ==
  /\ procs[p].pc = "idle" /\ CanUse("calls") /\ Use("calls")
  /\ Goto(p, [Idle EXCEPT !.pc = "session", !.task = "refresh", !.retried = TRUE])
  /\ SameServer /\ SameStore /\ SameHistory /\ UNCHANGED refreshing

\* connectToPlatform: no session before, but a bootstrap payload or a request
\* to reconnect, is what makes it a reconnection that is reported.
StartConnect(p) ==
  /\ procs[p].pc = "idle" /\ CanUse("calls") /\ Use("calls")
  /\ LET reports == /\ stored = NoToken
                    /\ \/ cached
                       \/ \E i \in DOMAIN buffer : buffer[i].kind = "reconnect_requested"
     IN Goto(p, [Idle EXCEPT !.pc = "bind", !.task = "connect", !.connects = TRUE,
                             !.event = IF reports THEN Event(used.calls + 1, "reconnected")
                                                  ELSE NoEvent])
  /\ SameServer /\ SameStore /\ SameHistory /\ UNCHANGED refreshing

-----------------------------------------------------------------------------
(* The session of a call: ensureValidInstallationSession *)

Binding == \E q \in Procs : procs[q].pc \in {"bind", "issue", "save"}
Running == \E r \in DOMAIN handlers : handlers[r].step # "closed"
Closed  == [step |-> "closed", token |-> NoToken, new |-> NoToken, awaited |-> FALSE]

\* Mistake: the promise of a refresh under way is not shared.
JoinOrStartAlone(p, t) ==
  /\ handlers' = Append(handlers, [step |-> "asked", token |-> t, new |-> NoToken,
                                   awaited |-> TRUE])
  /\ refreshing' = Len(handlers')
  /\ upset' = (upset \/ Binding)
  /\ Goto(p, [procs[p] EXCEPT !.pc = "refreshing", !.token = t, !.waits = refreshing',
                              !.usable = sessions[t].age # "expired"])

\* refreshInstallationSessionWithDedup: a refresh that is under way is shared.
JoinOrStart(p, t) ==
  /\ IF refreshing # 0 THEN UNCHANGED <<handlers, refreshing, upset>>
     ELSE /\ handlers' = Append(handlers, [step |-> "asked", token |-> t, new |-> NoToken,
                                           awaited |-> TRUE])
          /\ refreshing' = Len(handlers')
          /\ upset' = (upset \/ Binding)
  /\ Goto(p, [procs[p] EXCEPT !.pc = "refreshing", !.token = t, !.waits = refreshing',
                              !.usable = sessions[t].age # "expired"])

ReadSession(p) ==
  /\ procs[p].pc = "session"
  /\ \/ /\ stored = NoToken
        /\ Goto(p, Without(p, TRUE))
        /\ UNCHANGED <<handlers, refreshing, upset>>
     \/ /\ stored # NoToken
        /\ sessions[stored].age = "fresh" /\ ~procs[p].retried
        /\ Goto(p, With(p, stored))
        /\ UNCHANGED <<handlers, refreshing, upset>>
     \/ /\ stored # NoToken
        /\ sessions[stored].age # "fresh" \/ procs[p].retried
        /\ JoinOrStart(p, stored)
  /\ SameStore
  /\ UNCHANGED <<sessions, site, used, received, flushed, appended, excused, ended, overlap>>

\* The promise of a refresh is settled: the calls that wait for it go on.
Settle(r, state(_)) ==
  /\ procs' = [p \in Procs |-> IF procs[p].pc = "refreshing" /\ procs[p].waits = r
                               THEN state(p) ELSE procs[p]]
  /\ refreshing' = 0

\* The reply: the new session is stored, a 401 clears the stored one.
RefreshReply(r) ==
  /\ handlers[r].awaited /\ handlers[r].step \in {"done", "denied"}
  /\ handlers' = [handlers EXCEPT ![r] = Closed]
  /\ stored' = handlers[r].new
  /\ Settle(r, LAMBDA p : IF handlers[r].step = "done" THEN With(p, handlers[r].new)
                                                       ELSE Without(p, TRUE))
  /\ UNCHANGED <<sessions, site, cached, buffer, used, history>>

\* The request or the reply is lost, or the API fails: the client gives up (the
\* API's handler may still be running) and uses the old session when that had
\* not expired.
RefreshFails(r) ==
  /\ handlers[r].awaited /\ CanUse("faults") /\ Use("faults")
  /\ handlers' = [handlers EXCEPT ![r] =
       IF @.step \in {"done", "denied"} THEN Closed ELSE [@ EXCEPT !.awaited = FALSE]]
  /\ Settle(r, LAMBDA p : IF procs[p].usable THEN With(p, procs[p].token)
                                            ELSE Without(p, FALSE))
  /\ upset' = TRUE
  /\ UNCHANGED <<sessions, site, stored, cached, buffer,
                 received, flushed, appended, excused, ended, overlap>>

-----------------------------------------------------------------------------
(* The API's handler of a refresh: refreshInstallationSessionForToken *)

HandlerResolves(r) ==
  /\ handlers[r].step = "asked"
  /\ handlers' = [handlers EXCEPT ![r] =
       IF Active(@.token) THEN [@ EXCEPT !.step = "resolved"]
       ELSE IF @.awaited  THEN [@ EXCEPT !.step = "denied"] ELSE Closed]
  /\ UNCHANGED <<sessions, site, client, used, history>>

HandlerRevokes(r) ==
  /\ handlers[r].step = "resolved"
  /\ sessions' = [sessions EXCEPT ![handlers[r].token].revoked = TRUE]
  /\ handlers' = [handlers EXCEPT ![r].step = "revoked"]
  /\ UNCHANGED <<site, client, used, history>>

HandlerIssues(r) ==
  /\ handlers[r].step = "revoked"
  /\ sessions' = Append(sessions, Fresh)
  /\ handlers' = [handlers EXCEPT ![r] =
       IF @.awaited THEN [@ EXCEPT !.step = "done", !.new = Len(sessions')] ELSE Closed]
  /\ UNCHANGED <<site, client, used, history>>

-----------------------------------------------------------------------------
(* Sending an event: executeWithInstallationSession, sendUsageEvent *)

SendAccepted(p) ==
  /\ procs[p].pc = "request" /\ Active(procs[p].token)
  /\ received' = received \cup {procs[p].event}
  /\ HasEnded(p) /\ Goto(p, Over(p))
  /\ SameServer /\ SameStore
  /\ UNCHANGED <<refreshing, used, flushed, appended, excused, overlap, upset>>

\* A 4xx other than 401 and 429: thrown to the caller, not buffered.
SendRefused(p) ==
  /\ procs[p].pc = "request" /\ Active(procs[p].token)
  /\ CanUse("faults") /\ Use("faults")
  /\ excused' = excused \cup {procs[p].event}
  /\ HasEnded(p) /\ Goto(p, Over(p))
  /\ SameServer /\ SameStore
  /\ UNCHANGED <<refreshing, received, flushed, appended, overlap, upset>>

\* The request is lost, the API answers 5xx or 429, or its answer is lost.
SendFails(p) ==
  /\ procs[p].pc = "request" /\ CanUse("faults") /\ Use("faults")
  /\ \/ UNCHANGED received
     \/ Active(procs[p].token) /\ received' = received \cup {procs[p].event}
  /\ Goto(p, Without(p, FALSE))
  /\ SameServer /\ SameStore
  /\ UNCHANGED <<refreshing, flushed, appended, excused, ended, overlap, upset>>

\* 401: once more with a session refreshed by force, then it is a failure.
SendUnauthorized(p) ==
  /\ procs[p].pc = "request" /\ ~Active(procs[p].token)
  /\ Goto(p, IF procs[p].retried THEN Without(p, TRUE)
             ELSE [procs[p] EXCEPT !.pc = "session", !.token = NoToken, !.retried = TRUE])
  /\ SameServer /\ SameStore /\ SameHistory /\ UNCHANGED <<refreshing, used>>

-----------------------------------------------------------------------------
(* The buffer of events *)

Trimmed(events) ==
  IF Len(events) > MaxItems THEN SubSeq(events, Len(events) - MaxItems + 1, Len(events))
                            ELSE events
EventsIn(events) == {events[i] : i \in DOMAIN events}

\* Between its read of the buffer and the write that follows.
AtBuffer(q) == \/ procs[q].pc = "store"
               \/ procs[q].task = "flush" /\ procs[q].pc \notin {"idle", "flush"}
Meets(p)  == overlap' = (overlap \/ \E q \in Procs \ {p} : AtBuffer(q))

\* appendBufferedEvent: getBufferedEvents ...
AppendReads(p) ==
  /\ procs[p].pc = "append"
  /\ Goto(p, [procs[p] EXCEPT !.pc = "store", !.snap = buffer])
  /\ Meets(p)
  /\ SameServer /\ SameStore
  /\ UNCHANGED <<refreshing, used, received, flushed, appended, excused, ended, upset>>

\* ... and setBufferedEvents.  A usage event that met a 401 is followed by a
\* request to reconnect.
AppendWrites(p) ==
  /\ procs[p].pc = "store"
  /\ LET next == Append(procs[p].snap, procs[p].event)
     IN /\ buffer'   = Trimmed(next)
        /\ appended' = Append(appended, procs[p].event)
        /\ excused'  = excused \cup (EventsIn(next) \ EventsIn(Trimmed(next)))
  /\ IF procs[p].unauthorized
     THEN Goto(p, [procs[p] EXCEPT !.pc = "check", !.snap = <<>>]) /\ UNCHANGED ended
     ELSE Goto(p, Over(p)) /\ HasEnded(p)
  /\ SameServer /\ UNCHANGED <<stored, cached, refreshing, used, received, flushed, overlap, upset>>

\* hasBufferedReconnectRequestedLifecycleEvent
CheckReconnect(p) ==
  /\ procs[p].pc = "check"
  /\ HasEnded(p)
  /\ IF \E e \in EventsIn(buffer) : e.kind = "reconnect_requested"
     THEN Goto(p, Over(p))
     ELSE Goto(p, [procs[p] EXCEPT !.pc = "append", !.unauthorized = FALSE,
                                   !.event.kind = "reconnect_requested"])
  /\ SameServer /\ SameStore
  /\ UNCHANGED <<refreshing, used, received, flushed, appended, excused, overlap, upset>>

\* flushBufferedEventsFromState: an empty buffer needs no session.
FlushReads(p) ==
  /\ procs[p].pc = "flush"
  /\ Goto(p, IF buffer = <<>> THEN Idle
             ELSE [procs[p] EXCEPT !.pc = "session", !.snap = buffer, !.connects = FALSE])
  /\ Meets(p)
  /\ SameServer /\ SameStore
  /\ UNCHANGED <<refreshing, used, received, flushed, appended, excused, ended, upset>>

NextEvent(p) == procs[p].snap[procs[p].sent + 1]

\* The events are sent one after the other; the last one ends the loop, ...
FlushAccepted(p) ==
  /\ procs[p].pc = "deliver" /\ Active(procs[p].token)
  /\ received' = received \cup {NextEvent(p)}
  /\ flushed'  = flushed \cup {NextEvent(p)}
  /\ Goto(p, [procs[p] EXCEPT !.sent = @ + 1,
                 !.pc = IF procs[p].sent + 1 = Len(procs[p].snap) THEN "rest" ELSE "deliver"])
  /\ SameServer /\ SameStore
  /\ UNCHANGED <<refreshing, used, appended, excused, ended, overlap, upset>>

\* Mistake: the loop goes on after a failure.
FlushGoesOn(p) ==
  /\ procs[p].pc = "deliver"
  /\ \/ ~Active(procs[p].token) /\ UNCHANGED used
     \/ CanUse("faults") /\ Use("faults")
  /\ Goto(p, [procs[p] EXCEPT !.sent = @ + 1,
                 !.pc = IF procs[p].sent + 1 = Len(procs[p].snap) THEN "rest" ELSE "deliver"])
  /\ SameServer /\ SameStore
  /\ UNCHANGED <<refreshing, received, flushed, appended, excused, ended, overlap, upset>>

\* ... and so does any failure, a 401 included.
FlushStops(p) ==
  /\ procs[p].pc = "deliver"
  /\ \/ ~Active(procs[p].token) /\ UNCHANGED <<used, received, flushed>>
     \/ CanUse("faults") /\ Use("faults") /\ UNCHANGED <<received, flushed>>
     \/ /\ CanUse("faults") /\ Use("faults") /\ Active(procs[p].token)
        /\ received' = received \cup {NextEvent(p)} /\ flushed' = flushed \cup {NextEvent(p)}
  /\ Goto(p, [procs[p] EXCEPT !.pc = "rest"])
  /\ SameServer /\ SameStore
  /\ UNCHANGED <<refreshing, appended, excused, ended, overlap, upset>>

\* Mistake: the buffer is emptied, whatever the flush has left.
FlushEmpties(p) ==
  /\ procs[p].pc = "rest"
  /\ buffer' = <<>>
  /\ Goto(p, Idle)
  /\ SameServer /\ SameHistory /\ UNCHANGED <<stored, cached, refreshing, used>>

FlushWrites(p) ==
  /\ procs[p].pc = "rest"
  /\ buffer' = SubSeq(procs[p].snap, procs[p].sent + 1, Len(procs[p].snap))
  /\ Goto(p, Idle)
  /\ SameServer /\ SameHistory /\ UNCHANGED <<stored, cached, refreshing, used>>

-----------------------------------------------------------------------------
(* Connecting: the site binds the installation and the client stores it *)

\* Two parties change the sessions at a time.
Others(p) == \/ refreshing # 0 \/ Running \/ site = "revoked"
             \/ \E q \in Procs \ {p} : procs[q].pc \in {"issue", "save"}

BindRevokes(p) ==
  /\ procs[p].pc = "bind"
  /\ sessions' = RevokeAll
  /\ upset' = (upset \/ Others(p))
  /\ Goto(p, [procs[p] EXCEPT !.pc = "issue"])
  /\ SameStore
  /\ UNCHANGED <<handlers, site, refreshing, used, received, flushed, appended, excused,
                 ended, overlap>>

BindIssues(p) ==
  /\ procs[p].pc = "issue"
  /\ sessions' = Append(sessions, Fresh)
  /\ Goto(p, [procs[p] EXCEPT !.pc = "save", !.token = Len(sessions')])
  /\ SameStore /\ SameHistory
  /\ UNCHANGED <<handlers, site, refreshing, used>>

\* saveBindResult, then the report of a reconnection, then the flush.
BindSaved(p) ==
  /\ procs[p].pc = "save"
  /\ stored' = procs[p].token /\ cached' = TRUE
  /\ Goto(p, IF procs[p].event = NoEvent THEN Over(p)
             ELSE [procs[p] EXCEPT !.pc = "session", !.task = "send", !.token = NoToken])
  /\ SameServer /\ SameHistory /\ UNCHANGED <<buffer, refreshing, used>>

\* The bridge is closed, or its answer does not come.
BindFails(p) ==
  /\ procs[p].pc \in {"bind", "issue", "save"} /\ CanUse("faults") /\ Use("faults")
  /\ upset' = (upset \/ procs[p].pc # "bind")
  /\ Goto(p, Idle)
  /\ SameServer /\ SameStore
  /\ UNCHANGED <<refreshing, received, flushed, appended, excused, ended, overlap>>

-----------------------------------------------------------------------------
(* The site, time, and the worker the extension runs in *)

SiteRevokes ==
  /\ site = "idle" /\ CanUse("faults") /\ Use("faults")
  /\ sessions' = RevokeAll /\ upset' = TRUE
  /\ site' \in {"idle", "revoked"}    \* disconnection, or rotation that goes on
  /\ UNCHANGED <<handlers, client, received, flushed, appended, excused, ended, overlap>>

\* The rotated token is answered to the site, not to the extension.
SiteIssues ==
  /\ site = "revoked"
  /\ sessions' = Append(sessions, Fresh)
  /\ site' = "idle"
  /\ UNCHANGED <<handlers, client, used, history>>

Older == [fresh |-> {"closing", "expired"}, closing |-> {"expired"}]

\* A session comes within five minutes of its end, then to its end.
SessionAges(t) ==
  /\ sessions[t].age # "expired" /\ ~sessions[t].revoked
  /\ CanUse("agings") /\ Use("agings")
  /\ \E age \in Older[sessions[t].age] : sessions' = [sessions EXCEPT ![t].age = age]
  /\ UNCHANGED <<handlers, site, client, history>>

\* The extension's worker is stopped: what is in memory is lost.
Restart ==
  /\ CanUse("faults") /\ Use("faults")
  /\ procs' = [p \in Procs |-> Idle] /\ refreshing' = 0
  /\ handlers' = [r \in DOMAIN handlers |->
                   IF handlers[r].step \in {"done", "denied"} THEN Closed
                   ELSE [handlers[r] EXCEPT !.awaited = FALSE]]
  /\ excused' = excused \cup {procs[p].event : p \in {q \in Procs : procs[q].task = "send"}}
  /\ upset' = (upset \/ refreshing # 0 \/ Binding)
  /\ SameStore
  /\ UNCHANGED <<sessions, site, received, flushed, appended, ended, overlap>>

-----------------------------------------------------------------------------
\* An installation that was bound before, or is not bound yet.
Init ==
  /\ \E bound \in BOOLEAN :
       /\ sessions = IF bound THEN <<Fresh>> ELSE <<>>
       /\ stored = IF bound THEN 1 ELSE NoToken
       /\ cached = bound
  /\ handlers = <<>> /\ site = "idle"
  /\ buffer = <<>> /\ refreshing = 0 /\ procs = [p \in Procs |-> Idle]
  /\ used = [b \in DOMAIN Bounds |-> 0]
  /\ received = {} /\ flushed = {} /\ appended = <<>> /\ excused = {} /\ ended = {}
  /\ overlap = FALSE /\ upset = FALSE

Call(p) ==
  \/ StartSend(p) \/ StartFlush(p) \/ StartRefresh(p) \/ StartConnect(p)
  \/ ReadSession(p)
  \/ SendAccepted(p) \/ SendRefused(p) \/ SendFails(p) \/ SendUnauthorized(p)
  \/ AppendReads(p) \/ AppendWrites(p) \/ CheckReconnect(p)
  \/ FlushReads(p) \/ FlushAccepted(p) \/ FlushStops(p) \/ FlushWrites(p)
  \/ BindRevokes(p) \/ BindIssues(p) \/ BindSaved(p) \/ BindFails(p)
Refresh(r) ==
  \/ RefreshReply(r) \/ RefreshFails(r)
  \/ HandlerResolves(r) \/ HandlerRevokes(r) \/ HandlerIssues(r)

Next ==
  \/ \E p \in Procs : Call(p)
  \/ \E r \in DOMAIN handlers : Refresh(r)
  \/ SiteRevokes \/ SiteIssues \/ Restart
  \/ \E t \in DOMAIN sessions : SessionAges(t)

Spec == Init /\ [][Next]_vars

-----------------------------------------------------------------------------
(* Properties *)

Pcs == {"idle", "session", "refreshing", "request", "append", "store", "check",
        "flush", "deliver", "rest", "bind", "issue", "save"}

\* Every variable keeps the shape the runtime and the API give it, no token is
\* stored that the API has not issued, and the buffer stays within its capacity.
TypeOK ==
  /\ \A t \in DOMAIN sessions :
       sessions[t] \in [revoked : BOOLEAN, age : {"fresh", "closing", "expired"}]
  /\ stored \in {NoToken} \cup DOMAIN sessions /\ cached \in BOOLEAN
  /\ refreshing \in {0} \cup DOMAIN handlers /\ site \in {"idle", "revoked"}
  /\ \A r \in DOMAIN handlers :
       /\ handlers[r].step \in {"asked", "resolved", "revoked", "done", "denied", "closed"}
       /\ handlers[r].step \in {"done", "denied"} => handlers[r].awaited
       /\ handlers[r].new \in {NoToken} \cup DOMAIN sessions
  /\ EventsIn(buffer) \subseteq Events /\ Len(buffer) <= MaxItems
  /\ \A p \in Procs : /\ procs[p].pc \in Pcs
                       /\ procs[p].token \in {NoToken} \cup DOMAIN sessions
                       /\ procs[p].pc \in {"request", "deliver"} => procs[p].token # NoToken

\* "Failed retryable usage/runtime telemetry is buffered in extension state", and
\* a flush drops only what the API took: once its call has ended, a usage event
\* is received, buffered, refused or trimmed, provided that no two calls were at
\* the buffer at the same time (then the later write drops the earlier one's).
NothingLostWhenCalm ==
  ~overlap => ended \subseteq received \cup EventsIn(buffer) \cup excused

\* "Buffered telemetry flush is FIFO and stops at the first failed event": when a
\* flush has delivered an event, it has delivered every event buffered before it
\* that was not trimmed.
FlushedInOrder ==
  ~overlap => \A i, j \in DOMAIN appended :
    i < j /\ appended[j] \in flushed => appended[i] \in flushed \cup excused

\* The shared refresh: as long as no reply is lost and the site, a connection or
\* a restart does not interfere, concurrent calls never cost the installation its
\* session.  Between refreshes the stored session is not revoked, and it is
\* only ever given up because it had expired.
SessionSurvives ==
  ~upset /\ refreshing = 0 /\ ~Binding =>
    /\ stored # NoToken => ~sessions[stored].revoked
    /\ cached /\ stored = NoToken => \E t \in DOMAIN sessions : sessions[t].age = "expired"

\* The buffer keeps its capacity and its order.
BufferHolds == TypeOK /\ FlushedInOrder
=============================================================================
