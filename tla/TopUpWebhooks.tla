---------------------------- MODULE TopUpWebhooks ----------------------------
(***************************************************************************)
(* How a YooKassa payment becomes a wallet credit: the top-up request      *)
(* (wallet.service.ts), the webhook ingestion (billing.service.ts and      *)
(* billing-webhook.repository.ts), the worker's billing-webhooks job, and  *)
(* the administrator's retry (platform.service.ts).                        *)
(*                                                                         *)
(* Every action is one call that another process can observe: a statement  *)
(* on the database, an add to the queue, a call to or from YooKassa.  A    *)
(* process may fail between any two of them; MaxFailures bounds how often. *)
(*                                                                         *)
(* YooKassa sends one event for a payment, its final state, and sends it   *)
(* again until it is answered with a 2xx.  So an event is named by its     *)
(* payment, and its type is the state of the payment.                      *)
(***************************************************************************)
EXTENDS Integers

CONSTANTS
  Payments,      \* top-up requests, with the payment and the event of each
  Handlers,      \* webhook requests that the API may be serving together
  Admins,        \* retry requests that the API may be serving together
  FailedBefore,  \* payments whose event an earlier worker has left 'failed'
  MaxAttempts,   \* attempts of a billing-webhooks job
  MaxRetries,    \* bound: how many retries administrators send
  MaxFailures,   \* bound: how many calls fail
  NoPayment

ASSUME BoundsAssumption ==
  /\ FailedBefore \subseteq Payments
  /\ MaxAttempts \in Nat \ {0}
  /\ MaxRetries \in Nat
  /\ MaxFailures \in Nat
  /\ NoPayment \notin Payments

VARIABLES
  payment,   \* YooKassa: the state of each payment
  acked,     \* YooKassa: the payments whose event was answered with a 2xx
  request,   \* createTopUp: where the request of each payment is
  topUp,     \* WalletTopUp.status
  credits,   \* ledger rows that credit each top-up
  event,     \* WebhookEvent.status
  step,      \* ingestYookassaWebhook: where each handler is
  serving,   \* the payment whose event each handler serves
  job,       \* billing-webhooks: the state of each job
  attempts,  \* billing-webhooks: the failed attempts of each job
  admin,     \* where each retry request is
  retrying,  \* the payment whose event each retry request serves
  retries,   \* how many retries have been sent
  failures   \* how many calls have failed

money    == <<payment, acked, request, topUp, credits>>
handling == <<step, serving>>
queue    == <<job, attempts>>
retry    == <<admin, retrying, retries>>
vars     == <<payment, acked, request, topUp, credits, event, step, serving,
              job, attempts, admin, retrying, retries, failures>>

JobIds == Payments \X (0 .. MaxRetries)

Init ==
  /\ payment  = [p \in Payments |-> IF p \in FailedBefore THEN "succeeded" ELSE "none"]
  /\ acked    = FailedBefore
  /\ request  = [p \in Payments |-> IF p \in FailedBefore THEN "done" ELSE "start"]
  /\ topUp    = [p \in Payments |-> IF p \in FailedBefore THEN "succeeded" ELSE "none"]
  /\ credits  = [p \in Payments |-> IF p \in FailedBefore THEN 1 ELSE 0]
  /\ event    = [p \in Payments |-> IF p \in FailedBefore THEN "failed" ELSE "absent"]
  /\ step     = [h \in Handlers |-> "idle"]
  /\ serving  = [h \in Handlers |-> NoPayment]
  /\ job      = [j \in JobIds |-> IF j[1] \in FailedBefore /\ j[2] = 0
                                    THEN "failed" ELSE "absent"]
  /\ attempts = [j \in JobIds |-> 0]
  /\ admin    = [a \in Admins |-> "idle"]
  /\ retrying = [a \in Admins |-> NoPayment]
  /\ retries  = 0
  /\ failures = 0

Fails == failures < MaxFailures /\ failures' = failures + 1

-----------------------------------------------------------------------------
(* createTopUp: create the payment, save the top-up, return the token that *)
(* lets the user pay.                                                      *)

\* Mistake: the token is returned before the top-up is saved.
CreatePaymentReturns(p) ==
  /\ request[p] = "start"
  /\ payment' = [payment EXCEPT ![p] = "pending"]
  /\ request' = [request EXCEPT ![p] = "done"]
  /\ UNCHANGED <<acked, topUp, credits, event, handling, queue, retry, failures>>

CreatePayment(p) ==
  /\ request[p] = "start"
  /\ payment' = [payment EXCEPT ![p] = "pending"]
  /\ request' = [request EXCEPT ![p] = "save"]
  /\ UNCHANGED <<acked, topUp, credits, event, handling, queue, retry, failures>>

SaveTopUp(p) ==
  /\ request[p] = "save"
  /\ topUp'   = [topUp EXCEPT ![p] = "pending"]
  /\ request' = [request EXCEPT ![p] = "done"]
  /\ UNCHANGED <<payment, acked, credits, event, handling, queue, retry, failures>>

\* createPayment or the INSERT throws; YooKassa may have created the payment.
CreateFails(p) ==
  /\ Fails
  /\ \/ /\ request[p] = "start"
        /\ \E s \in {"none", "pending"} : payment' = [payment EXCEPT ![p] = s]
     \/ request[p] = "save" /\ UNCHANGED payment
  /\ request' = [request EXCEPT ![p] = "failed"]
  /\ UNCHANGED <<acked, topUp, credits, event, handling, queue, retry>>

\* The user pays with the token; a payment can also be canceled or expire.
Pay(p) ==
  /\ payment[p] = "pending"
  /\ request[p] = "done"
  /\ payment' = [payment EXCEPT ![p] = "succeeded"]
  /\ UNCHANGED <<acked, request, topUp, credits, event, handling, queue, retry, failures>>

CancelPayment(p) ==
  /\ payment[p] = "pending"
  /\ payment' = [payment EXCEPT ![p] = "canceled"]
  /\ UNCHANGED <<acked, request, topUp, credits, event, handling, queue, retry, failures>>

-----------------------------------------------------------------------------
(* ingestYookassaWebhook                                                   *)

Goto(h, s) == step' = [step EXCEPT ![h] = s]

Finish(h) ==
  /\ Goto(h, "idle")
  /\ serving' = [serving EXCEPT ![h] = NoPayment]

Final(p) == payment[p] \in {"succeeded", "canceled"}

\* YooKassa delivers the event, again if need be.
Deliver(h, p) ==
  /\ step[h] = "idle"
  /\ Final(p)
  /\ p \notin acked
  /\ Goto(h, "record")
  /\ serving' = [serving EXCEPT ![h] = p]
  /\ UNCHANGED <<money, event, queue, retry, failures>>

\* Mistake: a duplicate is processed again.
RecordAndGoOn(h) ==
  LET p == serving[h]
  IN  /\ step[h] = "record"
      /\ event' = [event EXCEPT ![p] = IF @ = "absent" THEN "received" ELSE @]
      /\ Goto(h, "lookup")
      /\ UNCHANGED <<money, serving, queue, retry, failures>>

\* Mistake: the unique violation is not caught.
RecordOrThrow(h) ==
  LET p == serving[h]
  IN  /\ step[h] = "record"
      /\ IF event[p] = "absent"
           THEN /\ event' = [event EXCEPT ![p] = "received"]
                /\ Goto(h, "lookup") /\ UNCHANGED serving
           ELSE Finish(h) /\ UNCHANGED event
      /\ UNCHANGED <<money, queue, retry, failures>>

\* recordReceivedEvent: a duplicate is acknowledged and goes no further.
Record(h) ==
  LET p == serving[h]
  IN  /\ step[h] = "record"
      /\ IF event[p] = "absent"
           THEN /\ event' = [event EXCEPT ![p] = "received"]
                /\ Goto(h, "lookup")
           ELSE Goto(h, "reply") /\ UNCHANGED event
      /\ UNCHANGED <<money, serving, queue, retry, failures>>

\* Mistake: the type of the event is not looked at.
LookupAnyType(h) ==
  /\ step[h] = "lookup"
  /\ Goto(h, IF topUp[serving[h]] = "none" THEN "dispatch" ELSE "settle_read")
  /\ UNCHANGED <<money, event, serving, queue, retry, failures>>

\* processYookassaPaymentEvent: find the top-up, branch on the event's type.
Lookup(h) ==
  LET p == serving[h]
  IN  /\ step[h] = "lookup"
      /\ Goto(h, CASE topUp[p] = "none" -> "dispatch"
                   [] topUp[p] # "none" /\ payment[p] = "succeeded" -> "settle_read"
                   [] OTHER -> "cancel")
      /\ UNCHANGED <<money, event, serving, queue, retry, failures>>

\* settleTopUp reads the status without locking the row ...
SettleRead(h) ==
  /\ step[h] = "settle_read"
  /\ Goto(h, IF topUp[serving[h]] = "succeeded" THEN "dispatch" ELSE "settle_write")
  /\ UNCHANGED <<money, event, serving, queue, retry, failures>>

\* ... and then marks and credits whatever the status has become.
SettleWrite(h) ==
  LET p == serving[h]
  IN  /\ step[h] = "settle_write"
      /\ topUp'   = [topUp EXCEPT ![p] = "succeeded"]
      /\ credits' = [credits EXCEPT ![p] = @ + 1]
      /\ Goto(h, "dispatch")
      /\ UNCHANGED <<payment, acked, request, event, serving, queue, retry, failures>>

CancelTopUp(h) ==
  /\ step[h] = "cancel"
  /\ topUp' = [topUp EXCEPT ![serving[h]] = IF @ = "pending" THEN "canceled" ELSE @]
  /\ Goto(h, "dispatch")
  /\ UNCHANGED <<payment, acked, request, credits, event, serving, queue, retry, failures>>

\* BullMQ ignores an add whose job id it still holds.
Add(j) == job' = [job EXCEPT ![j] = IF @ = "absent" THEN "waiting" ELSE @]

\* The job id is made of the provider and the event id.
Dispatch(h) ==
  /\ step[h] = "dispatch"
  /\ Add(<<serving[h], 0>>)
  /\ Goto(h, "reply")
  /\ UNCHANGED <<money, event, serving, attempts, retry, failures>>

Reply(h) ==
  /\ step[h] = "reply"
  /\ acked' = acked \cup {serving[h]}
  /\ Finish(h)
  /\ UNCHANGED <<payment, request, topUp, credits, event, queue, retry, failures>>

\* A call throws (the answer is a 5xx), the process dies, or the answer is lost.
HandlerFails(h) ==
  /\ step[h] # "idle"
  /\ Fails
  /\ Finish(h)
  /\ UNCHANGED <<money, event, queue, retry>>

-----------------------------------------------------------------------------
(* The worker's billing-webhooks job: read the event, mark it processed.   *)

JobRead(j) ==
  /\ job[j] = "waiting"
  /\ event[j[1]] # "absent"
  /\ job' = [job EXCEPT ![j] = IF event[j[1]] = "processed" THEN "completed" ELSE "mark"]
  /\ UNCHANGED <<money, event, handling, attempts, retry, failures>>

JobMark(j) ==
  /\ job[j] = "mark"
  /\ event' = [event EXCEPT ![j[1]] = "processed"]
  /\ job'   = [job EXCEPT ![j] = "completed"]
  /\ UNCHANGED <<money, handling, attempts, retry, failures>>

\* The attempt throws.  Nobody calls markWebhookEventFailed.
JobFails(j) ==
  /\ job[j] \in {"waiting", "mark"}
  /\ Fails
  /\ attempts' = [attempts EXCEPT ![j] = @ + 1]
  /\ job' = [job EXCEPT ![j] = IF attempts[j] + 1 = MaxAttempts THEN "failed" ELSE "waiting"]
  /\ UNCHANGED <<money, event, handling, retry>>

-----------------------------------------------------------------------------
(* retryAdminWebhookForCurrentSession: only a failed event can be retried. *)

RetryRead(a, p) ==
  /\ admin[a] = "idle"
  /\ retries < MaxRetries
  /\ event[p] = "failed"
  /\ admin'    = [admin EXCEPT ![a] = "reset"]
  /\ retrying' = [retrying EXCEPT ![a] = p]
  /\ retries'  = retries + 1
  /\ UNCHANGED <<money, event, handling, queue, failures>>

RetryReset(a) ==
  /\ admin[a] = "reset"
  /\ event' = [event EXCEPT ![retrying[a]] = "received"]
  /\ admin' = [admin EXCEPT ![a] = "dispatch"]
  /\ UNCHANGED <<money, handling, queue, retrying, retries, failures>>

LeaveRetry(a) ==
  /\ admin'    = [admin EXCEPT ![a] = "idle"]
  /\ retrying' = [retrying EXCEPT ![a] = NoPayment]
  /\ UNCHANGED retries

\* Mistake: the retry has the job id of the first dispatch.
RetryDispatchSameId(a) ==
  /\ admin[a] = "dispatch"
  /\ Add(<<retrying[a], 0>>)
  /\ LeaveRetry(a)
  /\ UNCHANGED <<money, event, handling, attempts, failures>>

\* The retry's job id ends in the time, so it is new.
RetryDispatch(a) ==
  /\ admin[a] = "dispatch"
  /\ \E n \in 1 .. MaxRetries :
        /\ job[<<retrying[a], n>>] = "absent"
        /\ Add(<<retrying[a], n>>)
  /\ LeaveRetry(a)
  /\ UNCHANGED <<money, event, handling, attempts, failures>>

RetryFails(a) ==
  /\ admin[a] # "idle"
  /\ Fails
  /\ LeaveRetry(a)
  /\ UNCHANGED <<money, event, handling, queue>>

-----------------------------------------------------------------------------

HandlerStep(h) ==
  \/ Record(h) \/ Lookup(h) \/ SettleRead(h) \/ SettleWrite(h)
  \/ CancelTopUp(h) \/ Dispatch(h) \/ Reply(h)

JobStep(j) == JobRead(j) \/ JobMark(j)

RetryStep(a) == RetryReset(a) \/ RetryDispatch(a)

Next ==
  \/ \E p \in Payments :
        \/ CreatePayment(p) \/ SaveTopUp(p) \/ CreateFails(p)
        \/ Pay(p) \/ CancelPayment(p)
        \/ \E h \in Handlers : Deliver(h, p)
        \/ \E a \in Admins : RetryRead(a, p)
  \/ \E h \in Handlers : HandlerStep(h) \/ HandlerFails(h)
  \/ \E j \in JobIds : JobStep(j) \/ JobFails(j)
  \/ \E a \in Admins : RetryStep(a) \/ RetryFails(a)

\* Requests being served go on, YooKassa redelivers, the worker takes jobs.
\* Nothing obliges users to pay or administrators to retry.
Fairness ==
  /\ \A p \in Payments : WF_vars(\E h \in Handlers : Deliver(h, p))
  /\ \A h \in Handlers : WF_vars(HandlerStep(h))
  /\ \A j \in JobIds : WF_vars(JobStep(j))
  /\ \A a \in Admins : WF_vars(RetryStep(a))

Spec     == Init /\ [][Next]_vars
FairSpec == Spec /\ Fairness

-----------------------------------------------------------------------------

\* Every variable has its type.
TypeOK ==
  /\ payment \in [Payments -> {"none", "pending", "succeeded", "canceled"}]
  /\ acked \subseteq Payments
  /\ request \in [Payments -> {"start", "save", "done", "failed"}]
  /\ topUp \in [Payments -> {"none", "pending", "succeeded", "canceled"}]
  /\ credits \in [Payments -> Nat]
  /\ event \in [Payments -> {"absent", "received", "processed", "failed"}]
  /\ step \in [Handlers -> {"idle", "record", "lookup", "settle_read", "settle_write",
                            "cancel", "dispatch", "reply"}]
  /\ serving \in [Handlers -> Payments \cup {NoPayment}]
  /\ job \in [JobIds -> {"absent", "waiting", "mark", "completed", "failed"}]
  /\ attempts \in [JobIds -> 0 .. MaxAttempts]
  /\ admin \in [Admins -> {"idle", "reset", "dispatch"}]
  /\ retrying \in [Admins -> Payments \cup {NoPayment}]
  /\ retries \in 0 .. MaxRetries
  /\ failures \in 0 .. MaxFailures

\* However often its event is delivered, and wherever handlers fail, a payment
\* is credited at most once: settleTopUp alone does not ensure it, the unique
\* (provider, externalEventId) of WebhookEvent does (recordReceivedEvent).
CreditedAtMostOnce == \A p \in Payments : credits[p] <= 1

\* A wallet is credited only for a payment that YooKassa holds as succeeded,
\* and its top-up says so.
CreditedIsPaid ==
  \A p \in Payments :
     credits[p] > 0 => payment[p] = "succeeded" /\ topUp[p] = "succeeded"

\* Nobody can pay for a top-up the API has no row of (createTopUp saves the row
\* before it returns the confirmation token).
PaidHasTopUp == \A p \in Payments : payment[p] = "succeeded" => topUp[p] # "none"

\* YooKassa does not redeliver for ever: each event is answered in the end.
EventuallyAcked == \A p \in Payments : Final(p) ~> p \in acked

\* A payment that succeeds is credited to its wallet in the end: a test of
\* wallet.service.ts says that payment.succeeded credits the balance.
PaidIsCredited == \A p \in Payments : payment[p] = "succeeded" ~> credits[p] > 0

Calm == [](failures = 0)

\* If no call fails, it is: an event never overtakes the row of its top-up.
PaidIsCreditedWhenCalm == Calm => PaidIsCredited

\* If no call fails, a stored event, a retried one included, is processed.
ReceivedIsProcessedWhenCalm ==
  Calm => \A p \in Payments : event[p] = "received" ~> event[p] = "processed"
=============================================================================
