-------------------------- MODULE TopUpWebhooksProofs --------------------------
(***************************************************************************)
(* Theorems about TopUpWebhooks, for any number of payments, webhook       *)
(* requests and retries, and however often calls fail.                     *)
(*                                                                         *)
(* Why a payment is credited at most once: whoever stores the event of a   *)
(* payment is the only handler that ever goes on to settle it (SoleWorker),*)
(* and it does so before there is any credit (WorksUncredited).  Why it is *)
(* paid: a handler reaches the settlement only for a payment YooKassa      *)
(* holds as succeeded, and no step takes that back (Settles).              *)
(***************************************************************************)
EXTENDS TopUpWebhooks, TLAPS

USE BoundsAssumption

\* A process at work has a payment to work on.
AtWork ==
  /\ \A h \in Handlers : step[h] # "idle" => serving[h] \in Payments
  /\ \A a \in Admins : admin[a] # "idle" => retrying[a] \in Payments

\* A job that may still be attempted has attempts left.
AttemptsLeft ==
  \A j \in JobIds : /\ job[j] = "absent" => attempts[j] = 0
                    /\ job[j] \in {"waiting", "mark"} => attempts[j] < MaxAttempts

Typed == TypeOK /\ AtWork /\ AttemptsLeft

\* The handlers that have stored the event and may still settle.
Works(h) == step[h] \in {"lookup", "settle_read", "settle_write"}

SoleWorker ==
  \A h, g \in Handlers : Works(h) /\ Works(g) /\ serving[h] = serving[g] => h = g

WorksUncredited ==
  \A h \in Handlers : Works(h) => event[serving[h]] # "absent" /\ credits[serving[h]] = 0

\* Nothing is credited before its event is stored.
CreditedIsStored == \A p \in Payments : event[p] = "absent" => credits[p] = 0

Once == SoleWorker /\ WorksUncredited /\ CreditedIsStored /\ CreditedAtMostOnce

\* What the request of a top-up has done so far.
Requested ==
  \A p \in Payments :
    /\ request[p] = "start" => payment[p] = "none"
    /\ request[p] \in {"start", "save"} => topUp[p] = "none"
    /\ request[p] = "done" => topUp[p] # "none"

\* A handler settles a payment that has succeeded and whose top-up is saved.
Settles ==
  \A h \in Handlers : step[h] \in {"settle_read", "settle_write"} =>
    payment[serving[h]] = "succeeded" /\ topUp[serving[h]] # "none"

Paid == Requested /\ Settles /\ PaidHasTopUp /\ CreditedIsPaid

-----------------------------------------------------------------------------
\* The initial states have all of the invariant.
LEMMA InitHolds == Init => Typed /\ Once /\ Paid
<1> SUFFICES ASSUME Init PROVE Typed /\ Once /\ Paid
  OBVIOUS
<1>1. TypeOK
  BY DEF Init, TypeOK, JobIds
<1>2. AtWork /\ AttemptsLeft
  BY DEF Init, AtWork, AttemptsLeft
<1>3. Once
  BY DEF Init, Once, SoleWorker, WorksUncredited, Works, CreditedIsStored, CreditedAtMostOnce
<1>4. Paid
  BY DEF Init, Paid, Requested, Settles, PaidHasTopUp, CreditedIsPaid
<1> QED
  BY <1>1, <1>2, <1>3, <1>4 DEF Typed

\* Every step keeps the variables typed.
LEMMA StepTyped ==
  ASSUME Typed, [Next]_vars
  PROVE  Typed'
<1>1. ASSUME NEW p \in Payments, CreatePayment(p) PROVE Typed'
  BY <1>1 DEF CreatePayment, handling, queue, retry, Typed, TypeOK, AtWork,
         AttemptsLeft
<1>2. ASSUME NEW p \in Payments, SaveTopUp(p) PROVE Typed'
  BY <1>2 DEF SaveTopUp, handling, queue, retry, Typed, TypeOK, AtWork,
         AttemptsLeft
<1>3. ASSUME NEW p \in Payments, CreateFails(p) PROVE Typed'
  BY <1>3 DEF CreateFails, Fails, handling, queue, retry, Typed, TypeOK,
         AtWork, AttemptsLeft
<1>4. ASSUME NEW p \in Payments, Pay(p) PROVE Typed'
  BY <1>4 DEF Pay, handling, queue, retry, Typed, TypeOK, AtWork, AttemptsLeft
<1>5. ASSUME NEW p \in Payments, CancelPayment(p) PROVE Typed'
  BY <1>5 DEF CancelPayment, handling, queue, retry, Typed, TypeOK, AtWork,
         AttemptsLeft
<1>6. ASSUME NEW h \in Handlers, NEW p \in Payments, Deliver(h, p) PROVE Typed'
  BY <1>6 DEF Deliver, Final, Goto, money, queue, retry, Typed, TypeOK,
         AtWork, AttemptsLeft
<1>7. ASSUME NEW h \in Handlers, Record(h) PROVE Typed'
  BY <1>7 DEF Record, Goto, money, queue, retry, Typed, TypeOK, AtWork,
         AttemptsLeft
<1>8. ASSUME NEW h \in Handlers, Lookup(h) PROVE Typed'
  BY <1>8 DEF Lookup, Goto, money, queue, retry, Typed, TypeOK, AtWork,
         AttemptsLeft
<1>9. ASSUME NEW h \in Handlers, SettleRead(h) PROVE Typed'
  BY <1>9 DEF SettleRead, Goto, money, queue, retry, Typed, TypeOK, AtWork,
         AttemptsLeft
<1>10. ASSUME NEW h \in Handlers, SettleWrite(h) PROVE Typed'
  BY <1>10 DEF SettleWrite, Goto, queue, retry, Typed, TypeOK, AtWork,
         AttemptsLeft
<1>11. ASSUME NEW h \in Handlers, CancelTopUp(h) PROVE Typed'
  BY <1>11 DEF CancelTopUp, Goto, queue, retry, Typed, TypeOK, AtWork,
         AttemptsLeft
<1>12. ASSUME NEW h \in Handlers, Dispatch(h) PROVE Typed'
  <2>1. <<serving[h], 0>> \in JobIds
    BY <1>12 DEF Dispatch, Typed, AtWork, JobIds
  <2>2. TypeOK'
    BY <1>12, <2>1 DEF Dispatch, Goto, Add, money, retry, Typed, TypeOK
  <2>3. AtWork'
    BY <1>12 DEF Dispatch, Goto, retry, Typed, TypeOK, AtWork
  <2>4. AttemptsLeft'
    BY <1>12, <2>1 DEF Dispatch, Add, Typed, TypeOK, AttemptsLeft
  <2> QED
    BY <2>2, <2>3, <2>4 DEF Typed
<1>13. ASSUME NEW h \in Handlers, Reply(h) PROVE Typed'
  BY <1>13 DEF Reply, Finish, Goto, queue, retry, Typed, TypeOK, AtWork,
         AttemptsLeft
<1>14. ASSUME NEW h \in Handlers, HandlerFails(h) PROVE Typed'
  BY <1>14 DEF HandlerFails, Fails, Finish, Goto, money, queue, retry, Typed,
         TypeOK, AtWork, AttemptsLeft
<1>15. ASSUME NEW j \in JobIds, JobRead(j) PROVE Typed'
  BY <1>15 DEF JobRead, money, handling, retry, Typed, TypeOK, AtWork,
         AttemptsLeft
<1>16. ASSUME NEW j \in JobIds, JobMark(j) PROVE Typed'
  BY <1>16 DEF JobMark, money, handling, retry, Typed, TypeOK, AtWork,
         AttemptsLeft
<1>17. ASSUME NEW j \in JobIds, JobFails(j) PROVE Typed'
  BY <1>17 DEF JobFails, Fails, money, handling, retry, Typed, TypeOK, AtWork,
         AttemptsLeft
<1>18. ASSUME NEW a \in Admins, NEW p \in Payments, RetryRead(a, p) PROVE Typed'
  BY <1>18 DEF RetryRead, money, handling, queue, Typed, TypeOK, AtWork,
         AttemptsLeft
<1>19. ASSUME NEW a \in Admins, RetryReset(a) PROVE Typed'
  BY <1>19 DEF RetryReset, money, handling, queue, Typed, TypeOK, AtWork,
         AttemptsLeft
<1>20. ASSUME NEW a \in Admins, RetryDispatch(a) PROVE Typed'
  <2>1. PICK n \in 1 .. MaxRetries : Add(<<retrying[a], n>>)
    BY <1>20 DEF RetryDispatch
  <2>2. <<retrying[a], n>> \in JobIds
    BY <1>20, <2>1 DEF RetryDispatch, Typed, AtWork, JobIds
  <2>3. TypeOK'
    BY <1>20, <2>1, <2>2
       DEF RetryDispatch, LeaveRetry, Add, money, handling, Typed, TypeOK
  <2>4. AtWork'
    BY <1>20 DEF RetryDispatch, LeaveRetry, handling, Typed, TypeOK, AtWork
  <2>5. AttemptsLeft'
    BY <1>20, <2>1, <2>2 DEF RetryDispatch, Add, Typed, TypeOK, AttemptsLeft
  <2> QED
    BY <2>3, <2>4, <2>5 DEF Typed
<1>21. ASSUME NEW a \in Admins, RetryFails(a) PROVE Typed'
  BY <1>21 DEF RetryFails, Fails, LeaveRetry, money, handling, queue, Typed,
         TypeOK, AtWork, AttemptsLeft
<1>22. ASSUME UNCHANGED vars PROVE Typed'
  BY <1>22 DEF vars, Typed, TypeOK, AtWork, AttemptsLeft
<1> QED
  BY <1>1, <1>2, <1>3, <1>4, <1>5, <1>6, <1>7, <1>8, <1>9, <1>10, <1>11,
         <1>12, <1>13, <1>14, <1>15, <1>16, <1>17, <1>18, <1>19, <1>20, <1>21,
         <1>22
     DEF Next, HandlerStep, JobStep, RetryStep

\* A step that stores or credits nothing and makes no handler one that may settle.
LEMMA QuietOnce ==
  ASSUME Once,
         UNCHANGED credits,
         \A p \in Payments : event'[p] = "absent" => event[p] = "absent",
         \A h \in Handlers : Works(h)' => /\ Works(h)
                                         /\ serving'[h] = serving[h]
                                         /\ serving[h] \in Payments
  PROVE  Once'
BY DEF Once, SoleWorker, WorksUncredited, CreditedIsStored, CreditedAtMostOnce

\* Every step keeps the settlement of a payment to one handler.
LEMMA StepOnce ==
  ASSUME Typed, Once, [Next]_vars
  PROVE  Once'
<1>1. ASSUME NEW p \in Payments, CreatePayment(p) PROVE Once'
  BY <1>1, QuietOnce DEF CreatePayment, handling, queue, retry, Works, Typed,
         TypeOK, AtWork
<1>2. ASSUME NEW p \in Payments, SaveTopUp(p) PROVE Once'
  BY <1>2, QuietOnce DEF SaveTopUp, handling, queue, retry, Works, Typed,
         TypeOK, AtWork
<1>3. ASSUME NEW p \in Payments, CreateFails(p) PROVE Once'
  BY <1>3, QuietOnce DEF CreateFails, Fails, handling, queue, retry, Works,
         Typed, TypeOK, AtWork
<1>4. ASSUME NEW p \in Payments, Pay(p) PROVE Once'
  BY <1>4, QuietOnce DEF Pay, handling, queue, retry, Works, Typed, TypeOK,
         AtWork
<1>5. ASSUME NEW p \in Payments, CancelPayment(p) PROVE Once'
  BY <1>5, QuietOnce DEF CancelPayment, handling, queue, retry, Works, Typed,
         TypeOK, AtWork
<1>6. ASSUME NEW h \in Handlers, NEW p \in Payments, Deliver(h, p) PROVE Once'
  BY <1>6, QuietOnce DEF Deliver, Final, Goto, money, queue, retry, Works,
         Typed, TypeOK, AtWork
<1>7. ASSUME NEW h \in Handlers, Record(h) PROVE Once'
  BY <1>7 DEF Record, Goto, money, queue, retry, Typed, TypeOK, AtWork, Once,
         SoleWorker, WorksUncredited, Works, CreditedIsStored,
         CreditedAtMostOnce
<1>8. ASSUME NEW h \in Handlers, Lookup(h) PROVE Once'
  BY <1>8, QuietOnce DEF Lookup, Goto, money, queue, retry, Works, Typed,
         TypeOK, AtWork
<1>9. ASSUME NEW h \in Handlers, SettleRead(h) PROVE Once'
  BY <1>9, QuietOnce DEF SettleRead, Goto, money, queue, retry, Works, Typed,
         TypeOK, AtWork
<1>10. ASSUME NEW h \in Handlers, SettleWrite(h) PROVE Once'
  BY <1>10 DEF SettleWrite, Goto, queue, retry, Typed, TypeOK, AtWork, Once,
         SoleWorker, WorksUncredited, Works, CreditedIsStored,
         CreditedAtMostOnce
<1>11. ASSUME NEW h \in Handlers, CancelTopUp(h) PROVE Once'
  BY <1>11, QuietOnce DEF CancelTopUp, Goto, queue, retry, Works, Typed,
         TypeOK, AtWork
<1>12. ASSUME NEW h \in Handlers, Dispatch(h) PROVE Once'
  BY <1>12, QuietOnce DEF Dispatch, Add, Goto, money, retry, Works, Typed,
         TypeOK, AtWork
<1>13. ASSUME NEW h \in Handlers, Reply(h) PROVE Once'
  BY <1>13, QuietOnce DEF Reply, Finish, Goto, queue, retry, Works, Typed,
         TypeOK, AtWork
<1>14. ASSUME NEW h \in Handlers, HandlerFails(h) PROVE Once'
  BY <1>14, QuietOnce DEF HandlerFails, Fails, Finish, Goto, money, queue,
         retry, Works, Typed, TypeOK, AtWork
<1>15. ASSUME NEW j \in JobIds, JobRead(j) PROVE Once'
  BY <1>15, QuietOnce DEF JobRead, money, handling, retry, Works, Typed,
         TypeOK, AtWork
<1>16. ASSUME NEW j \in JobIds, JobMark(j) PROVE Once'
  BY <1>16, QuietOnce DEF JobMark, money, handling, retry, Works, Typed,
         TypeOK, AtWork
<1>17. ASSUME NEW j \in JobIds, JobFails(j) PROVE Once'
  BY <1>17, QuietOnce DEF JobFails, Fails, money, handling, retry, Works,
         Typed, TypeOK, AtWork
<1>18. ASSUME NEW a \in Admins, NEW p \in Payments, RetryRead(a, p) PROVE Once'
  BY <1>18, QuietOnce DEF RetryRead, money, handling, queue, Works, Typed,
         TypeOK, AtWork
<1>19. ASSUME NEW a \in Admins, RetryReset(a) PROVE Once'
  BY <1>19, QuietOnce DEF RetryReset, money, handling, queue, Works, Typed,
         TypeOK, AtWork
<1>20. ASSUME NEW a \in Admins, RetryDispatch(a) PROVE Once'
  BY <1>20, QuietOnce DEF RetryDispatch, Add, LeaveRetry, money, handling,
         Works, Typed, TypeOK, AtWork
<1>21. ASSUME NEW a \in Admins, RetryFails(a) PROVE Once'
  BY <1>21, QuietOnce DEF RetryFails, Fails, LeaveRetry, money, handling,
         queue, Works, Typed, TypeOK, AtWork
<1>22. ASSUME UNCHANGED vars PROVE Once'
  BY <1>22, QuietOnce DEF vars, Works, Typed, TypeOK, AtWork
<1> QED
  BY <1>1, <1>2, <1>3, <1>4, <1>5, <1>6, <1>7, <1>8, <1>9, <1>10, <1>11,
         <1>12, <1>13, <1>14, <1>15, <1>16, <1>17, <1>18, <1>19, <1>20, <1>21,
         <1>22
     DEF Next, HandlerStep, JobStep, RetryStep

\* A step that leaves the money alone and takes no handler to the settlement.
LEMMA QuietPaid ==
  ASSUME Paid,
         UNCHANGED <<payment, request, topUp, credits>>,
         \A h \in Handlers : step'[h] \in {"settle_read", "settle_write"} =>
           /\ step[h] \in {"settle_read", "settle_write"}
           /\ serving'[h] = serving[h]
  PROVE  Paid'
BY DEF Paid, Requested, Settles, PaidHasTopUp, CreditedIsPaid

\* Every step credits only what is paid.
LEMMA StepPaid ==
  ASSUME Typed, Once, Paid, [Next]_vars
  PROVE  Paid'
<1>1. ASSUME NEW p \in Payments, CreatePayment(p) PROVE Paid'
  BY <1>1 DEF CreatePayment, handling, queue, retry, Typed, TypeOK, AtWork,
         Paid, Requested, Settles, PaidHasTopUp, CreditedIsPaid
<1>2. ASSUME NEW p \in Payments, SaveTopUp(p) PROVE Paid'
  BY <1>2 DEF SaveTopUp, handling, queue, retry, Typed, TypeOK, AtWork, Paid,
         Requested, Settles, PaidHasTopUp, CreditedIsPaid
<1>3. ASSUME NEW p \in Payments, CreateFails(p) PROVE Paid'
  BY <1>3 DEF CreateFails, Fails, handling, queue, retry, Typed, TypeOK,
         AtWork, Paid, Requested, Settles, PaidHasTopUp, CreditedIsPaid
<1>4. ASSUME NEW p \in Payments, Pay(p) PROVE Paid'
  BY <1>4 DEF Pay, handling, queue, retry, Typed, TypeOK, AtWork, Paid,
         Requested, Settles, PaidHasTopUp, CreditedIsPaid
<1>5. ASSUME NEW p \in Payments, CancelPayment(p) PROVE Paid'
  BY <1>5 DEF CancelPayment, handling, queue, retry, Typed, TypeOK, AtWork,
         Paid, Requested, Settles, PaidHasTopUp, CreditedIsPaid
<1>6. ASSUME NEW h \in Handlers, NEW p \in Payments, Deliver(h, p) PROVE Paid'
  BY <1>6, QuietPaid DEF Deliver, Final, Goto, money, queue, retry, Typed,
         TypeOK
<1>7. ASSUME NEW h \in Handlers, Record(h) PROVE Paid'
  BY <1>7, QuietPaid DEF Record, Goto, money, queue, retry, Typed, TypeOK
<1>8. ASSUME NEW h \in Handlers, Lookup(h) PROVE Paid'
  BY <1>8 DEF Lookup, Goto, money, queue, retry, Typed, TypeOK, AtWork, Once,
         CreditedIsStored, WorksUncredited, Works, Paid, Requested, Settles,
         PaidHasTopUp, CreditedIsPaid
<1>9. ASSUME NEW h \in Handlers, SettleRead(h) PROVE Paid'
  BY <1>9, QuietPaid DEF SettleRead, Goto, money, queue, retry, Typed, TypeOK
<1>10. ASSUME NEW h \in Handlers, SettleWrite(h) PROVE Paid'
  BY <1>10 DEF SettleWrite, Goto, queue, retry, Typed, TypeOK, AtWork, Once,
         CreditedIsStored, WorksUncredited, Works, Paid, Requested, Settles,
         PaidHasTopUp, CreditedIsPaid
<1>11. ASSUME NEW h \in Handlers, CancelTopUp(h) PROVE Paid'
  BY <1>11 DEF CancelTopUp, Goto, queue, retry, Typed, TypeOK, AtWork, Once,
         CreditedIsStored, WorksUncredited, Works, Paid, Requested, Settles,
         PaidHasTopUp, CreditedIsPaid
<1>12. ASSUME NEW h \in Handlers, Dispatch(h) PROVE Paid'
  BY <1>12, QuietPaid DEF Dispatch, Add, Goto, money, retry, Typed, TypeOK
<1>13. ASSUME NEW h \in Handlers, Reply(h) PROVE Paid'
  BY <1>13, QuietPaid DEF Reply, Finish, Goto, queue, retry, Typed, TypeOK
<1>14. ASSUME NEW h \in Handlers, HandlerFails(h) PROVE Paid'
  BY <1>14, QuietPaid DEF HandlerFails, Fails, Finish, Goto, money, queue,
         retry, Typed, TypeOK
<1>15. ASSUME NEW j \in JobIds, JobRead(j) PROVE Paid'
  BY <1>15, QuietPaid DEF JobRead, money, handling, retry, Typed, TypeOK
<1>16. ASSUME NEW j \in JobIds, JobMark(j) PROVE Paid'
  BY <1>16, QuietPaid DEF JobMark, money, handling, retry, Typed, TypeOK
<1>17. ASSUME NEW j \in JobIds, JobFails(j) PROVE Paid'
  BY <1>17, QuietPaid DEF JobFails, Fails, money, handling, retry, Typed,
         TypeOK
<1>18. ASSUME NEW a \in Admins, NEW p \in Payments, RetryRead(a, p) PROVE Paid'
  BY <1>18, QuietPaid DEF RetryRead, money, handling, queue, Typed, TypeOK
<1>19. ASSUME NEW a \in Admins, RetryReset(a) PROVE Paid'
  BY <1>19, QuietPaid DEF RetryReset, money, handling, queue, Typed, TypeOK
<1>20. ASSUME NEW a \in Admins, RetryDispatch(a) PROVE Paid'
  BY <1>20, QuietPaid DEF RetryDispatch, Add, LeaveRetry, money, handling,
         Typed, TypeOK
<1>21. ASSUME NEW a \in Admins, RetryFails(a) PROVE Paid'
  BY <1>21, QuietPaid DEF RetryFails, Fails, LeaveRetry, money, handling,
         queue, Typed, TypeOK
<1>22. ASSUME UNCHANGED vars PROVE Paid'
  BY <1>22, QuietPaid DEF vars, Typed, TypeOK
<1> QED
  BY <1>1, <1>2, <1>3, <1>4, <1>5, <1>6, <1>7, <1>8, <1>9, <1>10, <1>11,
         <1>12, <1>13, <1>14, <1>15, <1>16, <1>17, <1>18, <1>19, <1>20, <1>21,
         <1>22
     DEF Next, HandlerStep, JobStep, RetryStep

-----------------------------------------------------------------------------
\* Every reachable state has all of the invariant.
LEMMA AllHold == Spec => [](Typed /\ Once /\ Paid)
<1>1. Typed /\ Once /\ Paid /\ [Next]_vars => (Typed /\ Once /\ Paid)'
  BY StepTyped, StepOnce, StepPaid
<1> QED
  BY <1>1, InitHolds, PTL DEF Spec

\* Each variable keeps its type, whatever the handlers, the worker and the
\* administrators do: no job exceeds its attempts, no counter its bound.
THEOREM WebhookTypeCorrect == Spec => []TypeOK
<1>1. Typed => TypeOK
  BY DEF Typed
<1> QED
  BY <1>1, AllHold, PTL

\* However often the event of a payment is delivered, and wherever handlers
\* fail, recordReceivedEvent lets one of them reach settleTopUp, so that the
\* payment is credited at most once.
THEOREM CreditedAtMostOnceCorrect == Spec => []CreditedAtMostOnce
<1>1. Once => CreditedAtMostOnce
  BY DEF Once
<1> QED
  BY <1>1, AllHold, PTL

\* processYookassaPaymentEvent credits a wallet only for a payment that YooKassa
\* holds as succeeded, and leaves its top-up succeeded.
THEOREM CreditedIsPaidCorrect == Spec => []CreditedIsPaid
<1>1. Paid => CreditedIsPaid
  BY DEF Paid
<1> QED
  BY <1>1, AllHold, PTL

\* createTopUp returns the token after it has saved the row, so that a payment
\* that succeeds has a top-up.
THEOREM PaidHasTopUpCorrect == Spec => []PaidHasTopUp
<1>1. Paid => PaidHasTopUp
  BY DEF Paid
<1> QED
  BY <1>1, AllHold, PTL
=============================================================================
