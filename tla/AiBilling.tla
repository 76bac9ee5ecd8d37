------------------------------- MODULE AiBilling -------------------------------
(***************************************************************************)
(* What a user pays for a request to the AI proxy, and what the history    *)
(* says about it: ai-proxy.service.ts with the prices of                   *)
(* ai-pricing.service.ts, the wallet of one user (the debit is the atomic  *)
(* one of Ledger), and the upload controller, which persists the history   *)
(* of a request a second time.                                             *)
(*                                                                         *)
(* Every action is one call that others can observe: a query, a debit, a   *)
(* call upstream.  Money is counted in units of which UnitsPerMinor make   *)
(* one kopeck.                                                             *)
(***************************************************************************)
EXTENDS Integers, FiniteSetsExt

CONSTANTS
  Requests,       \* requests of one user that the API serves together
  Streams,        \* those that stream their answer
  Uploads,        \* those that come from the upload controller
  Policies,       \* pricing policies an administrator may set
  Costs,          \* bound: what upstream may charge for a request
  StartBalance,   \* kopecks in the wallet
  UnitsPerMinor,
  MaxChanges,     \* bound: how often the policy is changed
  MaxFailures,    \* bound: how many calls fail
  NoCap           \* maxChargeUsd: null

PolicyRecords ==
  [enabled : BOOLEAN, markup : 0 .. 500, minimumFee : Nat, rounding : Nat \ {0},
   maxCharge : Nat \cup {NoCap},
   failed : {"never", "provider_cost_only", "minimum_fee"},
   userKey : {"never", "platform_fee_only", "full_price"}]

\* The percentage of a cost is a whole number of units.
ASSUME InputAssumption ==
  /\ Streams \cap Uploads = {}
  /\ Streams \cup Uploads \subseteq Requests
  /\ \A p \in Policies : p \in PolicyRecords
  /\ Costs \subseteq Nat
  /\ \A c \in Costs, p \in Policies : (c * p.markup) % 100 = 0
  /\ StartBalance \in Nat
  /\ UnitsPerMinor \in Nat \ {0}
  /\ MaxChanges \in Nat
  /\ MaxFailures \in Nat

VARIABLES
  policy,    \* the effective pricing policy, as the process has it cached
  balance,   \* the wallet
  debit,     \* the amount posted under each request's key, 0 if none
  step,      \* where each request is
  source,    \* whose key it uses
  status,    \* "success" until it fails
  code,      \* the error code it fails with
  cost,      \* what upstream charges for it
  amount,    \* what it is to be charged, in kopecks
  billing,   \* the bill that its history will show
  answer,    \* what the client has got
  recorded,  \* the statuses of its AiRequest rows
  pending,   \* history rows being persisted
  history,   \* its AiRequestEvent
  changes,   \* how often the policy has changed
  failures   \* how many calls have failed

serving == <<step, source, status, code, cost, amount, billing>>
results == <<answer, recorded, pending, history>>
vars    == <<policy, balance, debit, step, source, status, code, cost, amount,
             billing, answer, recorded, pending, history, changes, failures>>

-----------------------------------------------------------------------------
(* Prices                                                                  *)

\* Math.round of a number of increments: halves go up.
RoundTo(x, increment) == ((2 * x + increment) \div (2 * increment)) * increment

PlatformFee(p, c) == Max({(c * p.markup) \div 100, p.minimumFee})

\* Mistake: a failed request is priced like a successful one.
ChargedSameForAll(p, c, src, st) ==
  CASE src = "user" /\ p.userKey = "never"             -> 0
    [] src = "user" /\ p.userKey = "platform_fee_only" -> PlatformFee(p, c)
    [] OTHER                                           -> c + PlatformFee(p, c)

\* Whose key it was decides for a success, the failure mode for a failure.
Charged(p, c, src, st) ==
  CASE st = "error" /\ p.failed = "never"              -> 0
    [] st = "error" /\ p.failed = "provider_cost_only" -> c
    [] st = "error" /\ p.failed = "minimum_fee"        -> p.minimumFee
    [] st = "success" /\ src = "user" /\ p.userKey = "never"             -> 0
    [] st = "success" /\ src = "user" /\ p.userKey = "platform_fee_only" -> PlatformFee(p, c)
    [] OTHER                                           -> c + PlatformFee(p, c)

Capped(p, x) == IF p.maxCharge = NoCap THEN x ELSE Min({x, p.maxCharge})

\* The price in units: 0 when there is nothing to charge.
Price(p, c, src, st) ==
  IF p.enabled THEN RoundTo(Capped(p, Charged(p, c, src, st)), p.rounding) ELSE 0

\* convertUsdToWalletMinor rounds up.
ToMinor(x) == (x + UnitsPerMinor - 1) \div UnitsPerMinor

-----------------------------------------------------------------------------

NoBill == [amount |-> 0, entry |-> FALSE]

Init ==
  /\ policy \in Policies
  /\ balance  = StartBalance
  /\ debit    = [r \in Requests |-> 0]
  /\ step     = [r \in Requests |-> "idle"]
  /\ source   = [r \in Requests |-> "platform"]
  /\ status   = [r \in Requests |-> "success"]
  /\ code     = [r \in Requests |-> "none"]
  /\ cost     = [r \in Requests |-> 0]
  /\ amount   = [r \in Requests |-> 0]
  /\ billing  = [r \in Requests |-> NoBill]
  /\ answer   = [r \in Requests |-> "none"]
  /\ recorded = [r \in Requests |-> {}]
  /\ pending  = [r \in Requests |-> {}]
  /\ history  = [r \in Requests |-> {}]
  /\ changes  = 0
  /\ failures = 0

Goto(r, s) == step' = [step EXCEPT ![r] = s]

Fails == failures < MaxFailures /\ failures' = failures + 1

\* An administrator sets it, or the cache expires: what others have set since is
\* read, or, when that fails, the default, with pricing disabled.
ChangePolicy ==
  /\ changes < MaxChanges
  /\ policy' \in Policies \ {policy}
  /\ changes' = changes + 1
  /\ UNCHANGED <<balance, debit, serving, results, failures>>

\* Pricing is on for such a request, its model is not free, the wallet is empty.
Blocked(src, free) ==
  /\ policy.enabled
  /\ src = "platform" \/ policy.userKey # "never"
  /\ ~free
  /\ balance <= 0

\* prepareProxyInvocation: the gate looks at the wallet before the price is known.
Gate(r, src, free) ==
  /\ step[r] = "idle"
  /\ IF Blocked(src, free)
       THEN Goto(r, "blocked") /\ answer' = [answer EXCEPT ![r] = "error"]
       ELSE Goto(r, "upstream") /\ UNCHANGED answer
  /\ source' = [source EXCEPT ![r] = src]
  /\ UNCHANGED <<policy, balance, debit, status, code, cost, amount, billing,
                 recorded, pending, history, changes, failures>>

\* The caught error becomes the request's status and code; no cost is known.
Caught(r, why) ==
  /\ status' = [status EXCEPT ![r] = "error"]
  /\ code'   = [code EXCEPT ![r] = why]
  /\ cost'   = [cost EXCEPT ![r] = 0]
  /\ Goto(r, IF why = "insufficient_balance" THEN "record" ELSE "price")

\* A streaming client has its answer before anything is charged.
Upstream(r, c) ==
  /\ step[r] = "upstream"
  /\ cost' = [cost EXCEPT ![r] = c]
  /\ answer' = [answer EXCEPT ![r] = IF r \in Streams THEN "answer" ELSE @]
  /\ Goto(r, "price")
  /\ UNCHANGED <<policy, balance, debit, source, status, code, amount, billing,
                 recorded, pending, history, changes, failures>>

\* The call fails, or breaks off while the client is reading.
UpstreamFails(r) ==
  /\ step[r] = "upstream"
  /\ Caught(r, "upstream")
  /\ \/ r \in Streams /\ answer' = [answer EXCEPT ![r] = "answer"]
     \/ UNCHANGED answer
  /\ UNCHANGED <<policy, balance, debit, source, amount, billing,
                 recorded, pending, history, changes, failures>>

-----------------------------------------------------------------------------
(* calculateAndDebitForInvocation, for the success and for the failure.    *)

\* The success's charge throws into the catch, the failure's is swallowed.
NotDebited(r, why) ==
  IF status[r] = "success" THEN Caught(r, why)
                           ELSE Goto(r, "record") /\ UNCHANGED <<status, code, cost>>

PriceAndCheck(r) ==
  LET minor == ToMinor(Price(policy, cost[r], source[r], status[r]))
  IN  /\ step[r] = "price"
      /\ amount' = [amount EXCEPT ![r] = minor]
      /\ IF minor = 0
           THEN Goto(r, "record") /\ UNCHANGED <<status, code, cost>>
           ELSE IF balance < minor
             THEN NotDebited(r, "insufficient_balance")
             ELSE Goto(r, "debit") /\ UNCHANGED <<status, code, cost>>
      /\ UNCHANGED <<policy, balance, debit, source, billing, results, changes, failures>>

\* debitUsage: one debit for a request, and none that the balance does not bear.
\* Its own refusal is a plain error, so the failure is charged in turn.
Debit(r) ==
  /\ step[r] = "debit"
  /\ IF debit[r] = 0 /\ balance < amount[r]
       THEN NotDebited(r, "proxy_error") /\ UNCHANGED <<balance, debit, billing>>
       ELSE /\ debit'   = [debit EXCEPT ![r] = IF @ = 0 THEN amount[r] ELSE @]
            /\ balance' = IF debit[r] = 0 THEN balance - amount[r] ELSE balance
            /\ billing' = [billing EXCEPT ![r] = [amount |-> amount[r], entry |-> TRUE]]
            /\ Goto(r, "record")
            /\ UNCHANGED <<status, code, cost>>
  /\ UNCHANGED <<policy, source, amount, results, changes, failures>>

\* The call to the database fails; what it was to do may be done.
DebitFails(r) ==
  /\ step[r] = "debit"
  /\ Fails
  /\ \/ UNCHANGED <<balance, debit>>
     \/ /\ debit[r] = 0 /\ balance >= amount[r]
        /\ debit'   = [debit EXCEPT ![r] = amount[r]]
        /\ balance' = balance - amount[r]
  /\ NotDebited(r, "proxy_error")
  /\ UNCHANGED <<policy, source, amount, billing, results, changes>>

-----------------------------------------------------------------------------
(* recordProxyCompletion, recordProxyFailureSafely                         *)

Row(st, b) == [status |-> st, amount |-> b.amount, entry |-> b.entry]

\* Mistake: the client has its answer whether or not the charge went through.
RecordAnswerAlways(r) ==
  /\ step[r] = "record"
  /\ recorded' = [recorded EXCEPT ![r] = @ \cup {status[r]}]
  /\ pending'  = [pending EXCEPT ![r] = @ \cup {Row(status[r], billing[r])}]
  /\ answer'   = [answer EXCEPT ![r] = "answer"]
  /\ Goto(r, "done")
  /\ UNCHANGED <<policy, balance, debit, source, status, code, cost, amount, billing,
                 history, changes, failures>>

\* Mistake: the history of a request leaves its bill out.
RecordWithoutBill(r) ==
  /\ step[r] = "record"
  /\ recorded' = [recorded EXCEPT ![r] = @ \cup {status[r]}]
  /\ pending'  = [pending EXCEPT ![r] = @ \cup {Row(status[r], NoBill)}]
  /\ answer'   = [answer EXCEPT ![r] = IF status[r] = "success" THEN "answer"
                                       ELSE IF @ = "none" THEN "error" ELSE @]
  /\ Goto(r, "done")
  /\ UNCHANGED <<policy, balance, debit, source, status, code, cost, amount, billing,
                 history, changes, failures>>

\* Mistake: only successes go into the history.
RecordSuccesses(r) ==
  /\ step[r] = "record"
  /\ recorded' = [recorded EXCEPT ![r] = @ \cup {status[r]}]
  /\ pending'  = [pending EXCEPT ![r] =
                    IF status[r] = "success" THEN @ \cup {Row("success", billing[r])} ELSE @]
  /\ answer'   = [answer EXCEPT ![r] = IF status[r] = "success" THEN "answer"
                                       ELSE IF @ = "none" THEN "error" ELSE @]
  /\ Goto(r, "done")
  /\ UNCHANGED <<policy, balance, debit, source, status, code, cost, amount, billing,
                 history, changes, failures>>

\* The AiRequest row is written, the history is persisted in the background, the
\* client is answered.  An upload's history is then persisted again, with no bill.
Record(r) ==
  /\ step[r] = "record"
  /\ recorded' = [recorded EXCEPT ![r] = @ \cup {status[r]}]
  /\ pending'  = [pending EXCEPT ![r] =
                    @ \cup {Row(status[r], billing[r])}
                      \cup IF r \in Uploads /\ status[r] = "success"
                             THEN {Row("success", NoBill)} ELSE {}]
  /\ answer'   = [answer EXCEPT ![r] = IF status[r] = "success" THEN "answer"
                                       ELSE IF @ = "none" THEN "error" ELSE @]
  /\ Goto(r, "done")
  /\ UNCHANGED <<policy, balance, debit, source, status, code, cost, amount, billing,
                 history, changes, failures>>

\* The AiRequest row of a success is not written, or its commit is not confirmed:
\* the request fails after all, with the debit posted, and is billed anew.
CompletionFails(r) ==
  /\ step[r] = "record" /\ status[r] = "success"
  /\ Fails
  /\ \/ UNCHANGED recorded
     \/ recorded' = [recorded EXCEPT ![r] = @ \cup {"success"}]
  /\ Caught(r, "proxy_error")
  /\ billing' = [billing EXCEPT ![r] = NoBill]
  /\ UNCHANGED <<policy, balance, debit, source, amount, answer, pending, history, changes>>

\* The row of a failure is not written: the error is logged, the history goes on.
FailureUnrecorded(r) ==
  /\ step[r] = "record" /\ status[r] = "error"
  /\ Fails
  /\ pending' = [pending EXCEPT ![r] = @ \cup {Row("error", billing[r])}]
  /\ answer'  = [answer EXCEPT ![r] = IF @ = "none" THEN "error" ELSE @]
  /\ Goto(r, "done")
  /\ UNCHANGED <<policy, balance, debit, source, status, code, cost, amount, billing,
                 recorded, history, changes>>

\* Persists are not ordered; the last one to commit is the event.
PersistHistory(r, row) ==
  /\ row \in pending[r]
  /\ pending' = [pending EXCEPT ![r] = @ \ {row}]
  /\ history' = [history EXCEPT ![r] = {row}]
  /\ UNCHANGED <<policy, balance, debit, serving, answer, recorded, changes, failures>>

PersistFails(r, row) ==
  /\ row \in pending[r]
  /\ Fails
  /\ pending' = [pending EXCEPT ![r] = @ \ {row}]
  /\ UNCHANGED <<policy, balance, debit, serving, answer, recorded, history, changes>>

\* The process dies, and with it the requests and persists it was serving.
Crash ==
  /\ Fails
  /\ step'    = [r \in Requests |-> IF step[r] = "idle" THEN "idle" ELSE "done"]
  /\ answer'  = [r \in Requests |-> IF step[r] \notin {"idle", "done"} /\ answer[r] = "none"
                                      THEN "error" ELSE answer[r]]
  /\ pending' = [r \in Requests |-> {}]
  /\ UNCHANGED <<policy, balance, debit, source, status, code, cost, amount, billing,
                 recorded, history, changes>>

-----------------------------------------------------------------------------

Serve(r) ==
  \/ \E c \in Costs : Upstream(r, c)
  \/ UpstreamFails(r) \/ PriceAndCheck(r) \/ Debit(r) \/ Record(r)

Next ==
  \/ ChangePolicy
  \/ Crash
  \/ \E r \in Requests :
        \/ \E src \in {"platform", "user"}, free \in BOOLEAN : Gate(r, src, free)
        \/ Serve(r)
        \/ DebitFails(r) \/ CompletionFails(r) \/ FailureUnrecorded(r)
        \/ \E row \in pending[r] : PersistHistory(r, row) \/ PersistFails(r, row)

\* A request that is being served goes on, and so does a persist.
Fairness ==
  \A r \in Requests :
     /\ WF_vars(Serve(r))
     /\ WF_vars(\E row \in pending[r] : PersistHistory(r, row))

Spec     == Init /\ [][Next]_vars
FairSpec == Spec /\ Fairness

-----------------------------------------------------------------------------
(* Properties                                                              *)

Bills == [amount : Nat, entry : BOOLEAN]
Rows  == [status : {"success", "error"}, amount : Nat, entry : BOOLEAN]

\* Every variable holds what ai-proxy.service.ts can put there.
TypeOK ==
  /\ policy \in Policies
  /\ balance \in Nat
  /\ debit \in [Requests -> Nat]
  /\ step \in [Requests -> {"idle", "blocked", "upstream", "price", "debit", "record", "done"}]
  /\ source \in [Requests -> {"platform", "user"}]
  /\ status \in [Requests -> {"success", "error"}]
  /\ code \in [Requests -> {"none", "upstream", "insufficient_balance", "proxy_error"}]
  /\ cost \in [Requests -> Costs \cup {0}]
  /\ amount \in [Requests -> Nat]
  /\ billing \in [Requests -> Bills]
  /\ answer \in [Requests -> {"none", "answer", "error"}]
  /\ recorded \in [Requests -> SUBSET {"success", "error"}]
  /\ pending \in [Requests -> SUBSET Rows]
  /\ history \in [Requests -> SUBSET Rows]
  /\ changes \in 0 .. MaxChanges
  /\ failures \in 0 .. MaxFailures

\* The policies a request may have been priced with.
InForce == IF changes = 0 THEN {policy} ELSE Policies

\* proxyForCurrentSession returns the answer of a request that does not stream only
\* when its price has been debited, whatever races for the wallet and whatever fails.
AnswerIsPaid ==
  \A r \in Requests \ Streams : answer[r] = "answer" => debit[r] = amount[r]

\* recordProxyFailureSafely charges a failed request nothing, or the minimum fee
\* where a policy in force charges failures: never what its success would cost.
ErrorIsChargedAsError ==
  failures = 0 =>
    \A r \in Requests :
      "error" \in recorded[r] /\ debit[r] > 0 =>
        \E p \in InForce :
          /\ p.enabled /\ p.failed = "minimum_fee"
          /\ debit[r] <= ToMinor(RoundTo(p.minimumFee, p.rounding))

\* calculateWithPolicy: no debit exceeds the cap of the policies in force, rounded
\* to their increment.
ChargeWithinCap ==
  \A r \in Requests :
    \E p \in InForce :
      debit[r] > 0 => \/ p.maxCharge = NoCap
                     \/ debit[r] <= ToMinor(RoundTo(p.maxCharge, p.rounding))

ShowsCharge(r) ==
  \A row \in history[r] : row.amount = debit[r] /\ (row.entry <=> debit[r] > 0)

\* persistContent: when no call fails, the history of a request that is not an upload
\* shows what the ledger took for it, a success or a failure.
HistoryShowsChargeWhenCalm ==
  failures = 0 => \A r \in Requests \ Uploads : ShowsCharge(r)

\* What the history service's tests expect of every event that is not being
\* persisted any more: it shows the charge.
HistoryShowsCharge ==
  failures = 0 => \A r \in Requests : pending[r] = {} => ShowsCharge(r)

Calm == [](failures = 0)

\* "history must cover errors" (ai-proxy.service.ts:2150): when no call fails, each
\* request that passes the gate is answered and reaches the history.
ServedIsInHistoryWhenCalm ==
  Calm => \A r \in Requests :
            step[r] = "upstream" ~> answer[r] # "none" /\ history[r] # {}

\* What is taken from a wallet is within what the policies in force allow, for a success
\* and for a failure, and never more than there is.
ChargesWithinPolicy == TypeOK /\ ChargeWithinCap /\ ErrorIsChargedAsError
=============================================================================
