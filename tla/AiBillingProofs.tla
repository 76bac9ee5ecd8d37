----------------------------- MODULE AiBillingProofs -----------------------------
(***************************************************************************)
(* What a request to the AI proxy costs, for any number of requests, any     *)
(* policies and any failures.                                              *)
(*                                                                         *)
(* The amount that a request is about to be debited was computed under a     *)
(* policy that may have been replaced since, of a request that may have       *)
(* failed since.  The invariant says of what policy and of what request it is *)
(* the price (Priced), that a request that has not failed is debited for the   *)
(* first time (Paid), and, as long as no call fails, what its bill shows        *)
(* (Billed).  One lemma per action keeps it for the request that moves; the    *)
(* others rest.                                                            *)
(***************************************************************************)
EXTENDS AiBilling, TLAPS

-----------------------------------------------------------------------------
(* Prices                                                                  *)

LEMMA TimesMonotone ==
  ASSUME NEW x \in Int, NEW y \in Int, NEW d \in Nat, x <= y
  PROVE  x * d <= y * d
  OBVIOUS

LEMMA DivMonotone ==
  ASSUME NEW a \in Nat, NEW b \in Nat, NEW d \in Nat \ {0}, a <= b
  PROVE  /\ a \div d \in Nat /\ b \div d \in Nat
         /\ a \div d <= b \div d
<1>1. /\ a \div d \in Int /\ a = d * (a \div d) + (a % d) /\ a % d \in 0 .. (d - 1)
      /\ b \div d \in Int /\ b = d * (b \div d) + (b % d) /\ b % d \in 0 .. (d - 1)
  OBVIOUS
<1>2. ASSUME NEW q \in Int, NEW p \in Int, NEW r \in 0 .. (d - 1), NEW s \in 0 .. (d - 1),
             d * p + r <= d * q + s
      PROVE  p <= q
  <2> SUFFICES ASSUME q + 1 <= p PROVE FALSE
    BY <1>2
  <2>1. (q + 1) * d <= p * d
    BY TimesMonotone
  <2> QED
    BY <2>1, <1>2
<1> QED
  BY <1>1, <1>2

LEMMA RoundToMonotone ==
  ASSUME NEW x \in Nat, NEW y \in Nat, NEW i \in Nat \ {0}, x <= y
  PROVE  /\ RoundTo(x, i) \in Nat /\ RoundTo(y, i) \in Nat
         /\ RoundTo(x, i) <= RoundTo(y, i)
<1> DEFINE a == 2 * x + i
           b == 2 * y + i
           d == 2 * i
<1>1. a \in Nat /\ b \in Nat /\ d \in Nat \ {0} /\ a <= b
  OBVIOUS
<1> HIDE DEF a, b, d
<1>2. a \div d \in Nat /\ b \div d \in Nat /\ a \div d <= b \div d
  BY <1>1, DivMonotone
<1>3. ASSUME NEW u \in Nat, NEW v \in Nat, u <= v
      PROVE  u * i \in Nat /\ v * i \in Nat /\ u * i <= v * i
  BY <1>3, TimesMonotone
<1>4. RoundTo(x, i) = (a \div d) * i /\ RoundTo(y, i) = (b \div d) * i
  BY DEF RoundTo, a, b, d
<1> QED
  BY <1>2, <1>3, <1>4

LEMMA RoundToZero ==
  ASSUME NEW i \in Nat \ {0}
  PROVE  RoundTo(0, i) = 0
<1>1. (2 * 0 + i) \div (2 * i) = 0
  OBVIOUS
<1> QED
  BY <1>1 DEF RoundTo

LEMMA ToMinorMonotone ==
  ASSUME NEW x \in Nat, NEW y \in Nat, x <= y
  PROVE  ToMinor(x) \in Nat /\ ToMinor(y) \in Nat /\ ToMinor(x) <= ToMinor(y)
<1>1. UnitsPerMinor \in Nat \ {0}
  BY InputAssumption
<1> QED
  BY <1>1, DivMonotone DEF ToMinor

LEMMA ToMinorZero == ToMinor(0) = 0
<1>1. UnitsPerMinor \in Nat \ {0}
  BY InputAssumption
<1>2. (0 + UnitsPerMinor - 1) \div UnitsPerMinor = 0
  BY <1>1
<1> QED
  BY <1>2 DEF ToMinor

LEMMA MaxOfTwo ==
  ASSUME NEW a \in Nat, NEW b \in Nat
  PROVE  Max({a, b}) \in {a, b} /\ Max({a, b}) >= a /\ Max({a, b}) >= b
<1>1. \E x \in {a, b} : \A y \in {a, b} : x >= y
  OBVIOUS
<1> QED
  BY <1>1 DEF Max

LEMMA MinOfTwo ==
  ASSUME NEW a \in Nat, NEW b \in Nat
  PROVE  Min({a, b}) \in {a, b} /\ Min({a, b}) <= a /\ Min({a, b}) <= b
<1>1. \E x \in {a, b} : \A y \in {a, b} : x =< y
  OBVIOUS
<1> QED
  BY <1>1 DEF Min

\* calculateWithPolicy before the cap.
LEMMA ChargedType ==
  ASSUME NEW p \in PolicyRecords, NEW c \in Nat, NEW src, NEW st
  PROVE  Charged(p, c, src, st) \in Nat
<1>1. /\ p.markup \in Nat /\ p.minimumFee \in Nat /\ c * p.markup \in Nat
  BY DEF PolicyRecords
<1>2. (c * p.markup) \div 100 \in Nat
  BY <1>1, DivMonotone
<1>3. PlatformFee(p, c) \in Nat
  BY <1>1, <1>2, MaxOfTwo DEF PlatformFee
<1> QED
  BY <1>1, <1>3 DEF Charged

LEMMA CappedType ==
  ASSUME NEW p \in PolicyRecords, NEW x \in Nat
  PROVE  /\ Capped(p, x) \in Nat /\ Capped(p, x) <= x
         /\ p.maxCharge # NoCap => p.maxCharge \in Nat /\ Capped(p, x) <= p.maxCharge
<1>1. p.maxCharge \in Nat \cup {NoCap}
  BY DEF PolicyRecords
<1> QED
  BY <1>1, MinOfTwo DEF Capped

\* The amounts that are debited, and the two bounds that the policy sets them.
LEMMA PriceBounds ==
  ASSUME NEW p \in PolicyRecords, NEW c \in Nat, NEW src, NEW st
  PROVE  /\ ToMinor(Price(p, c, src, st)) \in Nat
         /\ p.maxCharge # NoCap =>
              ToMinor(Price(p, c, src, st)) <= ToMinor(RoundTo(p.maxCharge, p.rounding))
         /\ st = "error" /\ c = 0 /\ ToMinor(Price(p, c, src, st)) > 0 =>
              /\ p.failed = "minimum_fee"
              /\ ToMinor(Price(p, c, src, st)) <= ToMinor(RoundTo(p.minimumFee, p.rounding))
<1> DEFINE charged == Charged(p, c, src, st)
           capped  == Capped(p, charged)
<1>0. /\ p.rounding \in Nat \ {0} /\ p.minimumFee \in Nat
      /\ p.failed \in {"never", "provider_cost_only", "minimum_fee"}
  BY DEF PolicyRecords
<1>1. charged \in Nat
  BY ChargedType
<1>2. /\ capped \in Nat /\ capped <= charged
      /\ p.maxCharge # NoCap => p.maxCharge \in Nat /\ capped <= p.maxCharge
  BY <1>1, CappedType
<1>3. st = "error" /\ c = 0 => /\ p.failed = "minimum_fee" => charged = p.minimumFee
                               /\ p.failed # "minimum_fee" => charged = 0
  BY <1>0 DEF Charged
<1>4. Price(p, c, src, st) = IF p.enabled THEN RoundTo(capped, p.rounding) ELSE 0
  BY DEF Price
<1> HIDE DEF charged, capped
<1>5. RoundTo(capped, p.rounding) \in Nat
  BY <1>0, <1>2, RoundToMonotone
<1>6. Price(p, c, src, st) \in Nat /\ Price(p, c, src, st) <= RoundTo(capped, p.rounding)
  BY <1>4, <1>5
<1>7. ASSUME NEW x \in Nat, capped <= x
      PROVE  ToMinor(Price(p, c, src, st)) <= ToMinor(RoundTo(x, p.rounding))
  <2>1. RoundTo(x, p.rounding) \in Nat /\ RoundTo(capped, p.rounding) <= RoundTo(x, p.rounding)
    BY <1>0, <1>2, <1>7, RoundToMonotone
  <2> QED
    BY <1>5, <1>6, <2>1, ToMinorMonotone
<1>8. ToMinor(Price(p, c, src, st)) \in Nat
  BY <1>6, ToMinorMonotone
<1>9. charged = 0 => ToMinor(Price(p, c, src, st)) = 0
  BY <1>0, <1>2, <1>4, RoundToZero, ToMinorZero
<1> QED
  BY <1>0, <1>2, <1>3, <1>7, <1>8, <1>9

-----------------------------------------------------------------------------
(* The invariant                                                           *)

Unbilled == {"idle", "blocked", "upstream", "price", "debit"}

\* A request that has not failed is debited once and for the amount it was priced at,
\* and one that does not stream is answered after that.
Paid(r) ==
  /\ step[r] \in {"idle", "upstream"} => status[r] = "success"
  /\ status[r] = "success" /\ step[r] \in Unbilled => debit[r] = 0
  /\ status[r] = "success" /\ step[r] = "record" => debit[r] = amount[r]
  /\ r \notin Streams /\ answer[r] = "answer" => step[r] = "done" /\ debit[r] = amount[r]

CapHolds(r) ==
  \E p \in InForce :
    debit[r] > 0 => \/ p.maxCharge = NoCap
                    \/ debit[r] <= ToMinor(RoundTo(p.maxCharge, p.rounding))

\* What is about to be debited is the price of what the request has become by now, under
\* a policy that was in force.
Priced(r) ==
  /\ step[r] = "debit" =>
       /\ amount[r] > 0
       /\ \E p \in InForce :
            p.enabled /\ amount[r] = ToMinor(Price(p, cost[r], source[r], status[r]))
  /\ CapHolds(r)
  /\ status[r] = "error" => cost[r] = 0
  /\ "error" \in recorded[r] => status[r] = "error"

FeeHolds(r) ==
  debit[r] > 0 =>
    \E p \in InForce : /\ p.enabled /\ p.failed = "minimum_fee"
                       /\ debit[r] <= ToMinor(RoundTo(p.minimumFee, p.rounding))

\* Without a failed call the bill is what has been debited, and so is what of it is or
\* will be in the history.
Billed(r) ==
  failures = 0 =>
    /\ step[r] \in Unbilled => debit[r] = 0
    /\ billing[r].amount = debit[r] /\ (billing[r].entry <=> debit[r] > 0)
    /\ status[r] = "error" => FeeHolds(r)
    /\ pending[r] \cup history[r] # {} => step[r] = "done"
    /\ r \notin Uploads =>
         \A row \in pending[r] \cup history[r] :
           row.amount = debit[r] /\ (row.entry <=> debit[r] > 0)

Each == \A r \in Requests : Paid(r) /\ Priced(r) /\ Billed(r)
Inv  == TypeOK /\ Each

-----------------------------------------------------------------------------
(* Types                                                                   *)

\* An administrator's change: more policies may have been in force.
LEMMA PolicyType ==
  ASSUME TypeOK
  PROVE  /\ InForce \subseteq PolicyRecords /\ policy \in InForce /\ InForce \subseteq Policies
         /\ \A p \in InForce : p.rounding \in Nat \ {0}
  BY InputAssumption DEF TypeOK, InForce, PolicyRecords

LEMMA AmountType ==
  ASSUME TypeOK, NEW r \in Requests
  PROVE  /\ policy \in PolicyRecords /\ cost[r] \in Nat
         /\ ToMinor(Price(policy, cost[r], source[r], status[r])) \in Nat
<1>1. policy \in PolicyRecords
  BY PolicyType
<1>2. cost[r] \in Costs \cup {0} /\ Costs \subseteq Nat
  BY InputAssumption DEF TypeOK
<1>3. cost[r] \in Nat
  <2>1. cost[r] \in Costs \/ cost[r] = 0
    BY <1>2
  <2>2. \A c \in Costs : c \in Nat
    BY <1>2
  <2> QED
    BY <2>1, <2>2
<1>4. ToMinor(Price(policy, cost[r], source[r], status[r])) \in Nat
  BY <1>1, <1>3, PriceBounds
<1> QED
  BY <1>1, <1>3, <1>4

\* A debit that finds money enough, or has been posted before.
LEMMA DebitPosts ==
  ASSUME NEW r \in Requests, Debit(r), ~(debit[r] = 0 /\ balance < amount[r])
  PROVE  /\ debit'   = [debit EXCEPT ![r] = IF debit[r] = 0 THEN amount[r] ELSE debit[r]]
         /\ balance' = IF debit[r] = 0 THEN balance - amount[r] ELSE balance
         /\ billing' = [billing EXCEPT ![r] = [amount |-> amount[r], entry |-> TRUE]]
         /\ step'    = [step EXCEPT ![r] = "record"]
         /\ UNCHANGED <<policy, source, status, code, cost, amount, answer, recorded, pending,
                        history, changes, failures>>
  BY DEF Debit, Goto, results

LEMMA TypeSteps ==
  ASSUME TypeOK, [Next]_vars
  PROVE  TypeOK'
<1> USE DEF TypeOK, Goto, Caught, Fails, serving, results
<1>1. CASE UNCHANGED vars
  BY <1>1 DEF vars
<1>2. CASE ChangePolicy
  BY <1>2, InputAssumption DEF ChangePolicy
<1>3. CASE Crash
  BY <1>3, InputAssumption DEF Crash
<1>4. ASSUME NEW r \in Requests, NEW src \in {"platform", "user"}, NEW free \in BOOLEAN,
             Gate(r, src, free)
      PROVE  TypeOK'
  BY <1>4 DEF Gate
<1>5. ASSUME NEW r \in Requests, NEW c \in Costs, Upstream(r, c) PROVE TypeOK'
  BY <1>5 DEF Upstream
<1>6. ASSUME NEW r \in Requests, UpstreamFails(r) PROVE TypeOK'
  BY <1>6 DEF UpstreamFails
<1>7. ASSUME NEW r \in Requests, PriceAndCheck(r) PROVE TypeOK'
  BY <1>7, AmountType DEF PriceAndCheck, NotDebited
<1>8. ASSUME NEW r \in Requests, Debit(r) PROVE TypeOK'
  <2>1. debit[r] = 0 /\ ~(balance < amount[r]) => balance - amount[r] \in Nat
    OBVIOUS
  <2>2. [amount |-> amount[r], entry |-> TRUE] \in Bills
    BY DEF Bills
  <2>3. CASE debit[r] = 0 /\ balance < amount[r]
    BY <1>8, <2>3 DEF Debit, NotDebited
  <2>4. CASE ~(debit[r] = 0 /\ balance < amount[r])
    <3>0. Debit(r)
      BY <1>8
    <3> HIDE DEF TypeOK
    <3>1. debit' \in [Requests -> Nat] /\ balance' \in Nat
      <4>1. debit \in [Requests -> Nat] /\ amount[r] \in Nat /\ balance \in Nat
        BY DEF TypeOK
      <4> QED
        BY <2>1, <2>4, <3>0, <4>1, DebitPosts
    <3>2. billing' \in [Requests -> Bills] /\ step' = [step EXCEPT ![r] = "record"]
      <4>1. billing \in [Requests -> Bills]
        BY DEF TypeOK
      <4> QED
        BY <2>2, <2>4, <3>0, <4>1, DebitPosts
    <3>3. UNCHANGED <<policy, source, status, code, cost, amount, answer, recorded, pending,
                      history, changes, failures>>
      BY <2>4, <3>0, DebitPosts
    <3> USE DEF TypeOK
    <3> QED
      BY <3>1, <3>2, <3>3
  <2> QED
    BY <2>3, <2>4
<1>9. ASSUME NEW r \in Requests, DebitFails(r) PROVE TypeOK'
  BY <1>9, InputAssumption DEF DebitFails, NotDebited
<1>10. ASSUME NEW r \in Requests, Record(r) \/ FailureUnrecorded(r) PROVE TypeOK'
  <2>1. Row(status[r], billing[r]) \in Rows /\ Row("error", billing[r]) \in Rows
        /\ Row("success", NoBill) \in Rows
    BY DEF Row, Rows, Bills, NoBill
  <2> QED
    BY <1>10, <2>1, InputAssumption DEF Record, FailureUnrecorded
<1>11. ASSUME NEW r \in Requests, CompletionFails(r) PROVE TypeOK'
  <2>1. recorded' \in [Requests -> SUBSET {"success", "error"}]
    BY <1>11 DEF CompletionFails
  <2>2. billing' \in [Requests -> Bills]
    BY <1>11 DEF CompletionFails, NoBill, Bills
  <2>3. /\ status' \in [Requests -> {"success", "error"}]
        /\ code' \in [Requests -> {"none", "upstream", "insufficient_balance", "proxy_error"}]
        /\ cost' \in [Requests -> Costs \cup {0}]
    BY <1>11 DEF CompletionFails
  <2>4. step' = [step EXCEPT ![r] = "price"] /\ failures' \in 0 .. MaxFailures
    BY <1>11, InputAssumption DEF CompletionFails
  <2>5. UNCHANGED <<policy, balance, debit, source, amount, answer, pending, history, changes>>
    BY <1>11 DEF CompletionFails
  <2> QED
    BY <2>1, <2>2, <2>3, <2>4, <2>5
<1>12. ASSUME NEW r \in Requests, NEW row \in pending[r],
              PersistHistory(r, row) \/ PersistFails(r, row)
       PROVE  TypeOK'
  BY <1>12, InputAssumption DEF PersistHistory, PersistFails
<1> QED
  BY <1>1, <1>2, <1>3, <1>4, <1>5, <1>6, <1>7, <1>8, <1>9, <1>10, <1>11, <1>12
     DEF Next, Serve

-----------------------------------------------------------------------------
(* Steps                                                                   *)

\* A request that nothing happens to, except that rows of its history are persisted or lost.
Rests(q) ==
  /\ debit'[q] = debit[q] /\ step'[q] = step[q] /\ source'[q] = source[q]
  /\ status'[q] = status[q] /\ cost'[q] = cost[q] /\ amount'[q] = amount[q]
  /\ billing'[q] = billing[q] /\ answer'[q] = answer[q] /\ recorded'[q] = recorded[q]
  /\ pending'[q] \cup history'[q] \subseteq pending[q] \cup history[q]

\* Policies that were in force stay among those that were; a failed call stays one.
Onward == /\ InForce \subseteq InForce'
          /\ failures' = 0 => failures = 0

LEMMA StepsGoOn ==
  ASSUME TypeOK, [Next]_vars
  PROVE  Onward
<1> USE DEF Onward, InForce, TypeOK, Goto, Caught, Fails, serving, results
<1>1. CASE UNCHANGED vars
  BY <1>1 DEF vars
<1>2. CASE ChangePolicy
  BY <1>2 DEF ChangePolicy
<1>3. CASE Crash
  BY <1>3 DEF Crash
<1>4. ASSUME NEW r \in Requests, NEW src \in {"platform", "user"}, NEW free \in BOOLEAN,
             Gate(r, src, free)
      PROVE  Onward
  BY <1>4 DEF Gate
<1>5. ASSUME NEW r \in Requests, NEW c \in Costs, Upstream(r, c) PROVE Onward
  BY <1>5 DEF Upstream
<1>6. ASSUME NEW r \in Requests,
             UpstreamFails(r) \/ PriceAndCheck(r) \/ Debit(r) \/ Record(r)
      PROVE  Onward
  BY <1>6 DEF UpstreamFails, PriceAndCheck, Debit, Record
<1>7. ASSUME NEW r \in Requests, DebitFails(r) \/ CompletionFails(r) \/ FailureUnrecorded(r)
      PROVE  Onward
  BY <1>7 DEF DebitFails, CompletionFails, FailureUnrecorded
<1>8. ASSUME NEW r \in Requests, NEW row \in pending[r],
             PersistHistory(r, row) \/ PersistFails(r, row)
      PROVE  Onward
  BY <1>8 DEF PersistHistory, PersistFails
<1> QED
  BY <1>1, <1>2, <1>3, <1>4, <1>5, <1>6, <1>7, <1>8 DEF Next, Serve

LEMMA RestKeeps ==
  ASSUME Each, Onward, NEW q \in Requests, Rests(q)
  PROVE  (Paid(q) /\ Priced(q) /\ Billed(q))'
<1>1. Paid(q)'
  BY DEF Each, Paid, Rests
<1>2. CapHolds(q)'
  BY DEF Each, Priced, CapHolds, Rests, Onward
<1>3. Priced(q)'
  BY <1>2 DEF Each, Priced, Rests, Onward
<1>4. Billed(q)'
  <2>1. ASSUME FeeHolds(q) PROVE FeeHolds(q)'
    BY <2>1 DEF FeeHolds, Rests, Onward
  <2> QED
    BY <2>1 DEF Each, Billed, Rests, Onward
<1> QED
  BY <1>1, <1>3, <1>4

\* What is left to show of a step of one request.
LEMMA OneMoves ==
  ASSUME Each, Onward, NEW r \in Requests,
         \A q \in Requests \ {r} : Rests(q),
         (Paid(r) /\ Priced(r) /\ Billed(r))'
  PROVE  Each'
  BY RestKeeps DEF Each

LEMMA ChargeStays ==
  ASSUME Onward, NEW r \in Requests, debit'[r] = debit[r]
  PROVE  (CapHolds(r) => CapHolds(r)') /\ (FeeHolds(r) => FeeHolds(r)')
  BY DEF CapHolds, FeeHolds, Onward

\* A step that debits nothing, takes the request anywhere but to a debit and leaves its
\* rows, its answer and its history as they are.
LEMMA UndebitedMove ==
  ASSUME TypeOK, Each, Onward, NEW r \in Requests, NEW s \in {"upstream", "price", "record"},
         \A q \in Requests \ {r} : Rests(q),
         step[r] \in Unbilled, step'[r] = s,
         UNCHANGED <<debit, billing, recorded, pending, history>>,
         \/ status'[r] = status[r]
         \/ status'[r] = "error" /\ cost'[r] = 0,
         status'[r] = "error" => cost'[r] = 0,
         s = "upstream" => status'[r] = "success",
         s = "record" /\ status'[r] = "success" => amount'[r] = 0,
         r \notin Streams => answer'[r] = answer[r]
  PROVE  Each'
<1> USE DEF Each
<1>1. Paid(r)'
  BY DEF Paid, Unbilled, TypeOK
<1>2. Priced(r)'
  BY ChargeStays DEF Priced, TypeOK
<1>3. Billed(r)'
  <2> SUFFICES ASSUME failures' = 0 PROVE Billed(r)'
    BY DEF Billed
  <2>1. failures = 0
    BY DEF Onward
  <2>2. debit[r] = 0 /\ debit'[r] = 0 /\ pending[r] \cup history[r] = {}
    BY <2>1 DEF Billed, Unbilled
  <2>3. FeeHolds(r)'
    BY <2>2 DEF FeeHolds
  <2> QED
    BY <2>1, <2>2, <2>3 DEF Billed
<1> QED
  BY <1>1, <1>2, <1>3, OneMoves

LEMMA GateKeeps ==
  ASSUME TypeOK, Each, Onward, NEW r \in Requests, NEW src \in {"platform", "user"},
         NEW free \in BOOLEAN, Gate(r, src, free)
  PROVE  Each'
<1> USE DEF Gate, Goto, TypeOK
<1>1. \A q \in Requests \ {r} : Rests(q)
  BY DEF Rests
<1>2. CASE Blocked(src, free)
  <2>1. Paid(r)'
    BY <1>2 DEF Each, Paid, Unbilled
  <2>2. Priced(r)'
    BY <1>2, ChargeStays DEF Each, Priced
  <2>3. Billed(r)'
    BY <1>2, ChargeStays DEF Each, Billed, Unbilled, Onward
  <2> QED
    BY <1>1, <2>1, <2>2, <2>3, OneMoves
<1>3. CASE ~Blocked(src, free)
  BY <1>1, <1>3, UndebitedMove DEF Each, Paid, Priced, Unbilled
<1> QED
  BY <1>2, <1>3

LEMMA UpstreamKeeps ==
  ASSUME TypeOK, Each, Onward, NEW r \in Requests,
         (\E c \in Costs : Upstream(r, c)) \/ UpstreamFails(r)
  PROVE  Each'
<1> USE DEF Goto, TypeOK, Caught
<1>1. \A q \in Requests \ {r} : Rests(q)
  BY DEF Rests, Upstream, UpstreamFails
<1>2. CASE UpstreamFails(r)
  BY <1>1, <1>2, UndebitedMove DEF UpstreamFails, Unbilled
<1>3. ASSUME NEW c \in Costs, Upstream(r, c) PROVE Each'
  BY <1>1, <1>3, UndebitedMove DEF Upstream, Unbilled, Each, Paid
<1> QED
  BY <1>2, <1>3

LEMMA PriceAndCheckKeeps ==
  ASSUME TypeOK, Each, Onward, NEW r \in Requests, PriceAndCheck(r)
  PROVE  Each'
<1> DEFINE minor == ToMinor(Price(policy, cost[r], source[r], status[r]))
<1>1. \A q \in Requests \ {r} : Rests(q)
  BY DEF PriceAndCheck, NotDebited, Goto, Caught, results, TypeOK, Rests
<1>2. /\ step[r] = "price" /\ minor \in Nat
      /\ amount' = [amount EXCEPT ![r] = minor]
      /\ UNCHANGED <<debit, source, billing, answer, recorded, pending, history, policy, changes>>
  BY AmountType DEF PriceAndCheck, results
<1>3. CASE minor = 0
  <2>1. step'[r] = "record" /\ UNCHANGED <<status, cost>>
    BY <1>3 DEF PriceAndCheck, Goto, TypeOK
  <2> QED
    BY <1>1, <1>2, <1>3, <2>1, UndebitedMove DEF TypeOK, Unbilled, Each, Priced
<1>4. CASE minor # 0 /\ balance < minor
  <2>1. /\ step'[r] = "record" /\ status'[r] = "error" /\ cost'[r] = 0
    BY <1>2, <1>4 DEF PriceAndCheck, NotDebited, Caught, Goto, TypeOK, Each, Priced
  <2> QED
    BY <1>1, <1>2, <2>1, UndebitedMove DEF Unbilled
<1>5. CASE minor # 0 /\ ~(balance < minor)
  <2>1. step'[r] = "debit" /\ UNCHANGED <<status, cost>>
    BY <1>5 DEF PriceAndCheck, Goto, TypeOK
  <2>2. Paid(r)'
    BY <1>2, <2>1 DEF Each, Paid, Unbilled
  <2>3. policy.enabled
    BY <1>5, ToMinorZero DEF Price
  <2>4. amount'[r] > 0 /\ amount'[r] = minor
    BY <1>2, <1>5 DEF TypeOK
  <2>5. policy \in InForce' /\ minor' = minor
    BY <1>2, <2>1 DEF InForce, TypeOK
  <2>6. Priced(r)'
    BY <1>2, <2>1, <2>3, <2>4, <2>5, ChargeStays DEF Each, Priced
  <2>7. Billed(r)'
    BY <1>2, <2>1, ChargeStays DEF Each, Billed, Unbilled, Onward
  <2> QED
    BY <1>1, <2>2, <2>6, <2>7, OneMoves
<1> QED
  BY <1>3, <1>4, <1>5

\* What is debited is within the bounds of a policy that was in force.
LEMMA DebitWithinPolicy ==
  ASSUME TypeOK, Each, Onward, NEW r \in Requests, step[r] = "debit", debit'[r] = amount[r]
  PROVE  CapHolds(r)' /\ (status[r] = "error" => FeeHolds(r)')
<1>1. /\ \A p \in InForce : p \in InForce' /\ p \in PolicyRecords
      /\ cost[r] \in Nat
  BY PolicyType, AmountType DEF Onward
<1>2. PICK p \in InForce :
         p.enabled /\ amount[r] = ToMinor(Price(p, cost[r], source[r], status[r]))
  BY DEF Each, Priced
<1>3. CapHolds(r)'
  BY <1>1, <1>2, PriceBounds DEF CapHolds
<1>4. status[r] = "error" => FeeHolds(r)'
  BY <1>1, <1>2, PriceBounds DEF FeeHolds, Each, Priced
<1> QED
  BY <1>3, <1>4

LEMMA DebitKeeps ==
  ASSUME TypeOK, Each, Onward, NEW r \in Requests, Debit(r)
  PROVE  Each'
<1>1. \A q \in Requests \ {r} : Rests(q)
  BY DEF Debit, NotDebited, Goto, Caught, results, TypeOK, Rests
<1>2. /\ step[r] = "debit" /\ amount[r] > 0 /\ amount[r] \in Nat
      /\ UNCHANGED <<amount, answer, recorded, pending, history>>
  BY DEF Debit, results, Each, Priced, TypeOK
<1>3. CASE debit[r] = 0 /\ balance < amount[r]
  <2>1. CASE status[r] = "success"
    <3>1. /\ step'[r] = "price" /\ status'[r] = "error" /\ cost'[r] = 0
          /\ UNCHANGED <<debit, billing>>
      BY <1>3, <2>1 DEF Debit, NotDebited, Caught, Goto, TypeOK
    <3> QED
      BY <1>1, <1>2, <3>1, UndebitedMove DEF Unbilled
  <2>2. CASE status[r] # "success"
    <3>1. /\ step'[r] = "record" /\ UNCHANGED <<status, cost, debit, billing>>
          /\ status[r] = "error"
      BY <1>3, <2>2 DEF Debit, NotDebited, Goto, TypeOK
    <3> QED
      BY <1>1, <1>2, <3>1, UndebitedMove DEF Unbilled, Each, Priced
  <2> QED
    BY <2>1, <2>2
<1>4. CASE ~(debit[r] = 0 /\ balance < amount[r])
  <2>1. /\ step'[r] = "record" /\ UNCHANGED <<status, cost>>
        /\ billing'[r] = [amount |-> amount[r], entry |-> TRUE]
        /\ debit'[r] = IF debit[r] = 0 THEN amount[r] ELSE debit[r]
    <3>1. DOMAIN step = Requests /\ DOMAIN billing = Requests /\ DOMAIN debit = Requests
      BY DEF TypeOK
    <3>2. step'[r] = "record" /\ UNCHANGED <<status, cost>>
      BY <1>4, <3>1, DebitPosts
    <3>3. billing'[r] = [amount |-> amount[r], entry |-> TRUE]
      BY <1>4, <3>1, DebitPosts
    <3>4. debit'[r] = IF debit[r] = 0 THEN amount[r] ELSE debit[r]
      BY <1>4, <3>1, DebitPosts
    <3> QED
      BY <3>2, <3>3, <3>4
  <2>2. Paid(r)'
    BY <1>2, <2>1 DEF Each, Paid, Unbilled
  <2>3. CapHolds(r)'
    BY <1>2, <2>1, DebitWithinPolicy, ChargeStays DEF Each, Priced
  <2>4. Priced(r)'
    BY <1>2, <2>1, <2>3 DEF Each, Priced
  <2>5. ASSUME failures' = 0 PROVE Billed(r)'
    <3>1. debit[r] = 0 /\ pending[r] \cup history[r] = {}
      BY <1>2, <2>5 DEF Each, Billed, Onward, Unbilled
    <3>2. debit'[r] = amount[r]
      BY <2>1, <3>1
    <3>3. status[r] = "error" => FeeHolds(r)'
      BY <1>2, <3>2, DebitWithinPolicy
    <3>4. billing'[r].amount = debit'[r] /\ (billing'[r].entry <=> debit'[r] > 0)
      <4>1. billing'[r].amount = amount[r] /\ billing'[r].entry = TRUE
        BY <2>1
      <4>2. debit'[r] > 0
        BY <1>2, <3>2
      <4> QED
        BY <3>2, <4>1, <4>2
    <3>5. pending'[r] \cup history'[r] = {}
      BY <1>2, <3>1
    <3> QED
      BY <2>1, <3>3, <3>4, <3>5 DEF Billed, Unbilled
  <2>6. Billed(r)'
    BY <2>5 DEF Billed
  <2> QED
    BY <1>1, <2>2, <2>4, <2>6, OneMoves
<1> QED
  BY <1>3, <1>4

LEMMA DebitFailsKeeps ==
  ASSUME TypeOK, Each, Onward, NEW r \in Requests, DebitFails(r)
  PROVE  Each'
<1>1. \A q \in Requests \ {r} : Rests(q)
  BY DEF DebitFails, NotDebited, Goto, Caught, Fails, results, TypeOK, Rests
<1>2. /\ step[r] = "debit" /\ failures' # 0
      /\ UNCHANGED <<amount, billing, answer, recorded, pending, history>>
  BY DEF DebitFails, Fails, results, TypeOK
<1>3. /\ status'[r] = "error" /\ cost'[r] = 0
      /\ step'[r] \in {"price", "record"}
  BY <1>2 DEF DebitFails, NotDebited, Caught, Goto, TypeOK, Each, Priced
<1>4. debit'[r] = debit[r] \/ debit'[r] = amount[r]
  BY DEF DebitFails, TypeOK
<1>5. Paid(r)'
  BY <1>2, <1>3 DEF Each, Paid
<1>6. CapHolds(r)'
  BY <1>2, <1>4, DebitWithinPolicy, ChargeStays DEF Each, Priced
<1>7. Priced(r)' /\ Billed(r)'
  BY <1>2, <1>3, <1>6 DEF Priced, Billed
<1> QED
  BY <1>1, <1>5, <1>7, OneMoves

LEMMA RecordKeeps ==
  ASSUME TypeOK, Each, Onward, NEW r \in Requests, Record(r)
  PROVE  Each'
<1>1. \A q \in Requests \ {r} : Rests(q)
  BY DEF Record, Goto, TypeOK, Rests
<1>2. /\ step[r] = "record" /\ step'[r] = "done"
      /\ UNCHANGED <<debit, status, cost, amount, source, billing, history, failures>>
      /\ recorded'[r] = recorded[r] \cup {status[r]}
  BY DEF Record, Goto, TypeOK
<1>3. Paid(r)'
  BY <1>2 DEF Record, TypeOK, Each, Paid, Unbilled
<1>4. Priced(r)'
  BY <1>2, ChargeStays DEF Each, Priced, TypeOK
<1>5. ASSUME failures' = 0 PROVE Billed(r)'
  <2>1. pending[r] \cup history[r] = {}
    BY <1>2, <1>5 DEF Each, Billed
  <2>2. r \notin Uploads => pending'[r] \cup history'[r] = {Row(status[r], billing[r])}
    BY <1>2, <2>1 DEF Record, TypeOK
  <2>3. /\ billing[r].amount = debit[r] /\ (billing[r].entry <=> debit[r] > 0)
        /\ status[r] = "error" => FeeHolds(r)'
    BY <1>2, <1>5, ChargeStays DEF Each, Billed
  <2> QED
    BY <1>2, <2>2, <2>3 DEF Billed, Unbilled, Row
<1> QED
  BY <1>1, <1>3, <1>4, <1>5, OneMoves DEF Billed

LEMMA FailuresKeep ==
  ASSUME TypeOK, Each, Onward, NEW r \in Requests, CompletionFails(r) \/ FailureUnrecorded(r)
  PROVE  Each'
<1> USE DEF Goto, Caught, Fails, TypeOK
<1>1. \A q \in Requests \ {r} : Rests(q)
  BY DEF CompletionFails, FailureUnrecorded, Rests
<1>2. failures' # 0 /\ UNCHANGED <<debit, amount>> /\ step[r] = "record"
  BY DEF CompletionFails, FailureUnrecorded
<1>3. CASE CompletionFails(r)
  <2>1. Paid(r)'
    BY <1>2, <1>3 DEF CompletionFails, Each, Paid
  <2>2. Priced(r)'
    BY <1>2, <1>3, ChargeStays DEF CompletionFails, Each, Priced
  <2> QED
    BY <1>1, <1>2, <2>1, <2>2, OneMoves DEF Billed
<1>4. CASE FailureUnrecorded(r)
  <2>1. Paid(r)'
    BY <1>2, <1>4 DEF FailureUnrecorded, Each, Paid
  <2>2. Priced(r)'
    BY <1>2, <1>4, ChargeStays DEF FailureUnrecorded, Each, Priced
  <2> QED
    BY <1>1, <1>2, <2>1, <2>2, OneMoves DEF Billed
<1> QED
  BY <1>3, <1>4

LEMMA CrashKeeps ==
  ASSUME TypeOK, Each, Onward, Crash
  PROVE  Each'
<1> SUFFICES ASSUME NEW r \in Requests PROVE (Paid(r) /\ Priced(r) /\ Billed(r))'
  BY DEF Each
<1>1. Paid(r)'
  BY DEF Crash, TypeOK, Each, Paid, Unbilled
<1>2. Priced(r)'
  BY ChargeStays DEF Crash, Each, Priced
<1>3. Billed(r)'
  BY DEF Crash, Fails, Billed, TypeOK
<1> QED
  BY <1>1, <1>2, <1>3

-----------------------------------------------------------------------------
(* Theorems                                                                *)

LEMMA InitInv == Init => Inv
<1> SUFFICES ASSUME Init PROVE Inv
  OBVIOUS
<1>1. TypeOK
  BY InputAssumption DEF Init, TypeOK, NoBill, Bills
<1>2. policy \in InForce
  BY DEF InForce, Init
<1>3. ASSUME NEW r \in Requests PROVE Paid(r) /\ Priced(r) /\ Billed(r)
  <2>1. /\ debit[r] = 0 /\ step[r] = "idle" /\ status[r] = "success" /\ answer[r] = "none"
        /\ cost[r] = 0 /\ recorded[r] = {} /\ pending[r] \cup history[r] = {}
        /\ billing[r].amount = 0 /\ billing[r].entry = FALSE
    BY DEF Init, NoBill
  <2>2. (billing[r].entry <=> debit[r] > 0)
    <3>1. ~(debit[r] > 0)
      BY <2>1
    <3> QED
      BY <2>1, <3>1
  <2>3. Paid(r)
    BY <2>1 DEF Paid
  <2>4. Priced(r)
    BY <1>2, <2>1 DEF Priced, CapHolds
  <2> QED
    BY <2>1, <2>2, <2>3, <2>4 DEF Billed, FeeHolds
<1> QED
  BY <1>1, <1>3 DEF Inv, Each

LEMMA NextInv == Inv /\ [Next]_vars => Inv'
<1> SUFFICES ASSUME Inv, [Next]_vars PROVE Inv'
  OBVIOUS
<1>0. TypeOK /\ Each /\ Onward /\ TypeOK'
  BY TypeSteps, StepsGoOn DEF Inv
<1>1. CASE UNCHANGED vars
  BY <1>0, <1>1, RestKeeps DEF vars, Rests, Each, Inv
<1>2. CASE ChangePolicy
  BY <1>0, <1>2, RestKeeps DEF ChangePolicy, serving, results, Rests, Each, Inv
<1>3. CASE Crash
  BY <1>0, <1>3, CrashKeeps DEF Inv
<1>4. ASSUME NEW r \in Requests, NEW src \in {"platform", "user"}, NEW free \in BOOLEAN,
             Gate(r, src, free)
      PROVE  Inv'
  BY <1>0, <1>4, GateKeeps DEF Inv
<1>5. ASSUME NEW r \in Requests, Serve(r) PROVE Inv'
  BY <1>0, <1>5, UpstreamKeeps, PriceAndCheckKeeps, DebitKeeps, RecordKeeps DEF Inv, Serve
<1>6. ASSUME NEW r \in Requests, DebitFails(r) \/ CompletionFails(r) \/ FailureUnrecorded(r)
      PROVE  Inv'
  BY <1>0, <1>6, DebitFailsKeeps, FailuresKeep DEF Inv
<1>7. ASSUME NEW r \in Requests, NEW row \in pending[r],
             PersistHistory(r, row) \/ PersistFails(r, row)
      PROVE  Inv'
  <2>1. \A q \in Requests : Rests(q)
    BY <1>0, <1>7 DEF PersistHistory, PersistFails, serving, Rests, TypeOK
  <2> QED
    BY <1>0, <2>1, RestKeeps DEF Each, Inv
<1> QED
  BY <1>1, <1>2, <1>3, <1>4, <1>5, <1>6, <1>7 DEF Next

LEMMA Correct == Spec => []Inv
<1> QED
  BY InitInv, NextInv, PTL DEF Spec

\* The client of a request that does not stream has an answer only if its price has been
\* debited, once and as priced, whatever else is served from the wallet and whatever fails.
THEOREM AnswerIsPaidCorrect == Spec => []AnswerIsPaid
<1>1. Inv => AnswerIsPaid
  BY DEF Inv, Each, Paid, AnswerIsPaid
<1> QED
  BY <1>1, Correct, PTL

\* No request costs more than a policy in force allows, none that fails is charged like a
\* success, and the wallet is not overdrawn, under any policies.
THEOREM ChargesWithinPolicyCorrect == Spec => []ChargesWithinPolicy
<1>1. Inv => ChargesWithinPolicy
  <2> SUFFICES ASSUME Inv PROVE ChargesWithinPolicy
    OBVIOUS
  <2>1. ChargeWithinCap
    BY DEF Inv, Each, Priced, CapHolds, ChargeWithinCap
  <2>2. ErrorIsChargedAsError
    BY DEF Inv, Each, Priced, Billed, FeeHolds, ErrorIsChargedAsError
  <2> QED
    BY <2>1, <2>2 DEF Inv, ChargesWithinPolicy
<1> QED
  BY <1>1, Correct, PTL

\* As long as no call fails, what the history shows of a request that is no upload is what
\* the ledger has taken for it.
THEOREM HistoryShowsChargeCorrect == Spec => []HistoryShowsChargeWhenCalm
<1>1. Inv => HistoryShowsChargeWhenCalm
  BY DEF Inv, Each, Billed, HistoryShowsChargeWhenCalm, ShowsCharge
<1> QED
  BY <1>1, Correct, PTL
==================================================================================
