------------------------------- MODULE Ledger -------------------------------
(***************************************************************************)
(* What the wallet repository promises its callers: the balances, the      *)
(* top-up statuses and the ledger change by whole operations only, each    *)
(* one checked against the very balance it changes.  WalletLedger, whose   *)
(* operations take several statements, implements this module.             *)
(***************************************************************************)
EXTENDS Integers, Sequences

CONSTANTS Users, TopUps, Debits, BatchKeys, Adjustments,
          OwnerOf, AmountOf, DebitOf,
          Guarded   \* are debits checked against the balance they change?

VARIABLES wallets, balance, topUp, ledger, batches
vars == <<wallets, balance, topUp, ledger, batches>>

Init ==
  /\ wallets = {OwnerOf[k] : k \in TopUps}
  /\ balance = [u \in Users |-> 0]
  /\ topUp   = [k \in TopUps |-> "pending"]
  /\ ledger  = [u \in Users |-> << >>]
  /\ batches = {}

\* Every wallet of S moves by delta and says so in its ledger.
Post(S, type, ref, delta) ==
  /\ balance' = [u \in Users |-> IF u \in S THEN balance[u] + delta ELSE balance[u]]
  /\ ledger'  = [u \in Users |->
                   IF u \in S
                     THEN Append(ledger[u], [type |-> type, ref |-> ref, delta |-> delta,
                                             after |-> balance[u] + delta])
                     ELSE ledger[u]]

Holds(u, type, ref) ==
  \E i \in 1 .. Len(ledger[u]) : ledger[u][i].type = type /\ ledger[u][i].ref = ref

CreateWallet(u) ==
  /\ wallets' = wallets \cup {u}
  /\ UNCHANGED <<balance, topUp, ledger, batches>>

\* No guard on the status: two settlements of one top-up both credit it.
Settle(k) ==
  /\ Post({OwnerOf[k]}, "topup", k, AmountOf[k])
  /\ topUp' = [topUp EXCEPT ![k] = "succeeded"]
  /\ UNCHANGED <<wallets, batches>>

Cancel(k) ==
  /\ topUp[k] = "pending"
  /\ topUp' = [topUp EXCEPT ![k] = "canceled"]
  /\ UNCHANGED <<wallets, balance, ledger, batches>>

Debit(d) ==
  /\ \A u \in Users : ~ Holds(u, "usage_debit", d)
  /\ Guarded => balance[DebitOf[d].user] >= DebitOf[d].amount
  /\ Post({DebitOf[d].user}, "usage_debit", d, -DebitOf[d].amount)
  /\ wallets' = wallets \cup {DebitOf[d].user}
  /\ UNCHANGED <<topUp, batches>>

\* The users an adjustment reaches: the listed ones that can bear it.
Bears(a, u) == a.delta > 0 \/ a.allowNegative \/ balance[u] >= -a.delta

Adjust(a, S) ==
  LET listed == {a.users[i] : i \in 1 .. Len(a.users)}
  IN  /\ a.key \notin batches
      /\ S \subseteq listed
      /\ IF Guarded THEN S = {u \in listed : Bears(a, u)}
                    ELSE {u \in listed : a.delta > 0 \/ a.allowNegative} \subseteq S
      /\ Post(S, "manual_adjustment", a.key, a.delta)
      /\ wallets' = wallets \cup listed
      /\ batches' = batches \cup {a.key}
      /\ UNCHANGED topUp

Next ==
  \/ \E u \in Users : CreateWallet(u)
  \/ \E k \in TopUps : Settle(k) \/ Cancel(k)
  \/ \E d \in Debits : Debit(d)
  \/ \E a \in Adjustments : \E S \in SUBSET Users : Adjust(a, S)

Spec == Init /\ [][Next]_vars
=============================================================================
