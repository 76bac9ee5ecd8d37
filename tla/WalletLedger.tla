---------------------------- MODULE WalletLedger ----------------------------
(***************************************************************************)
(* The wallet tables of the API (apps/api/src/wallet/wallet.repository.ts) *)
(* and the operations that change them, at the granularity at which the    *)
(* database interleaves them.                                              *)
(*                                                                         *)
(* Every operation is a Prisma interactive transaction.  No isolation      *)
(* level is given, so PostgreSQL runs it READ COMMITTED: each statement    *)
(* reads what is committed when it starts, an UPDATE locks its row until   *)
(* the transaction ends, and an INSERT of a unique key waits for another   *)
(* transaction that is inserting the same key.  One action below is one    *)
(* statement.  The ledger INSERT is merged with the COMMIT that follows    *)
(* it: nothing runs between the two and nobody sees one without the other. *)
(*                                                                         *)
(* A wallet is named by its user (Wallet.userId is unique).  The paths     *)
(* that change nothing (a top-up already settled, a debit or batch key     *)
(* already used) are the guards of the Begin actions.                      *)
(***************************************************************************)
EXTENDS Integers, Sequences

CONSTANTS
  Users,        \* wallet owners
  TopUps,       \* WalletTopUp rows
  Debits,       \* usage debits, named by their idempotency key
  BatchKeys,    \* idempotency keys of admin adjustments
  Adjustments,  \* the adjustment requests that administrators may send
  Txs,          \* database transactions that may be open together
  OwnerOf,      \* TopUps -> Users
  AmountOf,     \* TopUps -> kopecks
  DebitOf,      \* Debits -> [user, amount]
  MaxInt4,      \* the largest value of the INT4 column balanceKopecks
  UpsertLocks,  \* does Prisma's upsert({update: {}}) lock an existing row?
  NoReq         \* the request of a transaction that is not open

Rows == Users \cup TopUps \cup BatchKeys

ASSUME RowsAssumption ==
  /\ Users \cap TopUps = {}
  /\ Users \cap BatchKeys = {}
  /\ TopUps \cap BatchKeys = {}

ASSUME RequestsAssumption ==
  /\ OwnerOf \in [TopUps -> Users]
  /\ AmountOf \in [TopUps -> Nat \ {0}]
  /\ DebitOf \in [Debits -> [user : Users, amount : Nat \ {0}]]
  /\ \A a \in Adjustments :
        /\ a.key \in BatchKeys
        /\ a.users \in Seq(Users)
        /\ a.delta \in Int \ {0}
        /\ a.allowNegative \in BOOLEAN
  /\ MaxInt4 \in Nat
  /\ UpsertLocks \in BOOLEAN

VARIABLES
  wallets,   \* users whose wallet row is committed
  balance,   \* committed balanceKopecks (0 where there is no wallet)
  topUp,     \* committed status of each top-up
  ledger,    \* committed ledger rows of each wallet, in commit order
  batches,   \* committed adjustment batch keys
  pc,        \* what each transaction executes next
  req,       \* the request each transaction serves
  todo,      \* the users an adjustment has still to visit
  held,      \* the rows each transaction has locked
  draft      \* the ledger row each transaction will insert, per wallet

committed == <<wallets, balance, topUp, ledger, batches>>
working   == <<pc, req, todo, held, draft>>
vars      == <<wallets, balance, topUp, ledger, batches,
               pc, req, todo, held, draft>>

Statuses == {"pending", "succeeded", "canceled"}
Steps    == {"idle", "create_wallet", "settle_mark", "settle_credit",
             "debit_upsert", "debit_update", "adjust_batch", "adjust_user",
             "adjust_update", "commit"}
Requests == Users \cup TopUps \cup Debits \cup Adjustments \cup {NoReq}
Int4     == (-MaxInt4 - 1) .. MaxInt4
Entries  == [type  : {"topup", "usage_debit", "manual_adjustment"},
             ref   : TopUps \cup Debits \cup BatchKeys,
             delta : Int, after : Int4]

NoDraft == [u \in Users |-> << >>]

Init ==
  /\ wallets = {OwnerOf[k] : k \in TopUps}
  /\ balance = [u \in Users |-> 0]
  /\ topUp   = [k \in TopUps |-> "pending"]
  /\ ledger  = [u \in Users |-> << >>]
  /\ batches = {}
  /\ pc      = [t \in Txs |-> "idle"]
  /\ req     = [t \in Txs |-> NoReq]
  /\ todo    = [t \in Txs |-> << >>]
  /\ held    = [t \in Txs |-> {}]
  /\ draft   = [t \in Txs |-> NoDraft]

-----------------------------------------------------------------------------
(* What a statement sees, and what it may lock.                            *)

\* No other open transaction has locked row r.
Free(r, t) == \A s \in Txs \ {t} : r \notin held[s]

\* The balance transaction t reads: its own update, or the committed one.
Seen(t, u) == IF draft[t][u] = << >> THEN balance[u] ELSE draft[t][u][1].after

\* Mistake: the upsert reads an existing row without locking it.
UpsertTakesOnlyNew(u) == IF u \notin wallets THEN {u} ELSE {}

\* wallet.upsert({update: {}}) inserts a missing row, and so locks it.
UpsertTakes(u) == IF UpsertLocks \/ u \notin wallets THEN {u} ELSE {}

Posted(d) ==
  \E u \in Users : \E i \in 1 .. Len(ledger[u]) :
     ledger[u][i].type = "usage_debit" /\ ledger[u][i].ref = d

Entry(type, ref, u, delta) ==
  [type |-> type, ref |-> ref, delta |-> delta, after |-> balance[u] + delta]

InInt4(n) == n \in Int4

\* The transaction is over: committed, rolled back, or refused.
Close(t) ==
  /\ pc'    = [pc EXCEPT ![t] = "idle"]
  /\ req'   = [req EXCEPT ![t] = NoReq]
  /\ todo'  = [todo EXCEPT ![t] = << >>]
  /\ held'  = [held EXCEPT ![t] = {}]
  /\ draft' = [draft EXCEPT ![t] = NoDraft]

\* The new balance, if the column can hold it; else the statement raises.
WriteWallet(t, u, e, next, rest) ==
  /\ IF InInt4(e.after)
       THEN /\ held'  = [held EXCEPT ![t] = @ \cup {u}]
            /\ draft' = [draft EXCEPT ![t][u] = <<e>>]
            /\ pc'    = [pc EXCEPT ![t] = next]
            /\ todo'  = [todo EXCEPT ![t] = rest]
            /\ UNCHANGED req
       ELSE Close(t)
  /\ UNCHANGED committed

\* Mistake: a balance computed from a row nobody locks (read, then write).
UpdateWalletUnlocked(t, u, e, next, rest) == WriteWallet(t, u, e, next, rest)

\* UPDATE "Wallet" SET balance = balance + delta: locks the row and computes
\* on the balance committed by then.
UpdateWallet(t, u, e, next, rest) ==
  /\ Free(u, t)
  /\ WriteWallet(t, u, e, next, rest)

Begin(t, r, step) ==
  /\ pc[t] = "idle"
  /\ pc'  = [pc EXCEPT ![t] = step]
  /\ req' = [req EXCEPT ![t] = r]
  /\ UNCHANGED <<todo, held, draft>>
  /\ UNCHANGED committed

-----------------------------------------------------------------------------
(* findOrCreateWalletForUser: look up, then INSERT.                        *)

BeginCreateWallet(t, u) ==
  /\ u \notin wallets
  /\ Begin(t, u, "create_wallet")

\* The loser of two INSERTs fails on the unique userId.
CreateWallet(t) ==
  /\ pc[t] = "create_wallet"
  /\ Free(req[t], t)
  /\ wallets' = wallets \cup {req[t]}
  /\ Close(t)
  /\ UNCHANGED <<balance, topUp, ledger, batches>>

-----------------------------------------------------------------------------
(* settleTopUp: read the status, mark the top-up, credit the wallet.       *)

BeginSettle(t, k) ==
  /\ topUp[k] # "succeeded"
  /\ Begin(t, k, "settle_mark")

\* Mistake: the status is written outside the transaction.
SettleMarkOutside(t) ==
  /\ pc[t] = "settle_mark"
  /\ Free(req[t], t)
  /\ topUp' = [topUp EXCEPT ![req[t]] = "succeeded"]
  /\ pc'    = [pc EXCEPT ![t] = "settle_credit"]
  /\ UNCHANGED <<wallets, balance, ledger, batches, req, todo, held, draft>>

\* UPDATE "WalletTopUp" SET status = 'succeeded' WHERE id = k.
SettleMark(t) ==
  /\ pc[t] = "settle_mark"
  /\ Free(req[t], t)
  /\ held' = [held EXCEPT ![t] = @ \cup {req[t]}]
  /\ pc'   = [pc EXCEPT ![t] = "settle_credit"]
  /\ UNCHANGED <<req, todo, draft>>
  /\ UNCHANGED committed

SettleCredit(t) ==
  LET k == req[t]
      u == OwnerOf[k]
  IN  /\ pc[t] = "settle_credit"
      /\ UpdateWallet(t, u, Entry("topup", k, u, AmountOf[k]),
                      "commit", << >>)

\* cancelTopUp: one statement, UPDATE ... WHERE id = k AND status = 'pending'.
CancelTopUp(k) ==
  /\ \A t \in Txs : k \notin held[t]
  /\ topUp[k] = "pending"
  /\ topUp' = [topUp EXCEPT ![k] = "canceled"]
  /\ UNCHANGED <<wallets, balance, ledger, batches>>
  /\ UNCHANGED working

-----------------------------------------------------------------------------
(* debitUsage: look for the key, read the balance, decrement it.           *)

BeginDebit(t, d) ==
  /\ ~ Posted(d)
  /\ Begin(t, d, "debit_upsert")

DebitUpsert(t) ==
  LET d == DebitOf[req[t]]
  IN  /\ pc[t] = "debit_upsert"
      /\ UpsertTakes(d.user) # {} => Free(d.user, t)
      /\ IF balance[d.user] < d.amount
           THEN Close(t)
           ELSE /\ held' = [held EXCEPT ![t] = @ \cup UpsertTakes(d.user)]
                /\ pc'   = [pc EXCEPT ![t] = "debit_update"]
                /\ UNCHANGED <<req, todo, draft>>
      /\ UNCHANGED committed

DebitUpdate(t) ==
  LET d == DebitOf[req[t]]
  IN  /\ pc[t] = "debit_update"
      /\ UpdateWallet(t, d.user,
                      Entry("usage_debit", req[t], d.user, -d.amount),
                      "commit", << >>)

-----------------------------------------------------------------------------
(* manualAdjustWallets: claim the batch key, then visit the users in turn. *)

BeginAdjust(t, a) ==
  /\ a.key \notin batches
  /\ Begin(t, a, "adjust_batch")

\* Mistake: debits walk the list backwards.
AdjustBatchReversed(t) ==
  LET a == req[t]
      n == Len(a.users)
  IN  /\ pc[t] = "adjust_batch"
      /\ Free(a.key, t)
      /\ a.key \notin batches
      /\ held' = [held EXCEPT ![t] = @ \cup {a.key}]
      /\ todo' = [todo EXCEPT ![t] = IF a.delta > 0 THEN a.users
                                      ELSE [i \in 1 .. n |-> a.users[n + 1 - i]]]
      /\ pc'   = [pc EXCEPT ![t] = "adjust_user"]
      /\ UNCHANGED <<req, draft>>
      /\ UNCHANGED committed

AdjustBatch(t) ==
  LET a == req[t]
  IN  /\ pc[t] = "adjust_batch"
      /\ Free(a.key, t)
      /\ IF a.key \in batches
           THEN Close(t)
           ELSE /\ held' = [held EXCEPT ![t] = @ \cup {a.key}]
                /\ todo' = [todo EXCEPT ![t] = a.users]
                /\ pc'   = [pc EXCEPT ![t] = "adjust_user"]
                /\ UNCHANGED <<req, draft>>
      /\ UNCHANGED committed

\* Mistake: the balance is compared whatever the direction.
SkipsAnyDirection(a, t, u) ==
  ~ a.allowNegative /\ Seen(t, u) < (IF a.delta < 0 THEN -a.delta ELSE a.delta)

\* A debit that may not overdraw skips a wallet whose balance is too small.
Skips(a, t, u) == a.delta < 0 /\ ~ a.allowNegative /\ Seen(t, u) < -a.delta

AdjustUser(t) ==
  LET u == Head(todo[t])
  IN  /\ pc[t] = "adjust_user"
      /\ todo[t] # << >>
      /\ UpsertTakes(u) # {} => Free(u, t)
      /\ held' = [held EXCEPT ![t] = @ \cup UpsertTakes(u)]
      /\ IF Skips(req[t], t, u)
           THEN todo' = [todo EXCEPT ![t] = Tail(@)] /\ UNCHANGED pc
           ELSE pc' = [pc EXCEPT ![t] = "adjust_update"] /\ UNCHANGED todo
      /\ UNCHANGED <<req, draft>>
      /\ UNCHANGED committed

\* A user listed twice has the same ledger key twice: the batch rolls back.
AdjustUpdate(t) ==
  LET a == req[t]
      u == Head(todo[t])
  IN  /\ pc[t] = "adjust_update"
      /\ IF draft[t][u] # << >>
           THEN Close(t) /\ UNCHANGED committed
           ELSE UpdateWallet(t, u, Entry("manual_adjustment", a.key, u, a.delta),
                             "adjust_user", Tail(todo[t]))

-----------------------------------------------------------------------------
(* The end of a transaction.                                               *)

ReadyToCommit(t) ==
  \/ pc[t] = "commit"
  \/ pc[t] = "adjust_user" /\ todo[t] = << >>

\* WalletLedgerEntry.idempotencyKey is unique: a debit's key, or an adjusted
\* wallet's `admin-adjustment:<batch>:<user>`.  A top-up's row has no key.
SameKey(u, e, v, f) ==
  /\ e.type = f.type
  /\ e.ref = f.ref
  /\ e.type # "topup"
  /\ e.type = "manual_adjustment" => u = v

\* Mistake: no unique index on idempotencyKey.
DuplicateUnchecked(t) == FALSE

\* An entry transaction t is about to insert has the key of a committed one.
Duplicate(t) ==
  \E u, v \in Users :
     \E i \in 1 .. Len(draft[t][u]), j \in 1 .. Len(ledger[v]) :
        SameKey(u, draft[t][u][i], v, ledger[v][j])

\* walletLedgerEntry.create, whose idempotencyKey is unique, and COMMIT.
Commit(t) ==
  /\ ReadyToCommit(t)
  /\ ~ Duplicate(t)
  /\ wallets' = wallets \cup (held[t] \cap Users)
  /\ balance' = [u \in Users |-> Seen(t, u)]
  /\ topUp'   = [k \in TopUps |-> IF k \in held[t] THEN "succeeded" ELSE topUp[k]]
  /\ ledger'  = [u \in Users |-> ledger[u] \o draft[t][u]]
  /\ batches' = batches \cup (held[t] \cap BatchKeys)
  /\ Close(t)

\* A duplicate key, Prisma's transaction timeout, the database's choice of a
\* deadlock victim, a lost connection or a crash: the transaction rolls back.
Rollback(t) ==
  /\ pc[t] # "idle"
  /\ Close(t)
  /\ UNCHANGED committed

Next ==
  \/ \E t \in Txs :
        \/ \E u \in Users : BeginCreateWallet(t, u)
        \/ \E k \in TopUps : BeginSettle(t, k)
        \/ \E d \in Debits : BeginDebit(t, d)
        \/ \E a \in Adjustments : BeginAdjust(t, a)
        \/ CreateWallet(t)
        \/ SettleMark(t) \/ SettleCredit(t)
        \/ DebitUpsert(t) \/ DebitUpdate(t)
        \/ AdjustBatch(t) \/ AdjustUser(t) \/ AdjustUpdate(t)
        \/ Commit(t) \/ Rollback(t)
  \/ \E k \in TopUps : CancelTopUp(k)

Spec == Init /\ [][Next]_vars

-----------------------------------------------------------------------------
(* Correctness.                                                            *)

\* Every variable has its type.
TypeOK ==
  /\ wallets \subseteq Users
  /\ balance \in [Users -> Int4]
  /\ topUp \in [TopUps -> Statuses]
  /\ ledger \in [Users -> Seq(Entries)]
  /\ batches \subseteq BatchKeys
  /\ pc \in [Txs -> Steps]
  /\ req \in [Txs -> Requests]
  /\ todo \in [Txs -> Seq(Users)]
  /\ held \in [Txs -> SUBSET Rows]
  /\ draft \in [Txs -> [Users -> Seq(Entries)]]

\* Each wallet's ledger is the running account of its balance: every row's
\* balanceAfterKopecks is the one before it plus its own deltaKopecks, and the
\* last one is the wallet's balanceKopecks.  No interleaving of settlements,
\* debits and adjustments loses an update or records a balance nobody had.
Before(rows, i) == IF i = 1 THEN 0 ELSE rows[i - 1].after

Accounts(rows, total) ==
  /\ \A i \in 1 .. Len(rows) : rows[i].after = Before(rows, i) + rows[i].delta
  /\ total = Before(rows, Len(rows) + 1)

LedgerExplainsBalance == \A u \in Users : Accounts(ledger[u], balance[u])

\* A debit's key and an adjusted wallet's key reach the ledger once, whatever
\* calls with the same key run together (debitUsage, manualAdjustWallets).
KeysPostOnce ==
  \A u, v \in Users :
     \A i \in 1 .. Len(ledger[u]), j \in 1 .. Len(ledger[v]) :
        SameKey(u, ledger[u][i], v, ledger[v][j]) => u = v /\ i = j

Overdrafts == {a \in Adjustments : a.allowNegative}

\* Without an adjustment that says allowNegative no balance falls below zero,
\* provided the upsert that reads the balance also locks the row.
BalanceNonNegative ==
  UpsertLocks /\ Overdrafts = {} => \A u \in Users : balance[u] >= 0

Credits(k) ==
  {i \in 1 .. Len(ledger[OwnerOf[k]]) :
     ledger[OwnerOf[k]][i].type = "topup" /\ ledger[OwnerOf[k]][i].ref = k}

\* settleTopUp is "atomically: mark top-up succeeded + credit wallet balance +
\* write ledger entry": a top-up is succeeded exactly when its credit is in
\* its owner's ledger.
SettledIffCredited ==
  \A k \in TopUps : (topUp[k] = "succeeded") <=> (Credits(k) # {})

\* settleTopUp is "safe to call multiple times": one credit per top-up.
CreditedAtMostOnce ==
  \A k \in TopUps : \A i, j \in Credits(k) : i = j

Listed(a)  == {a.users[n] : n \in 1 .. Len(a.users)}
Reached(b) == {u \in Users : \E i \in 1 .. Len(ledger[u]) :
                  ledger[u][i].type = "manual_adjustment" /\ ledger[u][i].ref = b}

\* A batch key accounts for one request: it reaches only listed wallets, and
\* all of them when the request can skip nobody, whatever lists are sent with
\* the same key.  Before the key is committed it has reached none.
BatchAllOrNothing ==
  \A b \in BatchKeys :
     IF b \in batches
       THEN \E a \in Adjustments :
               /\ a.key = b
               /\ Reached(b) \subseteq Listed(a)
               /\ a.delta > 0 \/ a.allowNegative => Reached(b) = Listed(a)
       ELSE Reached(b) = {}

\* The row that transaction t's next statement has to lock.
Wants(t) ==
  CASE pc[t] \in {"create_wallet", "settle_mark"} -> {req[t]}
    [] pc[t] = "settle_credit" -> {OwnerOf[req[t]]}
    [] pc[t] = "debit_upsert"  -> UpsertTakes(DebitOf[req[t]].user)
    [] pc[t] = "debit_update"  -> {DebitOf[req[t]].user}
    [] pc[t] = "adjust_batch"  -> {req[t].key}
    [] pc[t] = "adjust_user" /\ todo[t] # << >> -> UpsertTakes(Head(todo[t]))
    [] pc[t] = "adjust_update" -> {Head(todo[t])}
    [] OTHER -> {}

\* The users of a list come in falling rank; one may be listed twice in a row.
Falling(rank, users) ==
  \A i, j \in 1 .. Len(users) :
     i <= j => users[i] = users[j] \/ rank[users[i]] > rank[users[j]]

\* The adjustments list their users in one common order.
InOneOrder(rank) ==
  /\ rank \in [Users -> Nat]
  /\ \A a \in Adjustments : Falling(rank, a.users)

\* No set of transactions waits on itself: in every group of open ones there
\* is one whose next statement needs no row locked by another of the group.
\* It holds while the adjustments list users in one common order.
NoLockCycle ==
  \A G \in (SUBSET Txs) \ {{}} :
     \E t \in G : \A s \in G \ {t} : Wants(t) \cap held[s] = {}

\* The committed tables change as the repository's contract says.
Contract == INSTANCE Ledger WITH Guarded <- UpsertLocks
ImplementsLedger == Contract!Spec
=============================================================================
