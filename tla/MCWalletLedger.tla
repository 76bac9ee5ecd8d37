--------------------------- MODULE MCWalletLedger ---------------------------
(***************************************************************************)
(* WalletLedger for TLC: two wallets, one top-up, and small requests.      *)
(***************************************************************************)
EXTENDS WalletLedger, TLC

CONSTANTS u1, u2, k1, d1, d2, b1, b2

MCOwnerOf  == [k \in TopUps |-> u1]
MCAmountOf == [k \in TopUps |-> 2]
MCDebitOf  == [d \in Debits |-> [user |-> u1, amount |-> IF d = d1 THEN 1 ELSE 2]]

Adjustment(key, users, delta, allowNegative) ==
  [key |-> key, users |-> users, delta |-> delta, allowNegative |-> allowNegative]

\* Batches over both users, in one order; the second may skip a wallet.  Each
\* key is also sent with another list, once with a list that names a user twice.
MCBatches == {Adjustment(b1, <<u1, u2>>, 1, FALSE),
              Adjustment(b1, <<u2>>, 1, FALSE),
              Adjustment(b2, <<u1, u2>>, -1, FALSE),
              Adjustment(b2, <<u1, u1>>, -1, FALSE)}

MCNone == {}

Symmetry == Permutations(Txs)
=============================================================================
