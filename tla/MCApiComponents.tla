----------------------------- MODULE MCApiComponents -----------------------------
(***************************************************************************)
(* For TLC: four components that share no state, WalletLedger,              *)
(* RemoteConfig, ProviderCredentials and RateLimit.  In a behaviour one of    *)
(* them moves and the others rest, which leaves nothing out, as every         *)
(* property is of one of them: that the others stand still is a stuttering    *)
(* step.                                                                     *)
(***************************************************************************)
EXTENDS MCWalletLedger

CONSTANTS
  Versions, Admins,
  Credentials, Secrets, Malformed, Editors,
  Keys, Processes, Handlers, Limit, Window, PruneEvery, MaxBuckets, MaxClock, MaxAsks,
  MaxRedisFailures

ASSUME RateAssumption ==
  /\ Limit \in Nat /\ Window \in Nat \ {0} /\ MaxClock \in Nat \ {0}
  /\ "redis" \notin Processes

\* These batches list users in one order, as NoLockCycle requires.
ASSUME OneOrderAssumption == \E rank \in [Users -> 0 .. 1] : InOneOrder(rank)

VARIABLES
  part,
  active, change, chosen, raced,
  rows, edit, entered, retired, crossed,
  clock, counters, buckets, prunedAt, call, used, denied, evicted, lingered, asked, redisFailures

config == <<active, change, chosen, raced>>
byok   == <<rows, edit, entered, retired, crossed>>
rate   == <<clock, counters, buckets, prunedAt, call, used, denied, evicted, lingered, asked,
            redisFailures>>

Config == INSTANCE RemoteConfig
Byok   == INSTANCE ProviderCredentials
Rate   == INSTANCE RateLimit

\* Where the credentials rest, one of their initial states is enough.
MCInit ==
  /\ part \in {"wallet", "config", "byok", "rate"}
  /\ Init
  /\ Config!Init
  /\ Byok!Init /\ (part = "byok" \/ Malformed \subseteq entered)
  /\ Rate!Init

MCNext ==
  \/ part = "wallet" /\ Next /\ UNCHANGED <<part, config, byok, rate>>
  \/ part = "config" /\ Config!Next /\ UNCHANGED <<part, vars, byok, rate>>
  \/ part = "byok" /\ Byok!Next /\ UNCHANGED <<part, vars, config, rate>>
  \/ part = "rate" /\ Rate!Next /\ UNCHANGED <<part, vars, config, byok>>

MCSpec == MCInit /\ [][MCNext]_<<part, vars, config, byok, rate>>

\* The properties of the components under names of their own.
ActiveVersionServed == Config!ActiveVersionServed
CredentialsHold     == Byok!CredentialsHold
LimitKept           == Rate!LimitKept
=============================================================================
