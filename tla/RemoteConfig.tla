------------------------------ MODULE RemoteConfig ------------------------------
(***************************************************************************)
(* The versions of the remote configuration, remote-config.repository.ts.   *)
(* Publishing a version and activating an earlier one are transactions      *)
(* that first deactivate what is active and then make one version active.   *)
(* They run READ COMMITTED: the deactivation finds the rows active when it   *)
(* begins, waits for the transactions that hold one of them, and leaves      *)
(* alone those that are not active any more.  Extensions read at any time    *)
(* the layers of all the versions that are active.                          *)
(***************************************************************************)
EXTENDS Integers, FiniteSets

CONSTANTS Versions, Admins

VARIABLES
  active,   \* committed versions, with whether they are active
  change,   \* what each administrator's transaction is at
  chosen,   \* history: the version of the last change, in a set: none before the first
  raced     \* history: two changes have been under way at a time

vars == <<active, change, chosen, raced>>

NoChange == [pc |-> "none"]
Published == DOMAIN active

Init ==
  /\ active = [v \in {} |-> FALSE]
  /\ change = [a \in Admins |-> NoChange]
  /\ chosen = {}
  /\ raced = FALSE

UnderWay == {a \in Admins : change[a] # NoChange}
Drafted  == {change[a].version : a \in UnderWay}

\* What a transaction has updated, and so holds.
Held(a) == IF change[a] = NoChange THEN {} ELSE change[a].off \cup change[a].on
FreeFor(a, vs) == \A b \in Admins \ {a} : Held(b) \cap vs = {}

Begin(a, v) ==
  /\ change[a] = NoChange
  /\ change' = [change EXCEPT ![a] = [pc |-> "scan", version |-> v, found |-> {},
                                       off |-> {}, on |-> {}]]
  /\ raced' = (raced \/ UnderWay # {})
  /\ UNCHANGED <<active, chosen>>

\* publishVersion, with a row of its own; activateVersion, once it has found the row.
Publish(a, v)  == v \notin Published \cup Drafted /\ Begin(a, v)
Activate(a, v) == v \in Published /\ Begin(a, v)

\* updateMany, as it begins,
Scan(a) ==
  /\ change[a].pc = "scan"
  /\ change' = [change EXCEPT ![a].pc = "off", ![a].found = {v \in Published : active[v]}]
  /\ UNCHANGED <<active, chosen, raced>>

\* Mistake: the deactivation is no part of the transaction.
DeactivateAtOnce(a) ==
  /\ change[a].pc = "off"
  /\ FreeFor(a, change[a].found)
  /\ change' = [change EXCEPT ![a].pc = "on"]
  /\ active' = [v \in Published |-> active[v] /\ v \notin change[a].found]
  /\ UNCHANGED <<chosen, raced>>

\* and when it holds all the rows it has found.
Deactivate(a) ==
  /\ change[a].pc = "off"
  /\ FreeFor(a, change[a].found)
  /\ change' = [change EXCEPT ![a].pc = "on",
                               ![a].off = {v \in change[a].found : active[v]}]
  /\ UNCHANGED <<active, chosen, raced>>

\* create, or update of the row.
Put(a) ==
  /\ change[a].pc = "on"
  /\ FreeFor(a, {change[a].version})
  /\ change' = [change EXCEPT ![a].pc = "commit", ![a].on = {change[a].version}]
  /\ UNCHANGED <<active, chosen, raced>>

Commit(a) ==
  /\ change[a].pc = "commit"
  /\ active' = [v \in Published \cup change[a].on |->
                  v \in change[a].on \/ (active[v] /\ v \notin change[a].off)]
  /\ chosen' = change[a].on
  /\ change' = [change EXCEPT ![a] = NoChange]
  /\ UNCHANGED raced

\* A statement fails, two transactions wait for each other, the process dies.
RollBack(a) ==
  /\ change[a] # NoChange
  /\ change' = [change EXCEPT ![a] = NoChange]
  /\ UNCHANGED <<active, chosen, raced>>

Next ==
  \E a \in Admins :
     \/ \E v \in Versions : Publish(a, v) \/ Activate(a, v)
     \/ Scan(a) \/ Deactivate(a) \/ Put(a) \/ Commit(a) \/ RollBack(a)

Spec == Init /\ [][Next]_vars

-----------------------------------------------------------------------------
(* Properties                                                              *)

InForce == {v \in Published : active[v]}

\* From the first publication on the extensions find a configuration at any time, whichever
\* changes overlap and however they end.
ConfiguredAlways == Published # {} => InForce # {}

\* The version in force is the one chosen last, and no other, while changes do not overlap:
\* of two that do, each may leave its version active.
LastChosenInForce == ~raced => InForce = chosen

\* "Let extension bootstrap endpoints consume the active version."
ActiveVersionServed == ConfiguredAlways /\ LastChosenInForce
=============================================================================
