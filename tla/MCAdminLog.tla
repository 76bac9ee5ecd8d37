------------------------------ MODULE MCAdminLog ------------------------------
(* AdminLog for TLC: an upload's request that this release records, made with   *)
(* the user's own key and so with a security row; and a request that an earlier *)
(* release has recorded, with its activity row and the copy of it that its      *)
(* domain row is, which is kept for longer.  The rows are as old as each other, *)
(* and those of the new request come first though they are committed last.      *)
(*                                                                             *)
(* And SettingsCache, with which it shares no state: in a behaviour one of the  *)
(* two moves and the other rests.  That leaves nothing out, as each property is *)
(* of one of them.                                                             *)
EXTENDS AdminLog, TLC

CONSTANTS Fields, Servers, Calls, Lifetime, MaxBusy, MaxTime, MaxChanges, MaxFailures

ASSUME PolicyAssumption == Lifetime \in Nat \ {0} /\ MaxBusy \in Nat

VARIABLES part, time, row, copy, doing, changes, past, meant, together, failures

policy == <<time, row, copy, doing, changes, past, meant, together, failures>>
Policy == INSTANCE SettingsCache

MCRows == 1 .. 4
MCStream == <<"activity", "security", "activity", "domain">>
MCTime == <<0, 0, 0, 0>>
MCRecording == <<"new", "new", "old", "old">>
MCAiCalls == {"old", "new"}
MCPersists == [c \in MCAiCalls |-> IF c = "old" THEN 1 ELSE 2]
MCKeep == <<0, 1, 0, 1>>
MCScopes == {MCRows}

\* Where the log rests, one of its initial states is enough.
MCInit ==
  /\ part \in {"log", "policy"}
  /\ Init /\ (part = "log" \/ \A r \in OldRows : log[r] # Absent)
  /\ Policy!Init

MCNext ==
  \/ part = "log" /\ Next /\ UNCHANGED <<part, policy>>
  \/ part = "policy" /\ Policy!Next /\ UNCHANGED <<part, vars>>

MCSpec == MCInit /\ [][MCNext]_<<part, vars, policy>>

Symmetry == Permutations(Servers) \cup Permutations(Calls) \cup Permutations(Fields)

PolicyFollowsChanges == Policy!PolicyFollowsChanges
===============================================================================
