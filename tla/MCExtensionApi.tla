---------------------------- MODULE MCExtensionApi ----------------------------
(***************************************************************************)
(* For TLC: what the extension asks of the server, BindCodeStore and           *)
(* UsageEvents, which share no state: in a behaviour one of the two moves and   *)
(* the other rests.  That leaves nothing out, as each property is of one of     *)
(* them.  Instances, handlers, codes and contexts are told apart by nothing in  *)
(* the module, and no property is temporal.                                   *)
(***************************************************************************)
EXTENDS BindCodeStore, TLC

CONSTANTS Events, KeyOf, Workers, Attempts, KeepDone, KeepFailed, MaxSends, MaxFaults

VARIABLES
  part, outbox, delivery, sends, answered, degraded, jobs, waiting, completed, failed, work,
  telemetry, shown, last, doubts, exhausted, abreast, faults

usage == <<outbox, delivery, sends, answered, degraded, jobs, waiting, completed, failed, work,
           telemetry, shown, last, doubts, exhausted, abreast, faults>>

Usage == INSTANCE UsageEvents

ASSUME UsageAssumption == IsFiniteSet(Workers) /\ KeepDone \in Nat /\ KeepFailed \in Nat

\* An event, and two of one installation, time and type.
MCKeyOf == <<1, 2, 2>>

\* Where the bind codes rest, one of their initial states is enough.
MCInit ==
  /\ part \in {"bind", "usage"}
  /\ Init /\ (part = "bind" \/ (required /\ url))
  /\ Usage!Init

MCNext ==
  \/ part = "bind" /\ Next /\ UNCHANGED <<part, usage>>
  \/ part = "usage" /\ Usage!Next /\ UNCHANGED <<part, vars>>

MCSpec == MCInit /\ [][MCNext]_<<part, vars, usage>>

Symmetry ==
  Permutations(Instances) \cup Permutations(Handlers) \cup Permutations(Codes)
    \cup Permutations(Contexts)

EventsAccountedFor == Usage!EventsAccountedFor
===============================================================================
