-------------------------- MODULE MCExtensionRuntime --------------------------
(***************************************************************************)
(* For TLC: the two clients that hold a session of the API, the browser with  *)
(* its cookies (WebSessions) and the extension with its token                 *)
(* (ExtensionRuntime).  Their sessions are rows of two tables and they share   *)
(* no state: in a behaviour one of the two moves and the other rests.  That    *)
(* leaves nothing out, as each property is of one of them.  The calls of the    *)
(* extension are alike, and so are the tabs of the browser.                  *)
(***************************************************************************)
EXTENDS WebSessions, TLC

CONSTANTS Procs, MaxItems, MaxCalls, MaxAgings, MaxFaults

ASSUME ExtensionAssumption == MaxItems \in Nat \ {0} /\ MaxCalls \in Nat

VARIABLES
  part, tokens, handlers, site, stored, cached, buffer, refreshing, procs, used, received,
  flushed, appended, excused, ended, overlap, upset

extension == <<tokens, handlers, site, stored, cached, buffer, refreshing, procs, used, received,
               flushed, appended, excused, ended, overlap, upset>>

Extension == INSTANCE ExtensionRuntime WITH sessions <- tokens

MCInit ==
  /\ part \in {"browser", "extension"}
  /\ Init
  /\ Extension!Init

MCNext ==
  \/ part = "browser" /\ Next /\ UNCHANGED <<part, extension>>
  \/ part = "extension" /\ Extension!Next /\ UNCHANGED <<part, vars>>

MCSpec == MCInit /\ [][MCNext]_<<part, vars, extension>>

Symmetry == Permutations(Procs) \cup Permutations(Tabs)

\* The properties of ExtensionRuntime under names of their own.
NothingLostWhenCalm == Extension!NothingLostWhenCalm
BufferHolds         == Extension!BufferHolds
SessionSurvives     == Extension!SessionSurvives
===============================================================================
