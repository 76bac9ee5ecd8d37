------------------------------ MODULE SettingsCache ------------------------------
(***************************************************************************)
(* The policies an administrator sets for the platform, prices and retention: *)
(* AiPricingSettingsService and RetentionSettingsService, alike but for what   *)
(* the fields mean.  A policy is a row of platform_settings, none at first;     *)
(* each process serves it from a copy that it keeps for a minute.  A change     *)
(* names some fields: the service reads the row, merges, and writes the whole.  *)
(*                                                                         *)
(* The same copy is set by reads and by changes, each when its answer from     *)
(* the database is there, in no order.                                      *)
(***************************************************************************)
EXTENDS Integers

CONSTANTS
  Fields,       \* of the policy
  Servers,      \* processes of the API
  Calls,        \* calls of the service at a time
  Lifetime,     \* EFFECTIVE_POLICY_CACHE_TTL_MS
  MaxBusy,      \* bound: ticks for which a call is busy with what it has read or written
  MaxTime,      \* bound: the clock
  MaxChanges,   \* bound: changes
  MaxFailures   \* bound: statements that fail

VARIABLES
  time,
  row,        \* the policy there is
  copy,       \* of each process, with when it expires
  doing,      \* what each call is at
  changes,    \* how many changes were asked for; each sets its fields to its number
  past,       \* history: policies, with when each was in force or stood in for one last
  meant,      \* history: for each field the change last written that names it
  together,   \* history: two changes were under way at a time
  failures

history == <<past, meant, together>>
vars == <<time, row, copy, doing, changes, history, failures>>

Default == [f \in Fields |-> 0]
Nothing == [f \in {} |-> 0]
NoCopy  == [until |-> 0]
Call(kind, s, patch) ==
  [pc |-> "read", kind |-> kind, server |-> s, patch |-> patch, row |-> Nothing, from |-> 0]
NoCall == [pc |-> "none"]

\* The default policy stands in for a row.
Effective(r) == IF r = Nothing THEN Default ELSE r

Init ==
  /\ time = 0
  /\ row = Nothing
  /\ copy = [s \in Servers |-> NoCopy]
  /\ doing = [c \in Calls |-> NoCall]
  /\ changes = 0
  /\ past = Nothing
  /\ meant = Default
  /\ together = FALSE
  /\ failures = 0

\* setCachedEffectivePolicy.
SetCopy(s, policy) == copy' = [copy EXCEPT ![s] = [policy |-> policy, until |-> time + Lifetime]]

Starts(c, call) == doing[c] = NoCall /\ doing' = [doing EXCEPT ![c] = call]
Ends(c) == doing' = [doing EXCEPT ![c] = NoCall]

Passes(policy) ==
  past' = [p \in DOMAIN past \cup {policy} |-> IF p = policy THEN time ELSE past[p]]

Fail == failures < MaxFailures /\ failures' = failures + 1

-----------------------------------------------------------------------------
(* Reading                                                                  *)

\* getEffectivePricingPolicy and getEffectiveRetentionPolicy, where there is no copy; to
\* serve a copy is no step.
Get(c, s) ==
  /\ copy[s] = NoCopy
  /\ Starts(c, Call("get", s, Nothing))
  /\ UNCHANGED <<time, row, copy, changes, history, failures>>

\* getPricingPolicy and getRetentionPolicy, for the settings page.
Show(c, s) ==
  /\ Starts(c, Call("show", s, Nothing))
  /\ UNCHANGED <<time, row, copy, changes, history, failures>>

\* findByKey.
Read(c) ==
  /\ doing[c].pc = "read"
  /\ doing' = [doing EXCEPT ![c].pc = "found", ![c].row = row, ![c].from = time]
  /\ UNCHANGED <<time, row, copy, changes, history, failures>>

\* The default is served, and kept like a policy; the settings page fails.
ReadFails(c) ==
  LET d == doing[c]
  IN  /\ d.pc = "read" /\ Fail
      /\ IF d.kind = "get"
           THEN SetCopy(d.server, Default) /\ Passes(Default)
           ELSE UNCHANGED <<copy, past>>
      /\ Ends(c)
      /\ UNCHANGED <<time, row, changes, meant, together>>

FoundByGet(c) ==
  LET d == doing[c]
  IN  /\ d.pc = "found" /\ d.kind = "get"
      /\ SetCopy(d.server, Effective(d.row))
      /\ Ends(c)
      /\ UNCHANGED <<time, row, changes, past, meant, together, failures>>

\* Only a row is kept.
KeepRow(d) == IF d.row = Nothing THEN UNCHANGED copy ELSE SetCopy(d.server, d.row)

FoundByShow(c) ==
  /\ doing[c].pc = "found" /\ doing[c].kind = "show"
  /\ KeepRow(doing[c])
  /\ Ends(c)
  /\ UNCHANGED <<time, row, changes, past, meant, together, failures>>

-----------------------------------------------------------------------------
(* Changing                                                                 *)

\* updatePricingPolicy and updateRetentionPolicy.
Change(c, s, fields) ==
  /\ changes < MaxChanges /\ changes' = changes + 1
  /\ Starts(c, Call("change", s, [f \in fields |-> changes + 1]))
  /\ together' = (together \/ \E o \in Calls : doing[o] # NoCall /\ doing[o].kind = "change")
  /\ UNCHANGED <<time, row, copy, past, meant, failures>>

\* mergeAiPricingPolicy, mergeRetentionPolicy.
Merged(policy, patch) == [f \in Fields |-> IF f \in DOMAIN patch THEN patch[f] ELSE policy[f]]

MergeInto(c, policy) ==
  LET d == doing[c]
  IN  /\ d.pc = "found" /\ d.kind = "change"
      /\ KeepRow(d)
      /\ doing' = [doing EXCEPT ![c].pc = "write", ![c].row = Merged(policy, d.patch),
                                 ![c].from = 0]
      /\ UNCHANGED <<time, row, changes, past, meant, together, failures>>

\* Mistake: merged into what the process would serve.
MergeCopy(c) ==
  LET kept == copy[doing[c].server]
  IN  MergeInto(c, IF kept # NoCopy THEN kept.policy ELSE Effective(doing[c].row))

Merge(c) == MergeInto(c, Effective(doing[c].row))

Put(d) ==
  /\ row' = d.row
  /\ Passes(Effective(row))
  /\ meant' = IF together THEN meant ELSE Merged(meant, d.patch)

\* upsertJson, and the entry in the admin log, whether or not it succeeds.
Write(c) ==
  /\ doing[c].pc = "write"
  /\ Put(doing[c])
  /\ doing' = [doing EXCEPT ![c].pc = "written", ![c].from = time]
  /\ UNCHANGED <<time, copy, changes, together, failures>>

\* The call fails, and the row may be written.
WriteFails(c) ==
  /\ doing[c].pc = "write" /\ Fail
  /\ Put(doing[c]) \/ UNCHANGED <<row, past, meant>>
  /\ Ends(c)
  /\ UNCHANGED <<time, copy, changes, together>>

Written(c) ==
  /\ doing[c].pc = "written"
  /\ SetCopy(doing[c].server, doing[c].row)
  /\ Ends(c)
  /\ UNCHANGED <<time, row, changes, past, meant, together, failures>>

\* A copy that has expired is none.
Tick ==
  /\ time < MaxTime
  /\ \A c \in Calls : doing[c].pc \in {"found", "written"} => time - doing[c].from < MaxBusy
  /\ time' = time + 1
  /\ copy' = [s \in Servers |-> IF copy[s].until > time + 1 THEN copy[s] ELSE NoCopy]
  /\ UNCHANGED <<row, doing, changes, past, meant, together, failures>>

Next ==
  \/ \E c \in Calls, s \in Servers :
        Get(c, s) \/ Show(c, s) \/ \E fields \in SUBSET Fields : Change(c, s, fields)
  \/ \E c \in Calls : \/ Read(c) \/ ReadFails(c) \/ FoundByGet(c) \/ FoundByShow(c)
                      \/ Merge(c) \/ Write(c) \/ WriteFails(c) \/ Written(c)
  \/ Tick

Spec == Init /\ [][Next]_vars

-----------------------------------------------------------------------------
(* Properties                                                              *)

\* A policy that is served from a copy was in force a lifetime ago at most, and what a
\* call took: whichever reads and changes overlap, no copy is passed on.
ServedIsRecent ==
  \A s \in Servers : copy[s] # NoCopy =>
    \/ copy[s].policy = Effective(row)
    \/ copy[s].policy \in DOMAIN past /\ time < past[copy[s].policy] + Lifetime + MaxBusy

\* "PATCH merges current values instead of resetting omitted fields": of changes that do not
\* overlap none undoes another, whichever processes make them and whatever their copies are.
ChangesAdd == ~together => Effective(row) = meant

\* What the platform goes by is what the administrators have set.
PolicyFollowsChanges == ServedIsRecent /\ ChangesAdd
=============================================================================
