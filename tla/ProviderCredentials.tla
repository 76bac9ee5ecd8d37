--------------------------- MODULE ProviderCredentials ---------------------------
(***************************************************************************)
(* The keys that users bring for AI providers: provider-credential.service  *)
(* and its repository, and the query by which the AI proxy picks one.       *)
(*                                                                         *)
(* To create, rotate, revoke and test are requests that each read the row,   *)
(* check it, await the provider policy, and then write the row in one        *)
(* transaction whose update names nothing but the id: between the two        *)
(* another request may have written it.  What is written into the metadata   *)
(* begins with a copy of what was read.                                     *)
(***************************************************************************)
EXTENDS Integers, FiniteSets

CONSTANTS
  Credentials,  \* ids of rows, all of one user and provider
  Secrets,      \* the keys he enters, each of them once
  Malformed,    \* of these, what the check of their shape has come to refuse
  Editors       \* requests served at a time

VARIABLES
  rows,     \* provider_credentials: a function on the ids there are
  edit,     \* what each request is at, with the row it has read
  entered,  \* secrets entered
  retired,  \* history: secrets revoked
  crossed   \* history: two requests have worked on one row at a time

vars == <<rows, edit, entered, retired, crossed>>

NoEdit == [op |-> "none"]

\* A row with the secretPreview of its metadata.
Row(s, status, revoked, preview) ==
  [secret |-> s, status |-> status, revoked |-> revoked, preview |-> preview]

WellFormed(s) == s \notin Malformed

\* There is a row with a key that was well formed when it was entered.
Init ==
  /\ \E c \in Credentials, s \in Secrets :
        /\ rows = [d \in {c} |-> Row(s, "valid", FALSE, s)]
        /\ entered = {s}
  /\ edit = [e \in Editors |-> NoEdit]
  /\ retired = {}
  /\ crossed = FALSE

Ids == DOMAIN rows

\* createWithLogs.
Create(c, s) ==
  /\ c \notin Ids /\ s \notin entered /\ WellFormed(s)
  /\ rows' = [d \in Ids \cup {c} |-> IF d = c THEN Row(s, "valid", FALSE, s) ELSE rows[d]]
  /\ entered' = entered \cup {s}
  /\ UNCHANGED <<edit, retired, crossed>>

\* findById.
Begin(e, op, c) ==
  /\ edit[e] = NoEdit /\ c \in Ids
  /\ edit' = [edit EXCEPT ![e] = [op |-> op, id |-> c, read |-> rows[c]]]
  /\ crossed' = (crossed \/ \E f \in Editors : edit[f] # NoEdit /\ edit[f].id = c)
  /\ UNCHANGED <<rows, entered, retired>>

\* A key revoked already is neither revoked again nor tested; it may be rotated.
BeginRotate(e, c) == Begin(e, "rotate", c)
BeginRevoke(e, c) == c \in Ids /\ ~rows[c].revoked /\ Begin(e, "revoke", c)
BeginTest(e, c)   == c \in Ids /\ ~rows[c].revoked /\ Begin(e, "test", c)

End(e) == edit' = [edit EXCEPT ![e] = NoEdit]

\* rotateWithLogs: a new secret, valid, no longer revoked.
Rotate(e, s) ==
  /\ edit[e].op = "rotate"
  /\ s \notin entered /\ WellFormed(s)
  /\ rows' = [rows EXCEPT ![edit[e].id] = Row(s, "valid", FALSE, s)]
  /\ entered' = entered \cup {s}
  /\ End(e)
  /\ UNCHANGED <<retired, crossed>>

\* revokeWithLogs: whatever secret the row holds by now.
Revoke(e) ==
  LET c == edit[e].id
  IN  /\ edit[e].op = "revoke"
      /\ rows' = [rows EXCEPT ![c].status = "revoked", ![c].revoked = TRUE,
                              ![c].preview = edit[e].read.preview]
      /\ retired' = retired \cup {rows[c].secret}
      /\ End(e)
      /\ UNCHANGED <<entered, crossed>>

\* Mistake: a key that has passed is no longer revoked.
TestReinstates(e) ==
  LET c == edit[e].id
      passed == WellFormed(edit[e].read.secret)
  IN  /\ edit[e].op = "test"
      /\ rows' = [rows EXCEPT ![c].status = IF passed THEN "valid" ELSE "invalid",
                              ![c].revoked = ~passed,
                              ![c].preview = edit[e].read.preview]
      /\ End(e)
      /\ UNCHANGED <<entered, retired, crossed>>

\* validateWithLogs: the verdict on the secret that was read.
Test(e) ==
  LET c == edit[e].id
  IN  /\ edit[e].op = "test"
      /\ rows' = [rows EXCEPT ![c].status = IF WellFormed(edit[e].read.secret)
                                              THEN "valid" ELSE "invalid",
                              ![c].preview = edit[e].read.preview]
      /\ End(e)
      /\ UNCHANGED <<entered, retired, crossed>>

\* The policy forbids it, the new secret is malformed, or the transaction fails.
GiveUp(e) ==
  /\ edit[e] # NoEdit
  /\ End(e)
  /\ UNCHANGED <<rows, entered, retired, crossed>>

Next ==
  \/ \E c \in Credentials, s \in Secrets : Create(c, s)
  \/ \E e \in Editors :
        \/ \E c \in Credentials : BeginRotate(e, c) \/ BeginRevoke(e, c) \/ BeginTest(e, c)
        \/ \E s \in Secrets : Rotate(e, s)
        \/ Revoke(e) \/ Test(e) \/ GiveUp(e)

Spec == Init /\ [][Next]_vars

-----------------------------------------------------------------------------
(* Properties                                                              *)

\* findBestUserCredential: the rows of which it takes the one updated last.
Usable(c) == rows[c].status = "valid" /\ ~rows[c].revoked

\* A secret that was revoked is never again one that the proxy may use, whatever tests and
\* rotations of its row were under way at the time.
RevokedStaysOut == \A c \in Ids : Usable(c) => rows[c].secret \notin retired

\* The preview by which the user tells his keys apart is that of the secret in the row,
\* and the status what the check says of it or that it is revoked, as long as no two
\* requests worked on one row at a time.
RowTellsItsSecret ==
  ~crossed => \A c \in Ids : /\ rows[c].preview = rows[c].secret
                             /\ rows[c].revoked <=> rows[c].status = "revoked"
                             /\ rows[c].status = "invalid" => ~WellFormed(rows[c].secret)

\* What the AI proxy and the settings page take from a row is so.
CredentialsHold == RevokedStaysOut /\ RowTellsItsSecret
=============================================================================
