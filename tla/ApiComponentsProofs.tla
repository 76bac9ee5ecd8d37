--------------------------- MODULE ApiComponentsProofs ---------------------------
(***************************************************************************)
(* What the components of MCApiComponents promise, for any value of their   *)
(* constants: RemoteConfig, ProviderCredentials, RateLimit and WalletLedger. *)
(***************************************************************************)
EXTENDS MCApiComponents, WellFoundedInduction, TLAPS

-----------------------------------------------------------------------------
(* RemoteConfig                                                            *)
(*                                                                         *)
(* That a configuration is always in force rests on a commit making its own  *)
(* version active in the step that makes others inactive.  That no other is   *)
(* in force needs what a single transaction has found: nothing changes until  *)
(* it commits, so what it holds to turn off is what is in force.            *)

Changes == [pc : {"scan", "off", "on", "commit"}, version : Versions,
            found : SUBSET Versions, off : SUBSET Versions, on : SUBSET Versions]

ConfigTypeOK ==
  /\ Config!Published \subseteq Versions /\ active \in [Config!Published -> BOOLEAN]
  /\ change \in [Admins -> Changes \cup {Config!NoChange}]
  /\ raced \in BOOLEAN

\* A transaction commits with its version.
CommitsItsOwn ==
  \A a \in Admins : change[a].pc = "commit" => change[a].on = {change[a].version}

\* As long as changes do not overlap, there is one at most, and it has found and holds
\* what is in force.
ConfigAlone ==
  ~raced =>
    /\ \A a, b \in Config!UnderWay : a = b
    /\ \A a \in Admins : /\ change[a].pc = "off" => change[a].found = Config!InForce
                         /\ change[a].pc \in {"on", "commit"} => change[a].off = Config!InForce

ConfigInv == ConfigTypeOK /\ CommitsItsOwn /\ ConfigAlone /\ Config!ActiveVersionServed

\* Whether a transaction is under way shows in what it is at.
LEMMA ConfigUnderWayByStep ==
  ASSUME ConfigTypeOK
  PROVE  \A a \in Admins : a \in Config!UnderWay <=> change[a].pc # "none"
  BY DEF ConfigTypeOK, Config!UnderWay, Config!NoChange, Changes

\* A step of one administrator that commits nothing.
LEMMA ConfigQuietStep ==
  ASSUME ConfigInv, NEW a \in Admins, ConfigTypeOK', CommitsItsOwn', UNCHANGED <<active, chosen>>,
         raced => raced',
         \A b \in Admins \ {a} : change'[b] = change[b],
         ~raced' => \A b \in Admins \ {a} : b \notin Config!UnderWay,
         ~raced' => /\ change'[a].pc = "off" => change'[a].found = Config!InForce
                    /\ change'[a].pc \in {"on", "commit"} => change'[a].off = Config!InForce
  PROVE  ConfigInv'
<1>1. Config!InForce' = Config!InForce /\ Config!Published' = Config!Published
  BY DEF Config!InForce, Config!Published
<1>2. Config!ActiveVersionServed'
  BY <1>1 DEF ConfigInv, ConfigTypeOK, Config!ActiveVersionServed, Config!ConfiguredAlways,
     Config!LastChosenInForce
<1>3. ConfigAlone'
  <2> SUFFICES ASSUME ~raced' PROVE (/\ \A b, c \in Config!UnderWay : b = c
                                     /\ \A b \in Admins :
                                          /\ change[b].pc = "off" => change[b].found = Config!InForce
                                          /\ change[b].pc \in {"on", "commit"} => change[b].off = Config!InForce)'
    BY DEF ConfigAlone
  <2>1. \A b \in Admins \ {a} : b \notin Config!UnderWay'
    BY DEF Config!UnderWay
  <2> QED
    BY <2>1, <1>1 DEF ConfigInv, ConfigAlone, Config!UnderWay
<1> QED
  BY <1>2, <1>3 DEF ConfigInv

LEMMA ConfigBeginPreserves ==
  ASSUME ConfigInv, NEW a \in Admins, NEW v \in Versions, Config!Begin(a, v)
  PROVE  ConfigInv'
<1> USE DEF Config!Begin, Config!NoChange
<1>1. ConfigTypeOK' /\ CommitsItsOwn'
  BY DEF ConfigInv, ConfigTypeOK, CommitsItsOwn, Changes, Config!Published
<1>2. ~raced' => \A b \in Admins \ {a} : b \notin Config!UnderWay
  BY DEF Config!UnderWay
<1> QED
  BY <1>1, <1>2, ConfigQuietStep DEF ConfigInv, ConfigTypeOK

\* A transaction goes on with a record of the right type.
LEMMA ConfigMovesOn ==
  ASSUME ConfigInv, NEW a \in Admins, NEW c \in Changes, change' = [change EXCEPT ![a] = c],
         UNCHANGED <<active, raced>>, c.pc = "commit" => c.on = {c.version}
  PROVE  ConfigTypeOK' /\ CommitsItsOwn'
  BY DEF ConfigInv, ConfigTypeOK, CommitsItsOwn, Config!Published

\* Without a race, the transaction that takes a step is the only one.
LEMMA ConfigOthers ==
  ASSUME ConfigInv, NEW a \in Admins, change[a].pc # "none", ~raced
  PROVE  \A b \in Admins \ {a} : b \notin Config!UnderWay
  BY ConfigUnderWayByStep DEF ConfigInv, ConfigAlone

LEMMA ConfigScanPreserves ==
  ASSUME ConfigInv, NEW a \in Admins, Config!Scan(a)
  PROVE  ConfigInv'
<1> DEFINE c == [change[a] EXCEPT !.pc = "off", !.found = {v \in Config!Published : active[v]}]
<1>0. change[a] \in Changes /\ Config!Published \subseteq Versions
  BY DEF Config!Scan, ConfigInv, ConfigTypeOK, Config!NoChange
<1>a. c \in Changes /\ (c.pc = "commit" => c.on = {c.version})
  BY <1>0 DEF Changes
<1>b. change' = [change EXCEPT ![a] = c]
  BY <1>0 DEF Config!Scan, ConfigInv, ConfigTypeOK, Changes
<1> HIDE DEF c
<1>1. ConfigTypeOK' /\ CommitsItsOwn'
  BY <1>a, <1>b, ConfigMovesOn DEF Config!Scan
<1>2. change'[a].pc = "off" /\ change'[a].found = Config!InForce
  BY DEF Config!Scan, Config!InForce, ConfigInv, ConfigTypeOK, Changes, Config!NoChange
<1> QED
  BY <1>1, <1>2, ConfigOthers, ConfigQuietStep DEF Config!Scan, ConfigInv, ConfigTypeOK

LEMMA ConfigDeactivatePreserves ==
  ASSUME ConfigInv, NEW a \in Admins, Config!Deactivate(a)
  PROVE  ConfigInv'
<1> DEFINE c == [change[a] EXCEPT !.pc = "on", !.off = {v \in change[a].found : active[v]}]
<1>0. change[a] \in Changes /\ Config!Published \subseteq Versions
  BY DEF Config!Deactivate, ConfigInv, ConfigTypeOK, Config!NoChange
<1>a. c \in Changes /\ (c.pc = "commit" => c.on = {c.version})
  BY <1>0 DEF Changes
<1>b. change' = [change EXCEPT ![a] = c]
  BY <1>0 DEF Config!Deactivate, ConfigInv, ConfigTypeOK, Changes
<1> HIDE DEF c
<1>1. ConfigTypeOK' /\ CommitsItsOwn'
  BY <1>a, <1>b, ConfigMovesOn DEF Config!Deactivate
<1>2. change'[a].pc = "on" /\ change'[a].off = {v \in change[a].found : active[v]}
  BY DEF Config!Deactivate, ConfigInv, ConfigTypeOK, Changes, Config!NoChange
<1>3. ~raced => change'[a].off = Config!InForce
  BY <1>2 DEF Config!Deactivate, ConfigInv, ConfigAlone, Config!InForce
<1> QED
  BY <1>1, <1>2, <1>3, ConfigOthers, ConfigQuietStep DEF Config!Deactivate, ConfigInv, ConfigTypeOK

LEMMA ConfigPutPreserves ==
  ASSUME ConfigInv, NEW a \in Admins, Config!Put(a)
  PROVE  ConfigInv'
<1> DEFINE c == [change[a] EXCEPT !.pc = "commit", !.on = {change[a].version}]
<1>0. change[a] \in Changes /\ Config!Published \subseteq Versions
  BY DEF Config!Put, ConfigInv, ConfigTypeOK, Config!NoChange
<1>a. c \in Changes /\ (c.pc = "commit" => c.on = {c.version})
  BY <1>0 DEF Changes
<1>b. change' = [change EXCEPT ![a] = c]
  BY <1>0 DEF Config!Put, ConfigInv, ConfigTypeOK, Changes
<1> HIDE DEF c
<1>1. ConfigTypeOK' /\ CommitsItsOwn'
  BY <1>a, <1>b, ConfigMovesOn DEF Config!Put
<1>2. change'[a].pc = "commit" /\ change'[a].off = change[a].off
  BY DEF Config!Put, ConfigInv, ConfigTypeOK, Changes, Config!NoChange
<1> QED
  BY <1>1, <1>2, ConfigOthers, ConfigQuietStep DEF Config!Put, ConfigInv, ConfigTypeOK, ConfigAlone

LEMMA ConfigRollBackPreserves ==
  ASSUME ConfigInv, NEW a \in Admins, Config!RollBack(a)
  PROVE  ConfigInv'
<1>1. ConfigTypeOK' /\ CommitsItsOwn'
  BY DEF Config!RollBack, ConfigInv, ConfigTypeOK, CommitsItsOwn, Changes, Config!Published,
     Config!NoChange
<1>2. change[a].pc # "none" /\ change'[a].pc = "none"
  BY ConfigUnderWayByStep DEF Config!RollBack, ConfigInv, ConfigTypeOK, Config!UnderWay,
     Config!NoChange
<1> QED
  BY <1>1, <1>2, ConfigOthers, ConfigQuietStep DEF Config!RollBack, ConfigInv, ConfigTypeOK

LEMMA ConfigCommitPreserves ==
  ASSUME ConfigInv, NEW a \in Admins, Config!Commit(a)
  PROVE  ConfigInv'
<1>1. /\ change[a].on = {change[a].version} /\ change[a].version \in Versions
      /\ change[a].pc = "commit"
  BY DEF Config!Commit, ConfigInv, ConfigTypeOK, CommitsItsOwn, Changes, Config!NoChange
<1>2. ConfigTypeOK' /\ CommitsItsOwn'
  BY DEF Config!Commit, ConfigInv, ConfigTypeOK, CommitsItsOwn, Changes, Config!Published,
     Config!NoChange
<1>3. Config!Published' = Config!Published \cup change[a].on
  BY DEF Config!Commit, Config!Published
<1>4. Config!InForce' = change[a].on \cup (Config!InForce \ change[a].off)
  BY <1>3 DEF Config!Commit, Config!InForce
<1>5. Config!ConfiguredAlways'
  BY <1>1, <1>4 DEF Config!ConfiguredAlways
<1>6. Config!LastChosenInForce' /\ ConfigAlone'
  <2> SUFFICES ASSUME ~raced'
               PROVE (/\ Config!InForce = chosen
                      /\ \A b, c \in Config!UnderWay : b = c
                      /\ \A b \in Admins :
                           /\ change[b].pc = "off" => change[b].found = Config!InForce
                           /\ change[b].pc \in {"on", "commit"} => change[b].off = Config!InForce)'
    BY DEF Config!LastChosenInForce, ConfigAlone
  <2>1. ~raced
    BY DEF Config!Commit
  <2>2. Config!InForce' = chosen'
    BY <1>1, <1>4, <2>1 DEF Config!Commit, ConfigInv, ConfigAlone
  <2>3. \A b \in Admins : change'[b] = Config!NoChange
    BY <1>1, <2>1, ConfigOthers DEF Config!Commit, Config!UnderWay, ConfigInv, ConfigTypeOK
  <2> QED
    BY <2>2, <2>3 DEF Config!UnderWay, Config!NoChange
<1> QED
  BY <1>2, <1>5, <1>6 DEF ConfigInv, Config!ActiveVersionServed

\* Whichever publications and activations overlap and however they end, some version is in
\* force from the first on; and while they do not overlap, it is the one chosen last alone.
THEOREM ActiveVersionServedCorrect == Config!Spec => []ActiveVersionServed
<1>1. Config!Init => ConfigInv
  <2> SUFFICES ASSUME Config!Init PROVE ConfigInv
    OBVIOUS
  <2>1. Config!Published = {} /\ Config!InForce = {} /\ Config!UnderWay = {}
    BY DEF Config!Init, Config!Published, Config!InForce, Config!UnderWay
  <2> QED
    BY <2>1 DEF Config!Init, ConfigInv, ConfigTypeOK, CommitsItsOwn, ConfigAlone,
       Config!ActiveVersionServed, Config!ConfiguredAlways,
         Config!LastChosenInForce, Config!InForce, Config!Published, Config!NoChange,
         Config!UnderWay
<1>2. ConfigInv /\ [Config!Next]_(Config!vars) => ConfigInv'
  <2> SUFFICES ASSUME ConfigInv, [Config!Next]_(Config!vars) PROVE ConfigInv'
    OBVIOUS
  <2>1. CASE UNCHANGED Config!vars
    BY <2>1 DEF ConfigInv, ConfigTypeOK, Config!vars, CommitsItsOwn, ConfigAlone,
       Config!ActiveVersionServed, Config!ConfiguredAlways,
                Config!LastChosenInForce, Config!InForce, Config!Published, Config!UnderWay
  <2>2. ASSUME NEW a \in Admins, NEW v \in Versions, Config!Publish(a, v) \/ Config!Activate(a, v)
        PROVE  ConfigInv'
    BY <2>2, ConfigBeginPreserves DEF Config!Publish, Config!Activate
  <2>3. ASSUME NEW a \in Admins,
               Config!Scan(a) \/ Config!Deactivate(a) \/ Config!Put(a) \/ Config!Commit(a) \/ Config!RollBack(a)
        PROVE  ConfigInv'
    BY <2>3, ConfigScanPreserves, ConfigDeactivatePreserves, ConfigPutPreserves,
       ConfigCommitPreserves,
       ConfigRollBackPreserves
  <2> QED
    BY <2>1, <2>2, <2>3 DEF Config!Next
<1>3. ConfigInv => ActiveVersionServed
  BY DEF ConfigInv, ActiveVersionServed
<1> QED
  BY <1>1, <1>2, <1>3, PTL DEF Config!Spec

-----------------------------------------------------------------------------
(* ProviderCredentials                                                     *)
(*                                                                         *)
(* A revoked secret stays out of use because no two rows hold the same and a *)
(* row only stops being revoked when it is given another.  A row tells its   *)
(* secret because a request that is alone at its row still finds it as read. *)

RowType == [secret : Secrets, status : {"valid", "invalid", "revoked"}, revoked : BOOLEAN,
            preview : Secrets]

Edits == [op : {"rotate", "revoke", "test"}, id : Credentials, read : RowType]

ByokTypeOK ==
  /\ Byok!Ids \subseteq Credentials /\ rows \in [Byok!Ids -> RowType]
  /\ edit \in [Editors -> Edits \cup {Byok!NoEdit}]
  /\ entered \subseteq Secrets
  /\ crossed \in BOOLEAN

\* A secret is entered once, and a row that holds a revoked one is revoked.
SecretsApart ==
  /\ retired \subseteq entered
  /\ \A c \in Byok!Ids : rows[c].secret \in entered
  /\ \A c, d \in Byok!Ids : rows[c].secret = rows[d].secret => c = d
  /\ \A c \in Byok!Ids : rows[c].secret \in retired => rows[c].revoked

Working(e) == edit[e] # Byok!NoEdit

\* Of requests that do not cross each is alone at its row, which is as it has read it;
\* one that tests or revokes has read a row that is not revoked.
ReadsHold ==
  /\ \A e \in Editors : Working(e) => edit[e].id \in Byok!Ids
  /\ ~crossed =>
       /\ \A e, f \in Editors :
            Working(e) /\ Working(f) /\ edit[e].id = edit[f].id => e = f
       /\ \A e \in Editors :
            Working(e) => /\ edit[e].read = rows[edit[e].id]
                          /\ edit[e].op # "rotate" => ~edit[e].read.revoked

ByokInv == ByokTypeOK /\ SecretsApart /\ ReadsHold /\ Byok!RowTellsItsSecret

LEMMA WorkingByOp ==
  ASSUME ByokTypeOK
  PROVE  \A e \in Editors : /\ Working(e) <=> edit[e].op # "none"
                            /\ Working(e) => edit[e] \in Edits
  BY DEF ByokTypeOK, Working, Byok!NoEdit, Edits

\* What a row must be for RowTellsItsSecret.
Tells(row) ==
  /\ row.preview = row.secret
  /\ row.revoked <=> row.status = "revoked"
  /\ row.status = "invalid" => ~Byok!WellFormed(row.secret)

\* A request writes its row and ends.
LEMMA WriteKeepsReads ==
  ASSUME ByokInv, NEW e \in Editors, Working(e), NEW row \in RowType,
         rows' = [rows EXCEPT ![edit[e].id] = row], Byok!End(e), UNCHANGED crossed,
         entered' \subseteq Secrets,
         ~crossed => Tells(row)
  PROVE  ByokTypeOK' /\ ReadsHold' /\ Byok!RowTellsItsSecret' /\ Byok!Ids' = Byok!Ids
<1> DEFINE c == edit[e].id
<1>1. c \in Byok!Ids
  BY DEF ByokInv, ReadsHold
<1>2. /\ rows' \in [Byok!Ids -> RowType] /\ Byok!Ids' = Byok!Ids
      /\ \A d \in Byok!Ids : rows'[d] = IF d = c THEN row ELSE rows[d]
  BY <1>1 DEF ByokInv, ByokTypeOK, Byok!Ids
<1>3. ByokTypeOK'
  BY <1>2 DEF ByokInv, ByokTypeOK, Byok!End
<1>4. \A f \in Editors : Working(f)' => f # e /\ Working(f) /\ edit'[f] = edit[f]
  BY DEF Working, Byok!End, ByokInv, ByokTypeOK
<1>5. ~crossed => \A f \in Editors : Working(f)' => edit[f].id # c
  BY <1>4 DEF ByokInv, ReadsHold
<1>6. ReadsHold'
  BY <1>2, <1>4, <1>5 DEF ByokInv, ReadsHold
<1>7. Byok!RowTellsItsSecret'
  BY <1>2 DEF ByokInv, Byok!RowTellsItsSecret, Tells
<1> QED
  BY <1>2, <1>3, <1>6, <1>7

LEMMA ByokRotatePreserves ==
  ASSUME ByokInv, NEW e \in Editors, NEW s \in Secrets, Byok!Rotate(e, s)
  PROVE  ByokInv'
<1> DEFINE row == Byok!Row(s, "valid", FALSE, s)
<1>1. Working(e)
  BY WorkingByOp DEF Byok!Rotate, ByokInv
<1>2. row \in RowType /\ Tells(row) /\ row.secret = s
  BY DEF Byok!Rotate, Byok!Row, RowType, Tells
<1>3. rows' = [rows EXCEPT ![edit[e].id] = row]
  BY DEF Byok!Rotate
<1> HIDE DEF row
<1>4. ByokTypeOK' /\ ReadsHold' /\ Byok!RowTellsItsSecret' /\ Byok!Ids' = Byok!Ids
  BY <1>1, <1>2, <1>3, WriteKeepsReads DEF Byok!Rotate, ByokInv, ByokTypeOK
<1>5. \A d \in Byok!Ids : rows'[d] = IF d = edit[e].id THEN row ELSE rows[d]
  BY <1>3 DEF ByokInv, ByokTypeOK
<1>6. /\ s \notin entered /\ s \notin retired
      /\ entered' = entered \cup {s} /\ retired' = retired
  BY DEF Byok!Rotate, ByokInv, SecretsApart
<1>7. SecretsApart'
  BY <1>2, <1>4, <1>5, <1>6 DEF SecretsApart, ByokInv
<1> QED
  BY <1>4, <1>7 DEF ByokInv

LEMMA ByokRevokePreserves ==
  ASSUME ByokInv, NEW e \in Editors, Byok!Revoke(e)
  PROVE  ByokInv'
<1> DEFINE c == edit[e].id
           row == [rows[c] EXCEPT !.status = "revoked", !.revoked = TRUE,
                                  !.preview = edit[e].read.preview]
<1>1. Working(e) /\ edit[e] \in Edits /\ c \in Byok!Ids /\ rows[c] \in RowType
  BY WorkingByOp DEF Byok!Revoke, ByokInv, ReadsHold, ByokTypeOK
<1>2. row \in RowType /\ row.secret = rows[c].secret /\ row.revoked
  BY <1>1 DEF RowType, Edits
<1>3. ~crossed => Tells(row)
  BY <1>1 DEF Tells, ByokInv, ReadsHold, Byok!RowTellsItsSecret, RowType
<1>4. rows' = [rows EXCEPT ![c] = row]
  BY <1>1 DEF Byok!Revoke, ByokInv, ByokTypeOK
<1>5. retired' = retired \cup {rows[c].secret} /\ entered' = entered
  BY DEF Byok!Revoke
<1> HIDE DEF row
<1>6. ByokTypeOK' /\ ReadsHold' /\ Byok!RowTellsItsSecret' /\ Byok!Ids' = Byok!Ids
  BY <1>1, <1>2, <1>3, <1>4, WriteKeepsReads DEF Byok!Revoke, ByokInv, ByokTypeOK
<1>7. SecretsApart'
  BY <1>1, <1>2, <1>4, <1>5, <1>6 DEF SecretsApart, ByokInv, ByokTypeOK
<1> QED
  BY <1>6, <1>7 DEF ByokInv

LEMMA ByokTestPreserves ==
  ASSUME ByokInv, NEW e \in Editors, Byok!Test(e)
  PROVE  ByokInv'
<1> DEFINE c == edit[e].id
           verdict == IF Byok!WellFormed(edit[e].read.secret) THEN "valid" ELSE "invalid"
           row == [rows[c] EXCEPT !.status = verdict, !.preview = edit[e].read.preview]
<1>1. /\ Working(e) /\ edit[e] \in Edits /\ c \in Byok!Ids /\ rows[c] \in RowType
      /\ edit[e].op = "test"
  BY WorkingByOp DEF Byok!Test, ByokInv, ReadsHold, ByokTypeOK
<1>2. row \in RowType /\ row.secret = rows[c].secret /\ row.revoked = rows[c].revoked
  BY <1>1 DEF RowType, Edits
<1>3. ~crossed => Tells(row)
  BY <1>1 DEF Tells, ByokInv, ReadsHold, Byok!RowTellsItsSecret, RowType
<1>4. rows' = [rows EXCEPT ![c] = row]
  BY <1>1 DEF Byok!Test, ByokInv, ByokTypeOK
<1>5. retired' = retired /\ entered' = entered
  BY DEF Byok!Test
<1> HIDE DEF row
<1>6. ByokTypeOK' /\ ReadsHold' /\ Byok!RowTellsItsSecret' /\ Byok!Ids' = Byok!Ids
  BY <1>1, <1>2, <1>3, <1>4, WriteKeepsReads DEF Byok!Test, ByokInv, ByokTypeOK
<1>7. SecretsApart'
  BY <1>1, <1>2, <1>4, <1>5, <1>6 DEF SecretsApart, ByokInv, ByokTypeOK
<1> QED
  BY <1>6, <1>7 DEF ByokInv

LEMMA ByokCreatePreserves ==
  ASSUME ByokInv, NEW c \in Credentials, NEW s \in Secrets, Byok!Create(c, s)
  PROVE  ByokInv'
<1> DEFINE row == Byok!Row(s, "valid", FALSE, s)
<1>1. row \in RowType /\ Tells(row) /\ row.secret = s
  BY DEF Byok!Create, Byok!Row, RowType, Tells
<1>2. /\ Byok!Ids' = Byok!Ids \cup {c} /\ c \notin Byok!Ids
      /\ rows'[c] = row
      /\ \A d \in Byok!Ids : rows'[d] = rows[d]
      /\ rows' \in [Byok!Ids' -> RowType]
  BY <1>1 DEF Byok!Create, Byok!Ids, ByokInv, ByokTypeOK
<1> HIDE DEF row
<1>3. ByokTypeOK'
  BY <1>2 DEF Byok!Create, ByokInv, ByokTypeOK
<1>4. SecretsApart'
  <2>1. /\ s \notin entered /\ s \notin retired
        /\ entered' = entered \cup {s} /\ retired' = retired
    BY DEF Byok!Create, ByokInv, SecretsApart
  <2> QED
    BY <1>1, <1>2, <2>1 DEF ByokInv, SecretsApart
<1>5. ReadsHold'
  BY <1>2 DEF Byok!Create, ByokInv, ReadsHold, Working
<1>6. Byok!RowTellsItsSecret'
  BY <1>1, <1>2 DEF Byok!Create, ByokInv, Byok!RowTellsItsSecret, Tells
<1> QED
  BY <1>3, <1>4, <1>5, <1>6 DEF ByokInv

LEMMA ByokBeginPreserves ==
  ASSUME ByokInv, NEW e \in Editors, NEW c \in Credentials,
         NEW op \in {"rotate", "revoke", "test"},
         Byok!Begin(e, op, c), op # "rotate" => ~rows[c].revoked
  PROVE  ByokInv'
<1> DEFINE q == [op |-> op, id |-> c, read |-> rows[c]]
<1>1. q \in Edits /\ edit' = [edit EXCEPT ![e] = q]
  BY DEF Byok!Begin, ByokInv, ByokTypeOK, Edits
<1>2. q.id = c /\ q.read = rows[c] /\ q.op = op
  OBVIOUS
<1> HIDE DEF q
<1>3. ByokTypeOK' /\ SecretsApart' /\ Byok!RowTellsItsSecret'
  BY <1>1 DEF Byok!Begin, ByokInv, ByokTypeOK, SecretsApart, Byok!RowTellsItsSecret, Byok!Ids
<1>4. ReadsHold'
  <2>1. \A f \in Editors : edit'[f] = IF f = e THEN q ELSE edit[f]
    BY <1>1 DEF ByokInv, ByokTypeOK
  <2>2. Byok!Ids' = Byok!Ids /\ rows' = rows /\ c \in Byok!Ids
    BY DEF Byok!Begin, Byok!Ids
  <2>3. ~crossed' => ~crossed /\ \A f \in Editors : Working(f) => edit[f].id # c
    BY DEF Byok!Begin, Working
  <2>4. \A f \in Editors \ {e} : Working(f)' <=> Working(f)
    BY <2>1 DEF Working
  <2> QED
    BY <1>2, <2>1, <2>2, <2>3, <2>4 DEF ByokInv, ReadsHold
<1> QED
  BY <1>3, <1>4 DEF ByokInv

LEMMA ByokGiveUpPreserves ==
  ASSUME ByokInv, NEW e \in Editors, Byok!GiveUp(e)
  PROVE  ByokInv'
  BY DEF Byok!GiveUp, Byok!End, ByokInv, ByokTypeOK, SecretsApart, ReadsHold,
     Byok!RowTellsItsSecret, Byok!Ids, Working

\* A secret once revoked is out of use for good, and a row says what it holds as long as
\* requests for it do not cross, however many there are.
THEOREM CredentialsHoldCorrect == Byok!Spec => []CredentialsHold
<1>1. Byok!Init => ByokInv
  <2> SUFFICES ASSUME Byok!Init PROVE ByokInv
    OBVIOUS
  <2>1. PICK c \in Credentials, s \in Secrets :
           rows = [d \in {c} |-> Byok!Row(s, "valid", FALSE, s)] /\ entered = {s}
    BY DEF Byok!Init
  <2>2. Byok!Ids = {c} /\ rows[c] = Byok!Row(s, "valid", FALSE, s)
    BY <2>1 DEF Byok!Ids
  <2>3. Byok!Row(s, "valid", FALSE, s) \in RowType
    BY DEF Byok!Row, RowType
  <2> QED
    BY <2>1, <2>2, <2>3 DEF Byok!Init, ByokInv, ByokTypeOK, SecretsApart, ReadsHold,
       Byok!RowTellsItsSecret, Byok!Ids, Working, Byok!Row,
         RowType
<1>2. ByokInv /\ [Byok!Next]_(Byok!vars) => ByokInv'
  <2> SUFFICES ASSUME ByokInv, [Byok!Next]_(Byok!vars) PROVE ByokInv'
    OBVIOUS
  <2>1. CASE UNCHANGED Byok!vars
    BY <2>1 DEF Byok!vars, ByokInv, ByokTypeOK, SecretsApart, ReadsHold,
       Byok!RowTellsItsSecret, Byok!Ids, Working
  <2>2. ASSUME NEW c \in Credentials, NEW s \in Secrets, Byok!Create(c, s) PROVE ByokInv'
    BY <2>2, ByokCreatePreserves
  <2>3. ASSUME NEW e \in Editors, NEW c \in Credentials,
               Byok!BeginRotate(e, c) \/ Byok!BeginRevoke(e, c) \/ Byok!BeginTest(e, c)
        PROVE  ByokInv'
    BY <2>3, ByokBeginPreserves DEF Byok!BeginRotate, Byok!BeginRevoke, Byok!BeginTest
  <2>4. ASSUME NEW e \in Editors, NEW s \in Secrets, Byok!Rotate(e, s) PROVE ByokInv'
    BY <2>4, ByokRotatePreserves
  <2>5. ASSUME NEW e \in Editors, Byok!Revoke(e) \/ Byok!Test(e) \/ Byok!GiveUp(e) PROVE ByokInv'
    BY <2>5, ByokRevokePreserves, ByokTestPreserves, ByokGiveUpPreserves
  <2> QED
    BY <2>1, <2>2, <2>3, <2>4, <2>5 DEF Byok!Next
<1>3. ByokInv => CredentialsHold
  BY DEF ByokInv, SecretsApart, CredentialsHold, Byok!CredentialsHold, Byok!RevokedStaysOut,
     Byok!Usable
<1> QED
  BY <1>1, <1>2, <1>3, PTL DEF Byok!Spec

-----------------------------------------------------------------------------
(* RateLimit                                                               *)
(*                                                                         *)
(* A store that keeps to the limit has one window at a time for a key.  The   *)
(* invariant ties what the store has on record of its last window to what it  *)
(* has allowed since that began, with no more than the limit in the time of a *)
(* window before.  So no time as long as a window holds more than twice the    *)
(* limit, and a request that is one too many finds the limit used up.  Once    *)
(* a process has dropped a record early, or counted with a time that has       *)
(* passed, there is no such tie any more.                                   *)

Times == 0 .. MaxClock

\* A count, and when it expires.
Windows == [count : Nat, until : Nat]

\* A record of a process.
BucketTyped(b) ==
  /\ b = [key |-> b.key, count |-> b.count, until |-> b.until, place |-> b.place]
  /\ b.key \in Keys /\ b.count \in Nat /\ b.until \in Nat

\* The time of a request is that of its arrival.
CallTyped(c) == c.key \in Keys /\ c.process \in Processes /\ c.now \in 1 .. clock

RateTyped ==
  /\ clock \in 1 .. MaxClock
  /\ counters \in [Keys -> Windows]
  /\ buckets = [p \in Processes |-> buckets[p]]
  /\ \A p \in Processes : \A b \in buckets[p] : BucketTyped(b)
  /\ call = [h \in Handlers |-> call[h]]
  /\ \A h \in Handlers : call[h] # Rate!NoCall => CallTyped(call[h])
  /\ used \in [Rate!Stores -> [Keys -> [0 .. MaxClock -> Nat]]]
  /\ denied \in [Rate!Stores -> [Keys -> SUBSET (1 .. clock)]]
  /\ lingered \in BOOLEAN

\* The time that a window before t ends at.
Back(t) == IF t < Window THEN 0 ELSE t - Window

\* The last window of a store: what it has counted since it began, and how little before.
Fits(a, c) ==
  IF c.until = 0
    THEN c.count = 0 /\ \A t \in 0 .. MaxClock : a[t] = 0
    ELSE LET from == c.until - Window
         IN  /\ from \in 1 .. clock
             /\ c.count >= 1
             /\ \A t \in 0 .. MaxClock : t >= clock \/ t >= c.until - 1 => a[t] = a[clock]
             /\ a[clock] - a[from - 1] = IF c.count <= Limit THEN c.count ELSE Limit
             /\ a[from - 1] - a[Back(from)] <= Limit

\* What a store has allowed up to a time grows with the time.
Grows(a) == \A t, u \in 0 .. MaxClock : t <= u => a[t] <= a[u]

\* What the limit has to be for the times so far.
Kept(a, d) ==
  \A t \in 1 .. clock : /\ a[t] - a[Back(t)] <= 2 * Limit
                        /\ t \in d => a[t] - a[Back(t)] >= Limit

\* The store's own record of the window, if it still has one.
Records(s, k, c) ==
  IF s = Rate!Redis THEN counters[k] = c
  ELSE /\ \A b \in buckets[s] : b.key = k => b.count = c.count /\ b.until = c.until
       /\ (\A b \in buckets[s] : b.key # k) => c.until <= clock

\* What is allowed agrees with the window on record.
Follows(s, k) ==
  /\ Grows(used[s][k])
  /\ Kept(used[s][k], denied[s][k])
  /\ \E c \in Windows : Records(s, k, c) /\ Fits(used[s][k], c)

RateInv == RateTyped /\ \A s \in Rate!Stores, k \in Keys : Rate!Keeps(s, k) => Follows(s, k)

\* A window ends before it and no earlier than a window back, later for a later time.
LEMMA BackIs ==
  ASSUME NEW t \in 1 .. MaxClock
  PROVE  Back(t) \in Times /\ Back(t) < t /\ Back(t) >= t - Window
         /\ \A u \in 1 .. MaxClock : u <= t => Back(u) <= Back(t)
BY RateAssumption DEF Back, Times

\* A window that has not ended lies within the last window before now.
LEMMA NowKept ==
  ASSUME clock \in 1 .. MaxClock, NEW a \in [Times -> Nat], Grows(a), NEW c \in Windows, Fits(a, c),
         c.until > clock
  PROVE  /\ a[clock] - a[Back(clock)] <= 2 * Limit
         /\ c.count >= Limit => a[clock] - a[Back(clock)] >= Limit
<1> DEFINE from == c.until - Window
<1>1. /\ c.count \in Nat /\ c.until \in Nat /\ c.until # 0
      /\ Limit \in Nat /\ Window \in Nat \ {0} /\ MaxClock \in Nat
      /\ clock \in Nat /\ clock <= MaxClock
  BY RateAssumption DEF Windows
<1>2. /\ from \in 1 .. clock
      /\ a[clock] - a[from - 1] = IF c.count <= Limit THEN c.count ELSE Limit
      /\ a[from - 1] - a[Back(from)] <= Limit
  BY <1>1 DEF Fits
<1>3. from > clock - Window
  BY <1>1
<1> HIDE DEF from
<1>4. from \in 1 .. MaxClock /\ from - 1 \in Times /\ clock \in Times
  BY <1>1, <1>2 DEF Times
<1>5. /\ Back(from) \in Times /\ Back(clock) \in Times /\ Back(from) <= Back(clock)
      /\ Back(clock) <= from - 1
  <2>1. Back(clock) \in Times /\ Back(from) <= Back(clock) /\ Back(from) \in Times
    BY <1>1, <1>2, <1>4, BackIs
  <2>2. Back(clock) <= from - 1
    BY <1>1, <1>2, <1>3 DEF Back
  <2> QED
    BY <2>1, <2>2
<1>6. a[Back(from)] <= a[Back(clock)] /\ a[Back(clock)] <= a[from - 1]
  BY <1>4, <1>5 DEF Grows, Times
<1>7. a[clock] \in Nat /\ a[from - 1] \in Nat /\ a[Back(from)] \in Nat /\ a[Back(clock)] \in Nat
  BY <1>4, <1>5
<1> QED
  BY <1>1, <1>2, <1>6, <1>7

\* The window after one more request.
Next1(c) ==
  IF c.until > clock THEN [count |-> c.count + 1, until |-> c.until]
  ELSE [count |-> 1, until |-> clock + Window]

\* What the store has allowed after a request that was the nth of its window.
Used1(a, n) ==
  IF n <= Limit THEN [t \in Times |-> IF t >= clock THEN a[t] + 1 ELSE a[t]] ELSE a

\* A request allowed counts for now and after, one that is not for no time.
LEMMA Used1Is ==
  ASSUME clock \in 1 .. MaxClock, NEW a \in [Times -> Nat], Grows(a), NEW n \in Nat
  PROVE  /\ Used1(a, n) \in [Times -> Nat]
         /\ Grows(Used1(a, n))
         /\ \A t \in Times : /\ t < clock => Used1(a, n)[t] = a[t]
                             /\ t >= clock => Used1(a, n)[t] = IF n <= Limit THEN a[t] + 1 ELSE a[t]
<1> DEFINE a2 == Used1(a, n)
<1>1. \A t \in Times : a2[t] = IF n <= Limit /\ t >= clock THEN a[t] + 1 ELSE a[t]
  BY DEF Used1
<1>2. a2 \in [Times -> Nat]
  BY DEF Used1
<1> HIDE DEF a2
<1>3. \A t \in Times : t \in Int /\ a[t] \in Nat
  BY DEF Times
<1>4. Grows(a2)
  <2> SUFFICES ASSUME NEW t \in Times, NEW u \in Times, t <= u PROVE a2[t] <= a2[u]
    BY DEF Grows, Times
  <2>1. a[t] <= a[u]
    BY DEF Grows, Times
  <2> QED
    BY <1>1, <1>3, <2>1
<1>5. \A t \in Times : /\ t < clock => a2[t] = a[t]
                       /\ t >= clock => a2[t] = IF n <= Limit THEN a[t] + 1 ELSE a[t]
  <2> SUFFICES ASSUME NEW t \in Times
               PROVE  /\ t < clock => a2[t] = a[t]
                      /\ t >= clock => a2[t] = IF n <= Limit THEN a[t] + 1 ELSE a[t]
    OBVIOUS
  <2>1. t \in Int /\ clock \in Int
    BY <1>3
  <2>2. a2[t] = IF n <= Limit /\ t >= clock THEN a[t] + 1 ELSE a[t]
    BY <1>1
  <2> QED
    BY <2>1, <2>2
<1> QED
  BY <1>2, <1>4, <1>5 DEF a2

\* A request of a window that has not ended.
LEMMA FitsWithin ==
  ASSUME clock \in 1 .. MaxClock, NEW a \in [Times -> Nat], Grows(a), NEW c \in Windows, Fits(a, c),
         c.until > clock
  PROVE  Fits(Used1(a, c.count + 1), [count |-> c.count + 1, until |-> c.until])
<1> DEFINE from == c.until - Window
           n == c.count + 1
           a2 == Used1(a, n)
<1>1. /\ c.count \in Nat /\ c.until \in Nat /\ c.until # 0
      /\ Limit \in Nat /\ Window \in Nat \ {0} /\ MaxClock \in Nat
      /\ clock \in Nat /\ clock <= MaxClock /\ n \in Nat
  BY RateAssumption DEF Windows
<1>2. /\ from \in 1 .. clock /\ c.count >= 1
      /\ \A t \in Times : t >= clock \/ t >= c.until - 1 => a[t] = a[clock]
      /\ a[clock] - a[from - 1] = IF c.count <= Limit THEN c.count ELSE Limit
      /\ a[from - 1] - a[Back(from)] <= Limit
  BY <1>1 DEF Fits, Times
<1>3. /\ a2 \in [Times -> Nat]
      /\ \A t \in Times : /\ t < clock => a2[t] = a[t]
                          /\ t >= clock => a2[t] = IF n <= Limit THEN a[t] + 1 ELSE a[t]
  BY <1>1, Used1Is
<1> HIDE DEF a2
<1>4. from - 1 \in Times /\ from - 1 < clock /\ clock \in Times
  <2>1. from \in 1 .. clock /\ clock \in Nat /\ clock <= MaxClock /\ MaxClock \in Nat
    BY <1>1, <1>2
  <2> HIDE DEF from
  <2>2. from - 1 \in Nat /\ from - 1 < clock
    BY <2>1
  <2> QED
    BY <2>1, <2>2 DEF Times
<1>5. Back(from) \in Times /\ Back(from) < clock
  <2> HIDE DEF from
  <2>1. from \in 1 .. MaxClock
    BY <1>1, <1>2
  <2>2. Back(from) \in Times /\ Back(from) < from
    BY <2>1, BackIs
  <2> QED
    BY <1>1, <1>2, <2>2 DEF Times
<1>6. a2[from - 1] = a[from - 1] /\ a2[Back(from)] = a[Back(from)]
      /\ a2[clock] = IF n <= Limit THEN a[clock] + 1 ELSE a[clock]
  <2>1. a2[from - 1] = a[from - 1]
    BY <1>3, <1>4
  <2>2. a2[Back(from)] = a[Back(from)]
    BY <1>3, <1>5
  <2>3. clock >= clock
    BY <1>1
  <2>4. a2[clock] = IF n <= Limit THEN a[clock] + 1 ELSE a[clock]
    BY <1>3, <1>4, <2>3
  <2> QED
    BY <2>1, <2>2, <2>4
<1>7. \A t \in Times : t >= clock \/ t >= c.until - 1 => a2[t] = a2[clock]
  <2> SUFFICES ASSUME NEW t \in Times, t >= clock \/ t >= c.until - 1 PROVE a2[t] = a2[clock]
    OBVIOUS
  <2>1. t \in Int /\ t >= clock
    BY <1>1 DEF Times
  <2>2. a[t] = a[clock] /\ a2[t] = IF n <= Limit THEN a[t] + 1 ELSE a[t]
    BY <1>2, <1>3, <2>1
  <2> QED
    BY <1>6, <2>2
<1>8. a2[clock] - a2[from - 1] = IF n <= Limit THEN n ELSE Limit
  <2>1. a[clock] \in Nat /\ a[from - 1] \in Nat
    BY <1>4
  <2> HIDE DEF from
  <2> QED
    BY <1>1, <1>2, <1>6, <2>1
<1>9. a2[from - 1] - a2[Back(from)] <= Limit
  BY <1>2, <1>6
<1> DEFINE m == [count |-> n, until |-> c.until]
<1>10. m.until = c.until /\ m.count = n /\ n >= 1
  BY <1>1
<1> HIDE DEF m, n
<1>11. Fits(a2, m)
  BY <1>1, <1>2, <1>7, <1>8, <1>9, <1>10 DEF Fits, Times
<1> QED
  BY <1>11 DEF a2, m, n

\* The first request of a window.
LEMMA FitsAnew ==
  ASSUME clock \in 1 .. MaxClock, NEW a \in [Times -> Nat], Grows(a), NEW c \in Windows, Fits(a, c),
         c.until <= clock
  PROVE  Fits(Used1(a, 1), [count |-> 1, until |-> clock + Window])
<1> DEFINE a2 == Used1(a, 1)
           m == [count |-> 1, until |-> clock + Window]
<1>1. /\ c.count \in Nat /\ c.until \in Nat
      /\ Limit \in Nat /\ Window \in Nat \ {0} /\ MaxClock \in Nat
      /\ clock \in Nat /\ clock <= MaxClock /\ clock >= 1
  BY RateAssumption DEF Windows
<1>2. /\ a2 \in [Times -> Nat]
      /\ \A t \in Times : /\ t < clock => a2[t] = a[t]
                          /\ t >= clock => a2[t] = IF 1 <= Limit THEN a[t] + 1 ELSE a[t]
  BY Used1Is
<1> HIDE DEF a2
<1>3. clock - 1 \in Times /\ clock \in Times /\ Back(clock) \in Times /\ Back(clock) < clock
  BY <1>1, BackIs DEF Times
<1>4. /\ \A t \in Times : t >= clock - 1 => a[t] = a[clock]
      /\ a[clock] - a[Back(clock)] <= Limit
  <2>1. CASE c.until = 0
    <3>1. \A t \in Times : a[t] = 0
      BY <2>1 DEF Fits, Times
    <3>2. a[clock] = 0 /\ a[Back(clock)] = 0
      BY <1>3, <3>1
    <3>3. a[clock] - a[Back(clock)] <= Limit
      BY <1>1, <3>2
    <3> QED
      BY <3>1, <3>2, <3>3
  <2>2. CASE c.until # 0
    <3> DEFINE from == c.until - Window
    <3>1. /\ from \in 1 .. clock
          /\ \A t \in Times : t >= clock \/ t >= c.until - 1 => a[t] = a[clock]
          /\ a[clock] - a[from - 1] = IF c.count <= Limit THEN c.count ELSE Limit
      BY <2>2 DEF Fits, Times
    <3>2. \A t \in Times : t >= clock - 1 => a[t] = a[clock]
      <4>1. c.until - 1 <= clock - 1
        BY <1>1
      <4> SUFFICES ASSUME NEW t \in Times, t >= clock - 1 PROVE a[t] = a[clock]
        OBVIOUS
      <4>2. t >= c.until - 1
        BY <1>1, <4>1 DEF Times
      <4> QED
        BY <3>1, <4>2
    <3>3. Back(clock) >= from - 1 /\ from - 1 \in Times
      <4>1. from \in Nat /\ from >= 1 /\ from <= clock /\ from <= clock - Window
        BY <1>1, <3>1
      <4> HIDE DEF from
      <4>2. clock \in Nat /\ Window \in Nat /\ MaxClock \in Nat /\ clock <= MaxClock
        BY <1>1
      <4>3. Back(clock) = clock - Window
        BY <4>1, <4>2 DEF Back
      <4>4. Back(clock) >= from - 1
        BY <4>1, <4>2, <4>3
      <4>5. from - 1 \in Times
        BY <4>1, <4>2 DEF Times
      <4> QED
        BY <4>4, <4>5
    <3>4. a[Back(clock)] >= a[from - 1]
      <4> HIDE DEF from
      <4>1. a[from - 1] <= a[Back(clock)]
        BY <1>3, <3>3 DEF Grows, Times
      <4> QED
        BY <1>3, <3>3, <4>1
    <3>5. a[clock] \in Nat /\ a[from - 1] \in Nat /\ a[Back(clock)] \in Nat
      BY <1>3, <3>3
    <3> HIDE DEF from
    <3> QED
      BY <1>1, <3>1, <3>2, <3>4, <3>5
  <2> QED
    BY <2>1, <2>2
<1>5. a2[clock - 1] = a[clock - 1] /\ a2[Back(clock)] = a[Back(clock)]
      /\ a2[clock] = IF 1 <= Limit THEN a[clock] + 1 ELSE a[clock]
  <2>1. clock - 1 < clock /\ clock >= clock
    BY <1>1
  <2>2. a2[clock - 1] = a[clock - 1]
    BY <1>2, <1>3, <2>1
  <2>3. a2[Back(clock)] = a[Back(clock)]
    BY <1>2, <1>3
  <2>4. a2[clock] = IF 1 <= Limit THEN a[clock] + 1 ELSE a[clock]
    BY <1>2, <1>3, <2>1
  <2> QED
    BY <2>2, <2>3, <2>4
<1>6. a[clock - 1] = a[clock] /\ a[clock] \in Nat /\ a[Back(clock)] \in Nat
  <2>1. clock - 1 >= clock - 1
    BY <1>1
  <2>2. a[clock - 1] = a[clock]
    BY <1>3, <1>4, <2>1
  <2> QED
    BY <1>3, <2>2
<1>7. /\ a2[clock] - a2[clock - 1] = IF 1 <= Limit THEN 1 ELSE Limit
      /\ a2[clock - 1] - a2[Back(clock)] <= Limit
  BY <1>1, <1>4, <1>5, <1>6
<1>8. \A t \in Times : t >= clock \/ t >= clock + Window - 1 => a2[t] = a2[clock]
  BY <1>1, <1>2, <1>3, <1>4 DEF Times
<1>9. m.until = clock + Window /\ m.count = 1 /\ m.until # 0 /\ m.until - Window = clock
  BY <1>1
<1> HIDE DEF m
<1>10. Fits(a2, m)
  BY <1>1, <1>7, <1>8, <1>9 DEF Fits, Times
<1> QED
  BY <1>10 DEF a2, m

\* A store counts a request, and refuses it or not.
LEMMA Counting ==
  ASSUME clock \in 1 .. MaxClock, NEW a \in [Times -> Nat], Grows(a), NEW c \in Windows, Fits(a, c),
         NEW d \in SUBSET (1 .. clock), Kept(a, d), NEW e \in SUBSET (1 .. clock),
         \A t \in e : t \in d \/ (t = clock /\ Next1(c).count > Limit)
  PROVE  LET n == Next1(c)
             a2 == Used1(a, n.count)
         IN  n \in Windows /\ n.until > clock /\ a2 \in [Times -> Nat] /\ Grows(a2) /\ Fits(a2, n)
             /\ Kept(a2, e)
<1> DEFINE n == Next1(c)
           a2 == Used1(a, n.count)
<1>1. /\ c.count \in Nat /\ c.until \in Nat
      /\ Limit \in Nat /\ Window \in Nat \ {0} /\ MaxClock \in Nat
      /\ clock \in Nat /\ clock <= MaxClock /\ clock >= 1
  BY RateAssumption DEF Windows
<1>2. n \in Windows /\ n.until > clock /\ n.count \in Nat
  BY <1>1 DEF Next1, Windows
<1>3. /\ a2 \in [Times -> Nat] /\ Grows(a2)
      /\ \A t \in Times : /\ t < clock => a2[t] = a[t]
                          /\ t >= clock => a2[t] = IF n.count <= Limit THEN a[t] + 1 ELSE a[t]
  <2> HIDE DEF n
  <2> QED
    BY <1>2, Used1Is
<1>4. Fits(a2, n)
  <2>1. CASE c.until > clock
    <3>1. n = [count |-> c.count + 1, until |-> c.until] /\ n.count = c.count + 1
      BY <2>1 DEF Next1
    <3> HIDE DEF n
    <3> QED
      BY <2>1, <3>1, FitsWithin
  <2>2. CASE ~(c.until > clock)
    <3>1. n = [count |-> 1, until |-> clock + Window] /\ n.count = 1 /\ c.until <= clock
      BY <1>1, <2>2 DEF Next1
    <3> HIDE DEF n
    <3> QED
      BY <3>1, FitsAnew
  <2> QED
    BY <2>1, <2>2
<1> HIDE DEF n, a2
<1>5. /\ a2[clock] - a2[Back(clock)] <= 2 * Limit
      /\ n.count >= Limit => a2[clock] - a2[Back(clock)] >= Limit
  BY <1>2, <1>3, <1>4, NowKept
<1>6. Kept(a2, e)
  <2> SUFFICES ASSUME NEW t \in 1 .. clock
               PROVE  /\ a2[t] - a2[Back(t)] <= 2 * Limit
                      /\ t \in e => a2[t] - a2[Back(t)] >= Limit
    BY DEF Kept
  <2>1. t \in Times /\ t \in 1 .. MaxClock /\ Back(t) \in Times /\ Back(t) < t /\ t \in Int
        /\ clock \in Times
    BY <1>1, BackIs DEF Times
  <2>2. /\ a[t] - a[Back(t)] <= 2 * Limit
        /\ t \in d => a[t] - a[Back(t)] >= Limit
    BY DEF Kept
  <2>3. a2[Back(t)] = a[Back(t)]
    BY <1>1, <1>3, <2>1 DEF Times
  <2>4. CASE t < clock
    <3>1. a2[t] = a[t]
      BY <1>3, <2>1, <2>4
    <3>2. t \in e => t \in d
      BY <1>1, <2>1, <2>4
    <3> QED
      BY <2>2, <2>3, <3>1, <3>2
  <2>5. CASE t = clock
    <3>1. a2[t] >= a[t] /\ a2[t] \in Nat /\ a[t] \in Nat /\ a[Back(t)] \in Nat
      <4>1. a2[t] \in Nat /\ a[t] \in Nat /\ a[Back(t)] \in Nat
        BY <1>3, <2>1
      <4>2. a2[t] = IF n.count <= Limit THEN a[t] + 1 ELSE a[t]
        BY <1>1, <1>3, <2>1, <2>5
      <4> QED
        BY <4>1, <4>2
    <3>2. t \in e => t \in d \/ n.count > Limit
      BY DEF n
    <3>3. t \in d => a2[t] - a2[Back(t)] >= Limit
      BY <1>1, <2>2, <2>3, <3>1
    <3>4. n.count > Limit => a2[t] - a2[Back(t)] >= Limit
      BY <1>1, <1>2, <1>5, <2>5
    <3> QED
      BY <1>5, <2>5, <3>2, <3>3, <3>4
  <2> QED
    BY <1>1, <2>1, <2>4, <2>5
<1> QED
  BY <1>2, <1>3, <1>4, <1>6 DEF n, a2

\* As time goes on nothing is counted.
LEMMA AdvanceFollows ==
  ASSUME RateTyped, Rate!Advance, NEW s \in Rate!Stores, NEW k \in Keys, Follows(s, k)
  PROVE  Follows(s, k)'
<1> DEFINE a == used[s][k]
           d == denied[s][k]
<1>1. /\ clock' = clock + 1 /\ clock + 1 \in 1 .. MaxClock /\ clock \in 1 .. MaxClock
      /\ used'[s][k] = a /\ denied'[s][k] = d /\ counters' = counters /\ buckets' = buckets
  BY RateAssumption DEF Rate!Advance, Rate!history, RateTyped
<1>2. a \in [Times -> Nat] /\ d \in SUBSET (1 .. clock)
  BY DEF RateTyped, Times
<1>3. Limit \in Nat /\ Window \in Nat \ {0} /\ MaxClock \in Nat /\ clock \in Nat
  BY <1>1, RateAssumption
<1>4. Grows(a) /\ Kept(a, d)
  BY DEF Follows
<1>5. PICK c \in Windows : Records(s, k, c) /\ Fits(a, c)
  BY DEF Follows
<1>6. c.count \in Nat /\ c.until \in Nat
  BY DEF Windows
<1> HIDE DEF a, d
<1>7. \A t \in Times : t >= clock => a[t] = a[clock]
  BY <1>1, <1>5 DEF Fits, Times
<1>8. clock \in Times /\ clock + 1 \in Times /\ a[clock + 1] = a[clock]
  <2>1. clock \in Times /\ clock + 1 \in Times /\ clock + 1 >= clock
    BY <1>1, <1>3 DEF Times
  <2> QED
    BY <1>7, <2>1
<1>9. Grows(used[s][k])'
  BY <1>1, <1>4 DEF Grows
<1>10. Kept(used[s][k], denied[s][k])'
  <2> SUFFICES ASSUME NEW t \in 1 .. clock + 1
               PROVE  /\ a[t] - a[Back(t)] <= 2 * Limit
                      /\ t \in d => a[t] - a[Back(t)] >= Limit
    BY <1>1 DEF Kept
  <2>1. CASE t \in 1 .. clock
    BY <1>4, <2>1 DEF Kept
  <2>2. CASE t = clock + 1
    <3>1. t \notin d
      BY <1>2, <1>3, <2>2
    <3>2. /\ Back(clock) \in Times /\ Back(t) \in Times /\ Back(clock) <= Back(t)
      <4>1. clock <= t /\ t \in 1 .. MaxClock
        BY <1>1, <1>3, <2>2
      <4> QED
        BY <1>1, <4>1, BackIs
    <3>3. a[Back(clock)] <= a[Back(t)]
      BY <1>4, <3>2 DEF Grows, Times
    <3>4. a[clock] - a[Back(clock)] <= 2 * Limit
      <4>1. clock \in 1 .. clock
        BY <1>1, <1>3
      <4> QED
        BY <1>4, <4>1 DEF Kept
    <3>5. a[clock] \in Nat /\ a[Back(clock)] \in Nat /\ a[Back(t)] \in Nat
      BY <1>2, <1>8, <3>2
    <3>6. a[t] = a[clock]
      BY <1>8, <2>2
    <3> QED
      BY <1>3, <3>1, <3>3, <3>4, <3>5, <3>6
  <2> QED
    BY <1>3, <2>1, <2>2
<1>11. Records(s, k, c)'
  BY <1>1, <1>3, <1>5, <1>6 DEF Records
<1>12. Fits(used[s][k], c)'
  <2>1. CASE c.until = 0
    BY <1>1, <1>5, <2>1 DEF Fits
  <2>2. CASE c.until # 0
    <3> DEFINE from == c.until - Window
    <3>1. /\ from \in 1 .. clock /\ c.count >= 1
          /\ \A t \in Times : t >= clock \/ t >= c.until - 1 => a[t] = a[clock]
          /\ a[clock] - a[from - 1] = IF c.count <= Limit THEN c.count ELSE Limit
          /\ a[from - 1] - a[Back(from)] <= Limit
      BY <1>5, <2>2 DEF Fits, Times
    <3>2. from \in 1 .. clock + 1
      BY <1>3, <3>1
    <3>3. \A t \in Times : t >= clock + 1 \/ t >= c.until - 1 => a[t] = a[clock + 1]
      BY <1>3, <1>8, <3>1 DEF Times
    <3> QED
      BY <1>1, <1>8, <2>2, <3>1, <3>2, <3>3 DEF Fits, Times
  <2> QED
    BY <2>1, <2>2
<1> QED
  BY <1>9, <1>10, <1>11, <1>12 DEF Follows

\* A store that a step does not count in, and whose record it leaves alone.
LEMMA StillFollows ==
  ASSUME NEW s \in Rate!Stores, NEW k \in Keys, Follows(s, k), clock' = clock,
         used'[s][k] = used[s][k], denied'[s][k] = denied[s][k],
         \A c \in Windows : Records(s, k, c) => Records(s, k, c)'
  PROVE  Follows(s, k)'
<1>1. PICK c \in Windows : Records(s, k, c) /\ Fits(used[s][k], c)
  BY DEF Follows
<1>2. Grows(used[s][k])' /\ Kept(used[s][k], denied[s][k])' /\ Fits(used[s][k], c)'
  BY <1>1 DEF Follows, Grows, Kept, Fits
<1>3. Records(s, k, c)'
  BY <1>1
<1> QED
  BY <1>2, <1>3 DEF Follows

\* A step that counts one more request for a key in a store.
CountsOne(s, k) ==
  \A c, n \in Windows :
    Records(s, k, c) /\ n = Next1(c) =>
      /\ Records(s, k, n)'
      /\ used'[s][k] = Used1(used[s][k], n.count)
      /\ \A t \in denied'[s][k] : t \in denied[s][k] \/ (t = clock /\ n.count > Limit)

\* One request more keeps the tie between a store's record and what it has allowed.
LEMMA CountFollows ==
  ASSUME NEW s \in Rate!Stores, NEW k \in Keys, RateTyped, Follows(s, k), clock' = clock,
         denied'[s][k] \in SUBSET (1 .. clock), CountsOne(s, k)
  PROVE  Follows(s, k)'
<1> DEFINE a == used[s][k]
           d == denied[s][k]
           e == denied'[s][k]
<1>1. clock \in 1 .. MaxClock /\ a \in [Times -> Nat] /\ d \in SUBSET (1 .. clock)
      /\ Grows(a) /\ Kept(a, d) /\ e \in SUBSET (1 .. clock)
  BY DEF RateTyped, Follows, Times
<1>2. PICK c \in Windows : Records(s, k, c) /\ Fits(a, c)
  BY DEF Follows
<1>3. Next1(c) \in Windows
  BY <1>1, RateAssumption DEF Next1, Windows
<1>4. PICK n \in Windows : n = Next1(c)
  BY <1>3
<1>5. /\ Records(s, k, n)'
      /\ used'[s][k] = Used1(a, n.count)
      /\ \A t \in e : t \in d \/ (t = clock /\ n.count > Limit)
  BY <1>2, <1>4 DEF CountsOne
<1> HIDE DEF a, d, e
<1> DEFINE a2 == Used1(a, n.count)
<1>6. Grows(a2) /\ Fits(a2, n) /\ Kept(a2, e)
  BY <1>1, <1>2, <1>4, <1>5, Counting
<1> HIDE DEF a2
<1>7. used'[s][k] = a2
  BY <1>5 DEF a2
<1>8. Grows(used[s][k])' /\ Kept(used[s][k], denied[s][k])' /\ Fits(used[s][k], n)'
  BY <1>6, <1>7 DEF e, Grows, Kept, Fits
<1> QED
  BY <1>5, <1>8 DEF Follows

\* What stores have allowed.
Uses == [Rate!Stores -> [Keys -> [Times -> Nat]]]

\* The history of what is allowed changes for one key of one store,
LEMMA WithinIs ==
  ASSUME NEW u \in Uses, NEW s \in Rate!Stores, NEW k \in Keys, NEW n \in Nat
  PROVE  /\ Rate!Within(u, s, k, n) \in Uses
         /\ Rate!Within(u, s, k, n)[s][k] = Used1(u[s][k], n)
         /\ \A r \in Rate!Stores, l \in Keys :
              r # s \/ l # k => Rate!Within(u, s, k, n)[r][l] = u[r][l]
<1>1. CASE n <= Limit
  <2> DEFINE a == u[s][k]
             a2 == [t \in Times |-> IF t >= clock THEN a[t] + 1 ELSE a[t]]
  <2>1. a \in [Times -> Nat]
    BY DEF Uses
  <2>2. a2 \in [Times -> Nat] /\ a2 = Used1(a, n)
    BY <1>1, <2>1 DEF Used1
  <2>3. Rate!Within(u, s, k, n) = [u EXCEPT ![s][k] = a2]
    BY <1>1 DEF Rate!Within, Times
  <2> HIDE DEF a2
  <2> QED
    BY <2>2, <2>3 DEF Uses
<1>2. CASE ~(n <= Limit)
  BY <1>2 DEF Rate!Within, Used1
<1> QED
  BY <1>1, <1>2

\* and so does that of what is refused.
LEMMA RefusingIs ==
  ASSUME RateTyped, NEW s \in Rate!Stores, NEW k \in Keys, NEW n \in Nat, Rate!Refusing(s, k, n)
  PROVE  /\ denied' \in [Rate!Stores -> [Keys -> SUBSET (1 .. clock)]]
         /\ \A t \in denied'[s][k] : t \in denied[s][k] \/ (t = clock /\ n > Limit)
         /\ \A r \in Rate!Stores, l \in Keys : r # s \/ l # k => denied'[r][l] = denied[r][l]
<1>1. denied \in [Rate!Stores -> [Keys -> SUBSET (1 .. clock)]] /\ clock \in 1 .. clock
  BY RateAssumption DEF RateTyped
<1>2. CASE n > Limit
  <2>1. denied' = [denied EXCEPT ![s][k] = denied[s][k] \cup {clock}]
    BY <1>2 DEF Rate!Refusing
  <2>2. denied[s][k] \cup {clock} \in SUBSET (1 .. clock)
    BY <1>1
  <2> QED
    BY <1>1, <1>2, <2>1, <2>2
<1>3. CASE ~(n > Limit)
  <2>1. denied' = denied
    BY <1>3 DEF Rate!Refusing
  <2> QED
    BY <1>1, <2>1
<1> QED
  BY <1>2, <1>3

\* The counter of Redis after a request is the next of its windows.
LEMMA CountedIs ==
  ASSUME RateTyped, NEW k \in Keys
  PROVE  Rate!Counted(k) = Next1(counters[k]) /\ Rate!Counted(k) \in Windows
<1>1. counters[k] \in Windows /\ Window \in Nat /\ clock \in Nat
  BY RateAssumption DEF RateTyped
<1> DEFINE c == counters[k]
<1>2. c = [count |-> c.count, until |-> c.until] /\ c.count \in Nat /\ c.until \in Nat
  BY <1>1 DEF Windows
<1> HIDE DEF c
<1>3. [c EXCEPT !.count = c.count + 1] = [count |-> c.count + 1, until |-> c.until]
  BY <1>2
<1>4. Rate!Counted(k) = Next1(c)
  BY <1>3 DEF Rate!Counted, Next1, c
<1>5. Next1(c) \in Windows
  BY <1>1, <1>2 DEF Next1, Windows
<1> QED
  BY <1>4, <1>5 DEF c

\* A request that Redis counts.
LEMMA CountInRedisPreserves ==
  ASSUME RateInv, NEW h \in Handlers, Rate!CountInRedis(h)
  PROVE  RateInv'
<1> DEFINE k == call[h].key
           n == Rate!Counted(k)
<1>1. RateTyped /\ k \in Keys /\ Rate!Redis \in Rate!Stores
  BY DEF RateInv, RateTyped, Rate!CountInRedis, CallTyped, Rate!Stores
<1>2. n = Next1(counters[k]) /\ n \in Windows /\ n.count \in Nat
  BY <1>1, CountedIs DEF Windows
<1>3. /\ clock' = clock /\ buckets' = buckets /\ evicted' = evicted /\ lingered' = lingered
      /\ call' = [call EXCEPT ![h] = Rate!NoCall] /\ counters' = [counters EXCEPT ![k] = n]
  BY DEF Rate!CountInRedis
<1>4. counters' \in [Keys -> Windows] /\ counters'[k] = n
  BY <1>1, <1>2, <1>3 DEF RateTyped
<1>5. used' = Rate!Within(used, Rate!Redis, k, n.count) /\ Rate!Refusing(Rate!Redis, k, n.count)
  BY <1>4 DEF Rate!CountInRedis
<1> HIDE DEF k, n
<1>6. used \in Uses
  BY <1>1 DEF RateTyped, Uses, Times
<1>7. /\ used' \in Uses
      /\ used'[Rate!Redis][k] = Used1(used[Rate!Redis][k], n.count)
      /\ \A r \in Rate!Stores, l \in Keys : r # Rate!Redis \/ l # k => used'[r][l] = used[r][l]
  BY <1>1, <1>2, <1>5, <1>6, WithinIs
<1>8. /\ denied' \in [Rate!Stores -> [Keys -> SUBSET (1 .. clock)]]
      /\ \A t \in denied'[Rate!Redis][k] :
           t \in denied[Rate!Redis][k] \/ (t = clock /\ n.count > Limit)
      /\ \A r \in Rate!Stores, l \in Keys : r # Rate!Redis \/ l # k => denied'[r][l] = denied[r][l]
  BY <1>1, <1>2, <1>5, RefusingIs
<1>9. RateTyped'
  <2>1. call' = [i \in Handlers |-> call'[i]]
        /\ \A i \in Handlers : call'[i] # Rate!NoCall => call'[i] = call[i] /\ CallTyped(call[i])
    BY <1>1, <1>3 DEF RateTyped
  <2>2. \A i \in Handlers : (call[i] # Rate!NoCall => CallTyped(call[i]))'
    BY <1>3, <2>1 DEF CallTyped
  <2> QED
    BY <1>1, <1>3, <1>4, <1>7, <1>8, <2>1, <2>2 DEF RateTyped, Uses, Times, BucketTyped
<1>10. ASSUME NEW s \in Rate!Stores, NEW l \in Keys, Rate!Keeps(s, l)' PROVE Follows(s, l)'
  <2>1. Follows(s, l)
    BY <1>3, <1>10 DEF RateInv, Rate!Keeps
  <2>2. CASE s = Rate!Redis /\ l = k
    <3>1. CountsOne(s, l)
      <4> SUFFICES ASSUME NEW c \in Windows, NEW m \in Windows, Records(s, l, c), m = Next1(c)
                   PROVE  /\ Records(s, l, m)'
                          /\ used'[s][l] = Used1(used[s][l], m.count)
                          /\ \A t \in denied'[s][l] : t \in denied[s][l]
                                                      \/ (t = clock /\ m.count > Limit)
        BY DEF CountsOne
      <4>1. m = n
        BY <1>2, <2>2 DEF Records
      <4>2. Records(s, l, m)'
        BY <1>4, <2>2, <4>1 DEF Records
      <4> QED
        BY <1>7, <1>8, <2>2, <4>1, <4>2
    <3>2. denied'[s][l] \in SUBSET (1 .. clock)
      BY <1>8
    <3> QED
      BY <1>1, <1>3, <2>1, <3>1, <3>2, CountFollows
  <2>3. CASE s # Rate!Redis \/ l # k
    <3>1. \A c \in Windows : Records(s, l, c) => Records(s, l, c)'
      BY <1>1, <1>3, <2>3 DEF Records, RateTyped
    <3> QED
      BY <1>3, <1>7, <1>8, <2>1, <2>3, <3>1, StillFollows
  <2> QED
    BY <2>2, <2>3
<1> QED
  BY <1>9, <1>10 DEF RateInv

\* The map of a process after a request.
LEMMA ConsumedIs ==
  ASSUME NEW bs, \A b \in bs : BucketTyped(b), NEW k \in Keys, NEW now \in Nat
  PROVE  /\ \A b \in Rate!Consumed(bs, k, now) : BucketTyped(b) /\ (b.key # k => b \in bs)
         /\ \A b \in bs : b.key # k => b \in Rate!Consumed(bs, k, now)
         /\ \A b \in Rate!Consumed(bs, k, now) : b.key = k =>
              \/ \E a \in bs : /\ a.key = k
                               /\ b.count = IF a.until > now THEN a.count + 1 ELSE 1
                               /\ b.until = IF a.until > now THEN a.until ELSE now + Window
              \/ (\A a \in bs : a.key # k) /\ b.count = 1 /\ b.until = now + Window
<1>1. Window \in Nat
  BY RateAssumption
<1>2. ASSUME NEW a \in bs
      PROVE  /\ BucketTyped(Rate!Bumped(a, now)) /\ Rate!Bumped(a, now).key = a.key
             /\ Rate!Bumped(a, now).count = IF a.until > now THEN a.count + 1 ELSE 1
             /\ Rate!Bumped(a, now).until = IF a.until > now THEN a.until ELSE now + Window
  <2>1. /\ a = [key |-> a.key, count |-> a.count, until |-> a.until, place |-> a.place]
        /\ a.key \in Keys /\ a.count \in Nat /\ a.until \in Nat
    BY DEF BucketTyped
  <2>2. CASE a.until > now
    <3>1. Rate!Bumped(a, now) = [key |-> a.key, count |-> a.count + 1, until |-> a.until,
                            place |-> a.place]
      BY <2>1, <2>2 DEF Rate!Bumped
    <3> QED
      BY <2>1, <2>2, <3>1 DEF BucketTyped
  <2>3. CASE ~(a.until > now)
    <3>1. Rate!Bumped(a, now) = [key |-> a.key, count |-> 1, until |-> now + Window,
                            place |-> a.place]
      BY <2>1, <2>3 DEF Rate!Bumped
    <3> QED
      BY <1>1, <2>1, <2>3, <3>1 DEF BucketTyped
  <2> QED
    BY <2>2, <2>3
<1>3. CASE \E b \in bs : b.key = k
  <2>1. Rate!Consumed(bs, k, now) = {IF b.key = k THEN Rate!Bumped(b, now) ELSE b : b \in bs}
    BY <1>3 DEF Rate!Consumed
  <2> QED
    BY <1>2, <2>1
<1>4. CASE ~(\E b \in bs : b.key = k)
  <2>1. PICK place : Rate!Consumed(bs, k, now) =
                       bs \cup {[key |-> k, count |-> 1, until |-> now + Window, place |-> place]}
    BY <1>4 DEF Rate!Consumed
  <2> DEFINE bn == [key |-> k, count |-> 1, until |-> now + Window, place |-> place]
  <2>2. BucketTyped(bn) /\ bn.key = k /\ bn.count = 1 /\ bn.until = now + Window
    BY <1>1 DEF BucketTyped
  <2>3. Rate!Consumed(bs, k, now) = bs \cup {bn}
    BY <2>1
  <2> HIDE DEF bn
  <2> QED
    BY <1>4, <2>2, <2>3
<1> QED
  BY <1>3, <1>4

\* A process prunes its map.
LEMMA PrunedIs ==
  ASSUME NEW p \in Processes, NEW now,
         evicted' = evicted \cup {b.key : b \in Rate!Unexpired(p, now) \ Rate!Pruned(p, now)}
  PROVE  /\ Rate!Pruned(p, now) \subseteq buckets[p]
         /\ \A b \in buckets[p] :
              b \in Rate!Pruned(p, now) \/ ~(b.until > now) \/ b.key \in evicted'
BY DEF Rate!Pruned, Rate!Unexpired

\* A process without a call to Redis that lasts counts as Redis does.
LEMMA ProcessCountsOne ==
  ASSUME RateTyped, NEW p \in Processes, NEW k \in Keys, k \notin evicted', clock' = clock,
         evicted' = evicted \cup {b.key : b \in Rate!Unexpired(p, clock) \ Rate!Pruned(p, clock)},
         buckets' = [buckets EXCEPT ![p] = Rate!Consumed(Rate!Pruned(p, clock), k, clock)],
         NEW bn \in buckets'[p], bn.key = k,
         used'[p][k] = Used1(used[p][k], bn.count),
         \A t \in denied'[p][k] : t \in denied[p][k] \/ (t = clock /\ bn.count > Limit)
  PROVE  CountsOne(p, k)
<1> DEFINE bs == Rate!Pruned(p, clock)
           bs2 == Rate!Consumed(bs, k, clock)
<1>1. /\ clock \in Nat /\ Window \in Nat /\ p # Rate!Redis /\ p \in Rate!Stores
      /\ buckets'[p] = bs2
  BY RateAssumption DEF RateTyped, Rate!Redis, Rate!Stores
<1>2. bs \subseteq buckets[p] /\ \A b \in bs : BucketTyped(b)
  BY PrunedIs DEF RateTyped
<1> HIDE DEF bs
<1>3. \A b \in bs2 : b.key = k =>
        \/ \E a \in bs : /\ a.key = k
                         /\ b.count = IF a.until > clock THEN a.count + 1 ELSE 1
                         /\ b.until = IF a.until > clock THEN a.until ELSE clock + Window
        \/ (\A a \in bs : a.key # k) /\ b.count = 1 /\ b.until = clock + Window
  BY <1>1, <1>2, ConsumedIs
<1>4. \A b \in buckets[p] : b \in bs \/ ~(b.until > clock) \/ b.key # k
  BY PrunedIs DEF bs
<1> HIDE DEF bs2
<1> SUFFICES ASSUME NEW c \in Windows, NEW m \in Windows, Records(p, k, c), m = Next1(c)
             PROVE  /\ Records(p, k, m)'
                    /\ used'[p][k] = Used1(used[p][k], m.count)
                    /\ \A t \in denied'[p][k] : t \in denied[p][k]
                                                \/ (t = clock /\ m.count > Limit)
  BY DEF CountsOne
<1>5. /\ \A b \in buckets[p] : b.key = k => b.count = c.count /\ b.until = c.until
      /\ (\A b \in buckets[p] : b.key # k) => c.until <= clock
      /\ c.count \in Nat /\ c.until \in Nat
  BY <1>1 DEF Records, Windows
<1>6. m.count = (IF c.until > clock THEN c.count + 1 ELSE 1)
      /\ m.until = IF c.until > clock THEN c.until ELSE clock + Window
  BY DEF Next1
<1>7. (\A a \in bs : a.key # k) => ~(c.until > clock)
  BY <1>1, <1>4, <1>5
<1>8. \A b \in bs2 : b.key = k => b.count = m.count /\ b.until = m.until
  <2> SUFFICES ASSUME NEW b \in bs2, b.key = k PROVE b.count = m.count /\ b.until = m.until
    OBVIOUS
  <2>1. ASSUME NEW a \in bs, a.key = k,
               b.count = IF a.until > clock THEN a.count + 1 ELSE 1,
               b.until = IF a.until > clock THEN a.until ELSE clock + Window
        PROVE  b.count = m.count /\ b.until = m.until
    <3>1. a.count = c.count /\ a.until = c.until
      BY <1>2, <1>5, <2>1
    <3> QED
      BY <1>6, <2>1, <3>1
  <2>2. ASSUME \A a \in bs : a.key # k, b.count = 1, b.until = clock + Window
        PROVE  b.count = m.count /\ b.until = m.until
    BY <1>6, <1>7, <2>2
  <2> QED
    BY <1>3, <2>1, <2>2
<1>9. bn \in bs2 /\ bn.count = m.count
  BY <1>1, <1>8
<1>10. Records(p, k, m)'
  BY <1>1, <1>8, <1>9 DEF Records
<1> QED
  BY <1>9, <1>10

\* The other keys of its map stay as they are, or leave it when they have expired.
LEMMA ProcessKeepsOthers ==
  ASSUME RateTyped, NEW p \in Processes, NEW k \in Keys, NEW l \in Keys, l # k,
         l \notin evicted', clock' = clock,
         evicted' = evicted \cup {b.key : b \in Rate!Unexpired(p, clock) \ Rate!Pruned(p, clock)},
         buckets' = [buckets EXCEPT ![p] = Rate!Consumed(Rate!Pruned(p, clock), k, clock)],
         NEW c \in Windows, Records(p, l, c)
  PROVE  Records(p, l, c)'
<1> DEFINE bs == Rate!Pruned(p, clock)
           bs2 == Rate!Consumed(bs, k, clock)
<1>1. /\ clock \in Nat /\ p # Rate!Redis /\ buckets'[p] = bs2
  BY RateAssumption DEF RateTyped, Rate!Redis
<1>2. bs \subseteq buckets[p] /\ \A b \in bs : BucketTyped(b)
  BY PrunedIs DEF RateTyped
<1>3. \A b \in buckets[p] : b \in bs \/ ~(b.until > clock) \/ b.key # l
  BY PrunedIs
<1> HIDE DEF bs
<1>4. /\ \A b \in bs2 : b.key = l => b \in bs
      /\ \A b \in bs : b.key = l => b \in bs2
  BY <1>1, <1>2, ConsumedIs
<1> HIDE DEF bs2
<1>5. /\ \A b \in buckets[p] : b.key = l => b.count = c.count /\ b.until = c.until
      /\ (\A b \in buckets[p] : b.key # l) => c.until <= clock
      /\ c.count \in Nat /\ c.until \in Nat
  BY <1>1 DEF Records, Windows
<1>6. \A b \in bs2 : b.key = l => b.count = c.count /\ b.until = c.until
  BY <1>2, <1>4, <1>5
<1>7. (\A b \in bs2 : b.key # l) => c.until <= clock
  <2> SUFFICES ASSUME \A b \in bs2 : b.key # l PROVE c.until <= clock
    OBVIOUS
  <2>1. \A b \in bs : b.key # l
    BY <1>4
  <2>2. \A b \in buckets[p] : b.key = l => ~(c.until > clock)
    BY <1>3, <1>5, <2>1
  <2> QED
    BY <1>1, <1>5, <2>2
<1> QED
  BY <1>1, <1>6, <1>7 DEF Records

\* What a request does to the count of Redis when the call to it fails.
LEMMA LostCountIs ==
  ASSUME RateTyped, NEW k \in Keys, NEW counts \in BOOLEAN,
         counters' = IF counts THEN [counters EXCEPT ![k] = Rate!Counted(k)] ELSE counters,
         NEW u, u = IF counts THEN Rate!Within(used, Rate!Redis, k, counters'[k].count) ELSE used
  PROVE  /\ counters' \in [Keys -> Windows] /\ u \in Uses
         /\ \A l \in Keys : l # k \/ ~counts =>
              counters'[l] = counters[l] /\ u[Rate!Redis][l] = used[Rate!Redis][l]
         /\ \A s \in Rate!Stores, l \in Keys : s # Rate!Redis => u[s][l] = used[s][l]
         /\ counts => /\ counters'[k] = Next1(counters[k])
                      /\ u[Rate!Redis][k] = Used1(used[Rate!Redis][k], counters'[k].count)
<1>1. used \in Uses /\ counters \in [Keys -> Windows] /\ Rate!Redis \in Rate!Stores
  BY DEF RateTyped, Uses, Times, Rate!Stores
<1>2. CASE counts
  <2> DEFINE n == Rate!Counted(k)
  <2>1. n = Next1(counters[k]) /\ n \in Windows /\ n.count \in Nat
    BY CountedIs DEF Windows
  <2>2. counters' = [counters EXCEPT ![k] = n]
    BY <1>2
  <2> HIDE DEF n
  <2>3. counters' \in [Keys -> Windows] /\ counters'[k] = n
        /\ \A l \in Keys : l # k => counters'[l] = counters[l]
    BY <1>1, <2>1, <2>2
  <2>4. u = Rate!Within(used, Rate!Redis, k, n.count)
    BY <1>2, <2>3
  <2>5. /\ u \in Uses
        /\ u[Rate!Redis][k] = Used1(used[Rate!Redis][k], n.count)
        /\ \A r \in Rate!Stores, l \in Keys : r # Rate!Redis \/ l # k => u[r][l] = used[r][l]
    BY <1>1, <2>1, <2>4, WithinIs
  <2> QED
    BY <1>1, <1>2, <2>1, <2>3, <2>5
<1>3. CASE ~counts
  BY <1>1, <1>3
<1> QED
  BY <1>2, <1>3

\* A request that a process counts, after Redis perhaps has too.
LEMMA CountHerePreserves ==
  ASSUME RateInv, NEW h \in Handlers, Rate!CountHere(h)
  PROVE  RateInv'
<1> DEFINE k == call[h].key
           p == call[h].process
           now == call[h].now
           bs == Rate!Pruned(p, now)
           bs2 == Rate!Consumed(bs, k, now)
<1>1. /\ RateTyped /\ k \in Keys /\ p \in Processes /\ now \in 1 .. clock /\ now \in Nat
      /\ Rate!Redis \in Rate!Stores /\ p \in Rate!Stores /\ p # Rate!Redis
  BY RateAssumption DEF RateInv, RateTyped, Rate!CountHere, CallTyped, Rate!Stores, Rate!Redis
<1>2. /\ clock' = clock /\ lingered' = (lingered \/ now < clock)
      /\ call' = [call EXCEPT ![h] = Rate!NoCall]
      /\ buckets' = [buckets EXCEPT ![p] = bs2]
      /\ evicted' = evicted \cup {b.key : b \in Rate!Unexpired(p, now) \ bs}
  BY DEF Rate!CountHere
<1>3. PICK bn \in buckets'[p], counts \in BOOLEAN :
        /\ bn.key = k
        /\ counters' = IF counts THEN [counters EXCEPT ![k] = Rate!Counted(k)] ELSE counters
        /\ used' = Rate!Within(IF counts THEN Rate!Within(used, Rate!Redis, k, counters'[k].count)
                               ELSE used,
                               p, k, bn.count)
        /\ Rate!Refusing(p, k, bn.count)
  BY DEF Rate!CountHere
<1>4. PICK u : u = IF counts THEN Rate!Within(used, Rate!Redis, k, counters'[k].count) ELSE used
  OBVIOUS
<1>5. used' = Rate!Within(u, p, k, bn.count)
  BY <1>3, <1>4
<1> HIDE DEF k, p, now, bs
<1>6. bs \subseteq buckets[p] /\ \A b \in bs : BucketTyped(b)
  <2>1. bs \subseteq buckets[p]
    BY <1>1, <1>2, PrunedIs DEF bs
  <2> QED
    BY <1>1, <2>1 DEF RateTyped
<1>7. \A b \in bs2 : BucketTyped(b)
  BY <1>1, <1>6, ConsumedIs
<1>8. buckets' = [q \in Processes |-> buckets'[q]] /\ buckets'[p] = bs2
      /\ \A q \in Processes : q # p => buckets'[q] = buckets[q]
  BY <1>1, <1>2 DEF RateTyped
<1>9. bn.count \in Nat
  BY <1>3, <1>7, <1>8 DEF BucketTyped
<1> HIDE DEF bs2
<1>10. /\ counters' \in [Keys -> Windows] /\ u \in Uses
       /\ \A l \in Keys : l # k \/ ~counts =>
            counters'[l] = counters[l] /\ u[Rate!Redis][l] = used[Rate!Redis][l]
       /\ \A s \in Rate!Stores, l \in Keys : s # Rate!Redis => u[s][l] = used[s][l]
       /\ counts => /\ counters'[k] = Next1(counters[k])
                    /\ u[Rate!Redis][k] = Used1(used[Rate!Redis][k], counters'[k].count)
  BY <1>1, <1>3, <1>4, LostCountIs
<1>11. /\ used' \in Uses
       /\ used'[p][k] = Used1(used[p][k], bn.count)
       /\ \A r \in Rate!Stores, l \in Keys : r # p \/ l # k => used'[r][l] = u[r][l]
  <2> DEFINE w == Rate!Within(u, p, k, bn.count)
  <2>1. /\ w \in Uses
        /\ w[p][k] = Used1(u[p][k], bn.count)
        /\ \A r \in Rate!Stores, l \in Keys : r # p \/ l # k => w[r][l] = u[r][l]
    <3>1. u \in Uses /\ p \in Rate!Stores /\ k \in Keys /\ bn.count \in Nat
      BY <1>1, <1>9, <1>10
    <3>2. PICK n \in Nat : n = bn.count
      BY <3>1
    <3> DEFINE w1 == Rate!Within(u, p, k, n)
    <3>3. /\ w1 \in Uses
          /\ w1[p][k] = Used1(u[p][k], n)
          /\ \A r \in Rate!Stores, l \in Keys : r # p \/ l # k => w1[r][l] = u[r][l]
      BY <3>1, WithinIs
    <3> HIDE DEF w1
    <3>4. w1 = w
      BY <3>2 DEF w1
    <3> QED
      BY <3>2, <3>3, <3>4
  <2>2. u[p][k] = used[p][k]
    BY <1>1, <1>10
  <2> QED
    BY <1>5, <2>1, <2>2
<1>12. /\ denied' \in [Rate!Stores -> [Keys -> SUBSET (1 .. clock)]]
       /\ \A t \in denied'[p][k] : t \in denied[p][k] \/ (t = clock /\ bn.count > Limit)
       /\ \A r \in Rate!Stores, l \in Keys : r # p \/ l # k => denied'[r][l] = denied[r][l]
  BY <1>1, <1>3, <1>9, RefusingIs
<1>13. RateTyped'
  <2>1. call' = [i \in Handlers |-> call'[i]]
        /\ \A i \in Handlers : call'[i] # Rate!NoCall => call'[i] = call[i] /\ CallTyped(call[i])
    BY <1>1, <1>2 DEF RateTyped
  <2>2. \A i \in Handlers : (call[i] # Rate!NoCall => CallTyped(call[i]))'
    BY <1>2, <2>1 DEF CallTyped
  <2>3. \A q \in Processes : \A b \in buckets'[q] : BucketTyped(b)
    BY <1>1, <1>7, <1>8 DEF RateTyped
  <2>4. lingered' \in BOOLEAN
    BY <1>1, <1>2 DEF RateTyped
  <2> QED
    BY <1>1, <1>2, <1>8, <1>10, <1>11, <1>12, <2>1, <2>2, <2>3, <2>4
       DEF RateTyped, Uses, Times, BucketTyped
<1>14. ASSUME NEW s \in Rate!Stores, NEW l \in Keys, Rate!Keeps(s, l)' PROVE Follows(s, l)'
  <2>1. Follows(s, l)
    BY <1>2, <1>14 DEF RateInv, Rate!Keeps
  <2>2. denied'[s][l] \in SUBSET (1 .. clock)
    BY <1>12
  <2>3. CASE s = p
    <3>1. now = clock /\ l \notin evicted'
      <4>1. ~lingered' /\ l \notin evicted'
        BY <1>1, <1>14, <2>3 DEF Rate!Keeps
      <4>2. ~(now < clock)
        BY <1>2, <4>1
      <4>3. clock \in Nat
        BY <1>1 DEF RateTyped
      <4> QED
        BY <1>1, <4>1, <4>2, <4>3
    <3>2. /\ buckets' = [buckets EXCEPT ![p] = Rate!Consumed(Rate!Pruned(p, clock), k, clock)]
          /\ evicted' =
               evicted \cup {b.key : b \in Rate!Unexpired(p, clock) \ Rate!Pruned(p, clock)}
      BY <1>2, <3>1 DEF bs2, bs
    <3>3. CASE l = k
      <4>1. CountsOne(p, k)
        BY <1>1, <1>2, <1>3, <1>11, <1>12, <3>1, <3>2, <3>3, ProcessCountsOne
      <4> QED
        BY <1>1, <1>2, <2>1, <2>2, <2>3, <3>3, <4>1, CountFollows
    <3>4. CASE l # k
      <4>1. \A c \in Windows : Records(s, l, c) => Records(s, l, c)'
        BY <1>1, <1>2, <2>3, <3>1, <3>2, <3>4, ProcessKeepsOthers
      <4>2. used'[s][l] = used[s][l] /\ denied'[s][l] = denied[s][l]
        BY <1>1, <1>10, <1>11, <1>12, <2>3, <3>4
      <4> QED
        BY <1>2, <2>1, <4>1, <4>2, StillFollows
    <3> QED
      BY <3>3, <3>4
  <2>4. CASE s = Rate!Redis
    <3>1. used'[s][l] = u[s][l] /\ denied'[s][l] = denied[s][l]
      BY <1>1, <1>11, <1>12, <2>4
    <3>2. CASE l = k /\ counts
      <4>1. /\ counters'[k] = Next1(counters[k])
            /\ used'[s][k] = Used1(used[s][k], counters'[k].count)
        BY <1>10, <2>4, <3>1, <3>2
      <4>2. CountsOne(s, l)
        <5> SUFFICES ASSUME NEW c \in Windows, NEW m \in Windows, Records(s, l, c), m = Next1(c)
                     PROVE  /\ Records(s, l, m)'
                            /\ used'[s][l] = Used1(used[s][l], m.count)
                            /\ \A t \in denied'[s][l] : t \in denied[s][l]
                                                        \/ (t = clock /\ m.count > Limit)
          BY DEF CountsOne
        <5>1. m = counters'[k]
          BY <2>4, <3>2, <4>1 DEF Records
        <5>2. Records(s, l, m)'
          BY <2>4, <3>2, <5>1 DEF Records
        <5> QED
          BY <3>1, <3>2, <4>1, <5>1, <5>2
      <4> QED
        BY <1>1, <1>2, <2>1, <2>2, <4>2, CountFollows
    <3>3. CASE ~(l = k /\ counts)
      <4>1. counters'[l] = counters[l] /\ u[s][l] = used[s][l]
        BY <1>10, <2>4, <3>3
      <4>2. \A c \in Windows : Records(s, l, c) => Records(s, l, c)'
        BY <2>4, <4>1 DEF Records
      <4> QED
        BY <1>2, <2>1, <3>1, <4>1, <4>2, StillFollows
    <3> QED
      BY <3>2, <3>3
  <2>5. CASE s # p /\ s # Rate!Redis
    <3>1. s \in Processes
      BY <2>5 DEF Rate!Stores
    <3>2. buckets'[s] = buckets[s]
      BY <1>8, <2>5, <3>1
    <3>3. \A c \in Windows : Records(s, l, c) => Records(s, l, c)'
      BY <1>2, <2>5, <3>2 DEF Records
    <3>4. used'[s][l] = used[s][l] /\ denied'[s][l] = denied[s][l]
      BY <1>10, <1>11, <1>12, <2>5
    <3> QED
      BY <1>2, <2>1, <3>3, <3>4, StillFollows
  <2> QED
    BY <2>3, <2>4, <2>5
<1> QED
  BY <1>13, <1>14 DEF RateInv

\* At first nothing is counted.
LEMMA RateInit == Rate!Init => RateInv
<1> SUFFICES ASSUME Rate!Init PROVE RateInv
  OBVIOUS
<1>1. /\ clock = 1 /\ counters = [k \in Keys |-> Rate!NoCounter]
      /\ buckets = [p \in Processes |-> {}] /\ call = [h \in Handlers |-> Rate!NoCall]
      /\ used = [s \in Rate!Stores |-> [k \in Keys |-> [t \in Times |-> 0]]]
      /\ denied = [s \in Rate!Stores |-> [k \in Keys |-> {}]] /\ lingered = FALSE
      /\ MaxClock \in Nat \ {0} /\ Limit \in Nat
  BY RateAssumption DEF Rate!Init, Times
<1> DEFINE cz == Rate!NoCounter
<1>2. cz \in Windows /\ cz.count = 0 /\ cz.until = 0
  BY DEF Rate!NoCounter, Windows
<1> HIDE DEF cz
<1>3. RateTyped
  <2>1. clock \in 1 .. MaxClock
    BY <1>1
  <2>4. lingered \in BOOLEAN
    BY <1>1
  <2>2. /\ counters \in [Keys -> Windows]
        /\ buckets = [p \in Processes |-> buckets[p]]
        /\ \A p \in Processes : \A b \in buckets[p] : BucketTyped(b)
        /\ call = [h \in Handlers |-> call[h]]
        /\ \A h \in Handlers : call[h] # Rate!NoCall => CallTyped(call[h])
    BY <1>1, <1>2 DEF cz
  <2>3. /\ used \in [Rate!Stores -> [Keys -> [0 .. MaxClock -> Nat]]]
        /\ denied \in [Rate!Stores -> [Keys -> SUBSET (1 .. clock)]]
    BY <1>1 DEF Times
  <2> QED
    BY <2>1, <2>2, <2>3, <2>4 DEF RateTyped
<1>4. ASSUME NEW s \in Rate!Stores, NEW k \in Keys PROVE Follows(s, k)
  <2> DEFINE a == used[s][k]
             d == denied[s][k]
  <2>1. a \in [Times -> Nat] /\ (\A t \in Times : a[t] = 0) /\ d = {}
    BY <1>1
  <2> HIDE DEF a, d
  <2>2. Grows(a)
    BY <2>1 DEF Grows, Times
  <2>3. Kept(a, d)
    <3> SUFFICES ASSUME NEW t \in 1 .. clock
                 PROVE  a[t] - a[Back(t)] <= 2 * Limit /\ t \notin d
      BY DEF Kept
    <3>1. t \in 1 .. MaxClock /\ t \in Times
      BY <1>1 DEF Times
    <3>2. Back(t) \in Times
      BY <3>1, BackIs
    <3>3. a[t] = 0 /\ a[Back(t)] = 0
      BY <2>1, <3>1, <3>2
    <3> QED
      BY <1>1, <2>1, <3>3
  <2>4. Fits(a, cz)
    BY <1>2, <2>1 DEF Fits, Times
  <2>5. Records(s, k, cz)
    <3>1. CASE s = Rate!Redis
      BY <1>1, <3>1 DEF Records, cz
    <3>2. CASE s # Rate!Redis
      <4>1. s \in Processes
        BY <3>2 DEF Rate!Stores
      <4>2. buckets[s] = {} /\ cz.until <= clock
        BY <1>1, <1>2, <4>1
      <4> QED
        BY <3>2, <4>2 DEF Records
    <3> QED
      BY <3>1, <3>2
  <2> QED
    BY <1>2, <2>2, <2>3, <2>4, <2>5 DEF Follows, a, d
<1> QED
  BY <1>3, <1>4 DEF RateInv

\* A request that arrives, and a step of others, changes no count.
LEMMA RateFrame ==
  ASSUME RateInv, UNCHANGED <<clock, counters, buckets, Rate!history>>,
         \/ UNCHANGED call
         \/ \E h \in Handlers, p \in Processes, k \in Keys :
              call' = [call EXCEPT ![h] = [key |-> k, process |-> p, now |-> clock]]
  PROVE  RateInv'
<1>1. /\ RateTyped
      /\ clock' = clock /\ counters' = counters /\ buckets' = buckets /\ used' = used
      /\ denied' = denied /\ evicted' = evicted /\ lingered' = lingered
  BY DEF Rate!history, RateInv
<1>2. /\ call' = [h \in Handlers |-> call'[h]]
      /\ \A h \in Handlers : call'[h] # Rate!NoCall => CallTyped(call'[h])
  <2>1. CASE UNCHANGED call
    BY <1>1, <2>1 DEF RateTyped
  <2>2. ASSUME NEW h \in Handlers, NEW p \in Processes, NEW k \in Keys,
               call' = [call EXCEPT ![h] = [key |-> k, process |-> p, now |-> clock]]
        PROVE  /\ call' = [i \in Handlers |-> call'[i]]
               /\ \A i \in Handlers : call'[i] # Rate!NoCall => CallTyped(call'[i])
    <3> DEFINE c == [key |-> k, process |-> p, now |-> clock]
    <3>1. CallTyped(c)
      <4>1. clock \in 1 .. clock
        BY <1>1, RateAssumption DEF RateTyped
      <4> QED
        BY <4>1 DEF CallTyped
    <3> HIDE DEF c
    <3>2. call' = [call EXCEPT ![h] = c]
      BY <2>2 DEF c
    <3> QED
      BY <1>1, <3>1, <3>2 DEF RateTyped
  <2> QED
    BY <2>1, <2>2
<1>3. \A h \in Handlers : (call[h] # Rate!NoCall => CallTyped(call[h]))'
  BY <1>1, <1>2 DEF CallTyped
<1>4. RateTyped'
  BY <1>1, <1>2, <1>3 DEF RateTyped, BucketTyped
<1>5. ASSUME NEW s \in Rate!Stores, NEW k \in Keys, Rate!Keeps(s, k)' PROVE Follows(s, k)'
  <2>1. Follows(s, k)
    BY <1>1, <1>5 DEF RateInv, Rate!Keeps
  <2>2. \A c \in Windows : Records(s, k, c) => Records(s, k, c)'
    BY <1>1 DEF Records
  <2> QED
    BY <1>1, <2>1, <2>2, StillFollows
<1> QED
  BY <1>4, <1>5 DEF RateInv

\* Time goes on.
LEMMA AdvancePreserves == RateInv /\ Rate!Advance => RateInv'
<1> SUFFICES ASSUME RateInv, Rate!Advance PROVE RateInv'
  OBVIOUS
<1>1. /\ RateTyped /\ clock' = clock + 1 /\ clock < MaxClock /\ clock \in 1 .. MaxClock
      /\ counters' = counters /\ buckets' = buckets /\ used' = used /\ call' = call
      /\ denied' = denied /\ evicted' = evicted /\ lingered' = lingered
      /\ MaxClock \in Nat
  BY RateAssumption DEF Rate!Advance, Rate!history, RateInv, RateTyped
<1>2. clock' \in 1 .. MaxClock /\ 1 .. clock \subseteq 1 .. clock'
  BY <1>1
<1>3. \A h \in Handlers : (call[h] # Rate!NoCall => CallTyped(call[h]))'
  BY <1>1, <1>2 DEF CallTyped, RateTyped
<1>4. denied' \in [Rate!Stores -> [Keys -> SUBSET (1 .. clock')]]
  BY <1>1, <1>2 DEF RateTyped
<1>5. RateTyped'
  BY <1>1, <1>2, <1>3, <1>4 DEF RateTyped, BucketTyped
<1>6. ASSUME NEW s \in Rate!Stores, NEW k \in Keys, Rate!Keeps(s, k)' PROVE Follows(s, k)'
  <2>1. Follows(s, k)
    BY <1>1, <1>6 DEF RateInv, Rate!Keeps
  <2> QED
    BY <1>1, <2>1, AdvanceFollows
<1> QED
  BY <1>5, <1>6 DEF RateInv

\* The invariant holds what the property asks.
LEMMA RateInvLimits == RateInv => LimitKept
<1> SUFFICES ASSUME RateInv, NEW s \in Rate!Stores, NEW k \in Keys, NEW t \in 1 .. clock,
                    Rate!Keeps(s, k)
             PROVE  /\ Rate!UsedOf(s, k, t) <= 2 * Limit
                    /\ t \in denied[s][k] => Rate!UsedOf(s, k, t) >= Limit
  BY DEF LimitKept, Rate!LimitKept, Rate!NeverFarOverLimit, Rate!RefusedForCause
<1>1. Kept(used[s][k], denied[s][k])
  BY DEF RateInv, Follows
<1> QED
  BY <1>1 DEF Kept, Rate!UsedOf, Back

\* The rate limit lets no client have more than twice the limit in the time of a window, and
\* refuses none that has not used the limit up in one, whatever calls to Redis fail.
THEOREM LimitKeptCorrect == Rate!Spec => []LimitKept
<1>1. RateInv /\ [Rate!Next]_(Rate!vars) => RateInv'
  <2> SUFFICES ASSUME RateInv, [Rate!Next]_(Rate!vars) PROVE RateInv'
    OBVIOUS
  <2>1. CASE UNCHANGED Rate!vars
    BY <2>1, RateFrame DEF Rate!vars
  <2>2. ASSUME NEW h \in Handlers, NEW p \in Processes, NEW k \in Keys, Rate!Ask(h, p, k)
        PROVE  RateInv'
    <3>1. /\ UNCHANGED <<clock, counters, buckets, Rate!history>>
          /\ call' = [call EXCEPT ![h] = [key |-> k, process |-> p, now |-> clock]]
      BY <2>2 DEF Rate!Ask
    <3> QED
      BY <3>1, RateFrame
  <2>3. ASSUME NEW h \in Handlers, Rate!CountInRedis(h) PROVE RateInv'
    BY <2>3, CountInRedisPreserves
  <2>4. ASSUME NEW h \in Handlers, Rate!CountHere(h) PROVE RateInv'
    BY <2>4, CountHerePreserves
  <2>5. CASE Rate!Advance
    BY <2>5, AdvancePreserves
  <2> QED
    BY <2>1, <2>2, <2>3, <2>4, <2>5 DEF Rate!Next
<1> QED
  BY <1>1, RateInit, RateInvLimits, PTL DEF Rate!Spec

-----------------------------------------------------------------------------
(* WalletLedger                                                            *)

USE RowsAssumption, RequestsAssumption

\* What a transaction works on, by the statement it is about to execute.
RequestFits ==
  \A t \in Txs :
     /\ pc[t] = "create_wallet" => req[t] \in Users
     /\ pc[t] \in {"settle_mark", "settle_credit"} => req[t] \in TopUps
     /\ pc[t] \in {"debit_upsert", "debit_update"} => req[t] \in Debits
     /\ pc[t] \in {"adjust_batch", "adjust_user", "adjust_update"} => req[t] \in Adjustments
     /\ pc[t] = "adjust_update" => todo[t] # << >>

\* A transaction drafts at most one row per wallet.
DraftFits ==
  \A t \in Txs : \A u \in Users :
     draft[t][u] = << >> \/ \E e \in Entries : draft[t][u] = <<e>>

Typed == TypeOK /\ RequestFits /\ DraftFits

\* Closing a transaction keeps the working variables typed.
LEMMA CloseTyped ==
  ASSUME Typed, NEW t \in Txs, Close(t),
         wallets' \subseteq Users, balance' \in [Users -> Int4],
         topUp' \in [TopUps -> Statuses], ledger' \in [Users -> Seq(Entries)],
         batches' \subseteq BatchKeys
  PROVE  Typed'
  BY DEF Typed, TypeOK, RequestFits, DraftFits, Close, Steps, Requests, NoDraft, Rows

\* The row a statement computes is an Entries row when the column can hold it.
LEMMA EntryTyped ==
  ASSUME TypeOK, NEW u \in Users, NEW delta \in Int, NEW ref,
         NEW type \in {"topup", "usage_debit", "manual_adjustment"},
         ref \in TopUps \cup Debits \cup BatchKeys,
         InInt4(Entry(type, ref, u, delta).after)
  PROVE  Entry(type, ref, u, delta) \in Entries
  BY DEF TypeOK, Entry, Entries, InInt4, Int4

LEMMA WriteWalletTyped ==
  ASSUME Typed, NEW t \in Txs, NEW u \in Users, NEW e, NEW next, NEW rest \in Seq(Users),
         InInt4(e.after) => e \in Entries,
         WriteWallet(t, u, e, next, rest),
         \/ next = "commit"
         \/ next = "adjust_user" /\ req[t] \in Adjustments
  PROVE  Typed'
<1>1. CASE ~ InInt4(e.after)
  <2>1. Close(t) /\ UNCHANGED committed
    BY <1>1 DEF WriteWallet
  <2> QED
    BY <2>1, CloseTyped DEF Typed, TypeOK, committed
<1>2. CASE InInt4(e.after)
  <2>1. /\ held'  = [held EXCEPT ![t] = @ \cup {u}]
        /\ draft' = [draft EXCEPT ![t][u] = <<e>>]
        /\ pc'    = [pc EXCEPT ![t] = next]
        /\ todo'  = [todo EXCEPT ![t] = rest]
        /\ UNCHANGED req
        /\ UNCHANGED committed
    BY <1>2 DEF WriteWallet
  <2>2. e \in Entries /\ <<e>> \in Seq(Entries)
    BY <1>2
  <2>3. TypeOK'
    BY <2>1, <2>2 DEF Typed, TypeOK, committed, Steps, Rows
  <2>4. RequestFits'
    BY <2>1 DEF Typed, TypeOK, RequestFits
  <2>5. DraftFits'
    BY <2>1, <2>2 DEF Typed, TypeOK, DraftFits
  <2> QED
    BY <2>3, <2>4, <2>5 DEF Typed
<1> QED
  BY <1>1, <1>2

LEMMA BeginTyped ==
  ASSUME Typed, NEW t \in Txs, NEW r, NEW step, Begin(t, r, step),
         \/ step = "create_wallet" /\ r \in Users
         \/ step = "settle_mark" /\ r \in TopUps
         \/ step = "debit_upsert" /\ r \in Debits
         \/ step = "adjust_batch" /\ r \in Adjustments
  PROVE  Typed'
<1>1. TypeOK'
  BY DEF Typed, TypeOK, Begin, committed, Steps, Requests
<1>2. RequestFits' /\ DraftFits'
  BY DEF Typed, TypeOK, RequestFits, DraftFits, Begin
<1> QED
  BY <1>1, <1>2 DEF Typed

LEMMA StepTyped ==
  ASSUME Typed, [Next]_vars
  PROVE  Typed'
<1> USE DEF Typed
<1>1. CASE UNCHANGED vars
  BY <1>1 DEF vars, TypeOK, RequestFits, DraftFits
<1>2. ASSUME NEW k \in TopUps, CancelTopUp(k)
      PROVE  Typed'
  BY <1>2 DEF CancelTopUp, working, TypeOK, RequestFits, DraftFits, Statuses
<1>3. ASSUME NEW t \in Txs,
             \/ \E u \in Users : BeginCreateWallet(t, u)
             \/ \E k \in TopUps : BeginSettle(t, k)
             \/ \E d \in Debits : BeginDebit(t, d)
             \/ \E a \in Adjustments : BeginAdjust(t, a)
      PROVE  Typed'
  BY <1>3, BeginTyped
     DEF BeginCreateWallet, BeginSettle, BeginDebit, BeginAdjust
<1>4. ASSUME NEW t \in Txs, CreateWallet(t)
      PROVE  Typed'
  <2>1. req[t] \in Users
    BY <1>4 DEF CreateWallet, RequestFits
  <2> QED
    BY <1>4, <2>1, CloseTyped DEF CreateWallet, TypeOK
<1>5. ASSUME NEW t \in Txs, SettleMark(t)
      PROVE  Typed'
  <2>1. req[t] \in TopUps
    BY <1>5 DEF SettleMark, RequestFits
  <2> QED
    BY <1>5, <2>1
       DEF SettleMark, committed, TypeOK, RequestFits, DraftFits, Steps, Rows
<1>6. ASSUME NEW t \in Txs, SettleCredit(t)
      PROVE  Typed'
  <2>1. req[t] \in TopUps
    BY <1>6 DEF SettleCredit, RequestFits
  <2>2. OwnerOf[req[t]] \in Users /\ AmountOf[req[t]] \in Int
    BY <2>1
  <2> DEFINE e == Entry("topup", req[t], OwnerOf[req[t]], AmountOf[req[t]])
  <2>3. InInt4(e.after) => e \in Entries
    BY <2>1, <2>2, EntryTyped
  <2>4. WriteWallet(t, OwnerOf[req[t]], e, "commit", << >>)
    BY <1>6 DEF SettleCredit, UpdateWallet
  <2>5. << >> \in Seq(Users)
    OBVIOUS
  <2> HIDE DEF e
  <2> QED
    BY <2>2, <2>3, <2>4, <2>5, WriteWalletTyped
<1>7. ASSUME NEW t \in Txs, DebitUpsert(t)
      PROVE  Typed'
  <2>1. req[t] \in Debits
    BY <1>7 DEF DebitUpsert, RequestFits
  <2>2. DebitOf[req[t]].user \in Users
    BY <2>1
  <2>3. CASE Close(t)
    BY <1>7, <2>3, CloseTyped DEF DebitUpsert, committed, TypeOK
  <2>4. CASE /\ held' = [held EXCEPT ![t] = @ \cup UpsertTakes(DebitOf[req[t]].user)]
             /\ pc'   = [pc EXCEPT ![t] = "debit_update"]
             /\ UNCHANGED <<req, todo, draft>>
    BY <1>7, <2>1, <2>2, <2>4
       DEF DebitUpsert, UpsertTakes, committed, TypeOK, RequestFits, DraftFits, Steps, Rows
  <2> QED
    BY <1>7, <2>3, <2>4 DEF DebitUpsert
<1>8. ASSUME NEW t \in Txs, DebitUpdate(t)
      PROVE  Typed'
  <2>1. req[t] \in Debits
    BY <1>8 DEF DebitUpdate, RequestFits
  <2> DEFINE d == DebitOf[req[t]]
             e == Entry("usage_debit", req[t], d.user, -d.amount)
  <2>2. d.user \in Users /\ -d.amount \in Int
    BY <2>1
  <2>3. InInt4(e.after) => e \in Entries
    BY <2>1, <2>2, EntryTyped
  <2>4. WriteWallet(t, d.user, e, "commit", << >>)
    BY <1>8 DEF DebitUpdate, UpdateWallet
  <2>5. << >> \in Seq(Users)
    OBVIOUS
  <2> HIDE DEF e, d
  <2> QED
    BY <2>2, <2>3, <2>4, <2>5, WriteWalletTyped
<1>9. ASSUME NEW t \in Txs, AdjustBatch(t)
      PROVE  Typed'
  <2>1. req[t] \in Adjustments
    BY <1>9 DEF AdjustBatch, RequestFits
  <2>2. req[t].key \in BatchKeys /\ req[t].users \in Seq(Users)
    BY <2>1
  <2>3. CASE Close(t)
    BY <1>9, <2>3, CloseTyped DEF AdjustBatch, committed, TypeOK
  <2>4. CASE /\ held' = [held EXCEPT ![t] = @ \cup {req[t].key}]
             /\ todo' = [todo EXCEPT ![t] = req[t].users]
             /\ pc'   = [pc EXCEPT ![t] = "adjust_user"]
             /\ UNCHANGED <<req, draft>>
    BY <1>9, <2>1, <2>2, <2>4
       DEF AdjustBatch, committed, TypeOK, RequestFits, DraftFits, Steps, Rows
  <2> QED
    BY <1>9, <2>3, <2>4 DEF AdjustBatch
<1>10. ASSUME NEW t \in Txs, AdjustUser(t)
       PROVE  Typed'
  <2>1. req[t] \in Adjustments /\ todo[t] \in Seq(Users) /\ todo[t] # << >>
    BY <1>10 DEF AdjustUser, RequestFits, TypeOK
  <2>2. Head(todo[t]) \in Users /\ Tail(todo[t]) \in Seq(Users)
    BY <2>1
  <2> DEFINE taken == UpsertTakes(Head(todo[t]))
             rest  == Tail(todo[t])
  <2>3. taken \subseteq Users
    BY <2>2 DEF UpsertTakes
  <2>4. /\ pc[t] = "adjust_user"
        /\ held' = [held EXCEPT ![t] = @ \cup taken]
        /\ UNCHANGED <<req, draft>>
        /\ UNCHANGED committed
    BY <1>10 DEF AdjustUser
  <2>5. \/ todo' = [todo EXCEPT ![t] = rest] /\ UNCHANGED pc
        \/ pc' = [pc EXCEPT ![t] = "adjust_update"] /\ UNCHANGED todo
    BY <1>10 DEF AdjustUser
  <2>r. rest \in Seq(Users)
    BY <2>2
  <2> HIDE DEF taken, rest
  <2>6. TypeOK'
    <3>0. /\ held \in [Txs -> SUBSET Rows] /\ pc \in [Txs -> Steps]
          /\ todo \in [Txs -> Seq(Users)]
      BY DEF TypeOK
    <3>1. held' \in [Txs -> SUBSET Rows]
      BY <2>3, <2>4, <3>0 DEF Rows
    <3>2. pc' \in [Txs -> Steps]
      <4>1. "adjust_update" \in Steps
        BY DEF Steps
      <4> QED
        BY <2>5, <3>0, <4>1
    <3>3. todo' \in [Txs -> Seq(Users)]
      BY <2>r, <2>5, <3>0
    <3>4. UNCHANGED <<wallets, balance, topUp, ledger, batches, req, draft>>
      BY <2>4 DEF committed
    <3> QED
      BY <3>1, <3>2, <3>3, <3>4 DEF TypeOK
  <2>7. RequestFits' /\ DraftFits'
    <3>1. DOMAIN pc = Txs /\ DOMAIN todo = Txs
      BY DEF TypeOK
    <3>2. RequestFits'
      BY <2>1, <2>4, <2>5, <3>1 DEF RequestFits
    <3>3. DraftFits'
      BY <2>4 DEF DraftFits
    <3> QED
      BY <3>2, <3>3
  <2> QED
    BY <2>6, <2>7
<1>11. ASSUME NEW t \in Txs, AdjustUpdate(t)
       PROVE  Typed'
  <2>1. req[t] \in Adjustments /\ todo[t] \in Seq(Users) /\ todo[t] # << >>
    BY <1>11 DEF AdjustUpdate, RequestFits, TypeOK
  <2> DEFINE u == Head(todo[t])
             e == Entry("manual_adjustment", req[t].key, u, req[t].delta)
  <2>2. u \in Users /\ Tail(todo[t]) \in Seq(Users)
    BY <2>1
  <2>3. req[t].key \in BatchKeys /\ req[t].delta \in Int
    BY <2>1
  <2>4. InInt4(e.after) => e \in Entries
    BY <2>2, <2>3, EntryTyped
  <2>5. CASE Close(t) /\ UNCHANGED committed
    BY <2>5, CloseTyped DEF committed, TypeOK
  <2>6. CASE WriteWallet(t, u, e, "adjust_user", Tail(todo[t]))
    <3> HIDE DEF e, u
    <3> QED BY <2>1, <2>2, <2>4, <2>6, WriteWalletTyped
  <2> QED
    BY <1>11, <2>5, <2>6 DEF AdjustUpdate, UpdateWallet
<1>12. ASSUME NEW t \in Txs, Commit(t)
       PROVE  Typed'
  <2>1. \A u \in Users : Seen(t, u) \in Int4
    BY DEF Seen, TypeOK, DraftFits, Entries
  <2>2. \A u \in Users : ledger[u] \o draft[t][u] \in Seq(Entries)
    BY DEF TypeOK
  <2>3. Close(t)
    BY <1>12 DEF Commit
  <2>4. /\ wallets' \subseteq Users
        /\ balance' \in [Users -> Int4]
        /\ topUp' \in [TopUps -> Statuses]
        /\ ledger' \in [Users -> Seq(Entries)]
        /\ batches' \subseteq BatchKeys
    BY <1>12, <2>1, <2>2 DEF Commit, TypeOK, Statuses
  <2> QED
    BY <2>3, <2>4, CloseTyped
<1>13. ASSUME NEW t \in Txs, Rollback(t)
       PROVE  Typed'
  BY <1>13, CloseTyped DEF Rollback, committed, TypeOK
<1> QED
  BY <1>1, <1>2, <1>3, <1>4, <1>5, <1>6, <1>7, <1>8, <1>9, <1>10, <1>11, <1>12, <1>13
     DEF Next

\* Every reachable state is typed; in particular no committed balance and no
\* balanceAfterKopecks leaves the INT4 range, because the UPDATE that would
\* leave it rolls its transaction back.
THEOREM TypeCorrect == Spec => []TypeOK
<1>1. Init => Typed
  BY DEF Init, Typed, TypeOK, RequestFits, DraftFits, Steps, Statuses, Requests, NoDraft, Int4
<1>2. Typed /\ [Next]_vars => Typed'
  BY StepTyped
<1>3. Typed => TypeOK
  BY DEF Typed
<1> QED
  BY <1>1, <1>2, <1>3, PTL DEF Spec

-----------------------------------------------------------------------------
(* Locks and drafts: a row belongs to one transaction, and what that       *)
(* transaction is about to insert fits the balance it has locked.          *)

Exclusive == \A s, t \in Txs : s # t => held[s] \cap held[t] = {}

DraftOnBalance ==
  \A t \in Txs : \A u \in Users :
     draft[t][u] # << >> =>
        /\ u \in held[t]
        /\ draft[t][u][1].after = balance[u] + draft[t][u][1].delta

Locked == Typed /\ Exclusive /\ DraftOnBalance

LEMMA CloseLocked ==
  ASSUME Locked, NEW t \in Txs, Close(t), Typed',
         \A s \in Txs \ {t} : \A u \in held[s] \cap Users : balance'[u] = balance[u]
  PROVE  Locked'
<1> USE DEF Locked
<1>1. /\ held' = [held EXCEPT ![t] = {}]
      /\ draft' = [draft EXCEPT ![t] = NoDraft]
  BY DEF Close
<1>2. Exclusive'
  BY <1>1 DEF Exclusive, Typed, TypeOK
<1>3. DraftOnBalance'
  <2> SUFFICES ASSUME NEW s \in Txs, NEW u \in Users, draft'[s][u] # << >>
               PROVE  /\ u \in held'[s]
                      /\ draft'[s][u][1].after = balance'[u] + draft'[s][u][1].delta
    BY DEF DraftOnBalance
  <2>1. s # t
    BY <1>1 DEF NoDraft, Typed, TypeOK
  <2>2. draft'[s] = draft[s] /\ held'[s] = held[s]
    BY <1>1, <2>1 DEF Typed, TypeOK
  <2>3. u \in held[s] /\ balance'[u] = balance[u]
    BY <2>1, <2>2 DEF DraftOnBalance
  <2> QED
    BY <2>2, <2>3 DEF DraftOnBalance
<1> QED
  BY <1>2, <1>3

\* A transaction that takes free rows, and changes nothing else, keeps Locked.
LEMMA TakeLocked ==
  ASSUME Locked, NEW t \in Txs, NEW taken \in SUBSET Rows, Typed',
         \A r \in taken : Free(r, t),
         held' = [held EXCEPT ![t] = @ \cup taken],
         UNCHANGED <<balance, draft>>
  PROVE  Locked'
<1> USE DEF Locked
<1>1. Exclusive'
  BY DEF Exclusive, Free, Typed, TypeOK
<1>2. DraftOnBalance'
  BY DEF DraftOnBalance, Typed, TypeOK
<1> QED
  BY <1>1, <1>2

LEMMA UpdateLocked ==
  ASSUME Locked, NEW t \in Txs, NEW u \in Users, NEW e, NEW next, NEW rest, Typed',
         UpdateWallet(t, u, e, next, rest),
         e.after = balance[u] + e.delta
  PROVE  Locked'
<1> USE DEF Locked
<1>1. Free(u, t) /\ WriteWallet(t, u, e, next, rest)
  BY DEF UpdateWallet
<1>2. CASE Close(t)
  BY <1>1, <1>2, CloseLocked DEF WriteWallet, committed
<1>3. CASE /\ held'  = [held EXCEPT ![t] = @ \cup {u}]
           /\ draft' = [draft EXCEPT ![t][u] = <<e>>]
           /\ UNCHANGED committed
  <2>1. Exclusive'
    BY <1>1, <1>3 DEF Exclusive, Free, Typed, TypeOK
  <2>2. DraftOnBalance'
    BY <1>3 DEF DraftOnBalance, committed, Typed, TypeOK
  <2> QED
    BY <2>1, <2>2
<1> QED
  BY <1>1, <1>2, <1>3 DEF WriteWallet

\* What each transaction adds to a wallet is what it drafted.
LEMMA SeenBalance ==
  ASSUME Locked, NEW t \in Txs, NEW u \in Users
  PROVE  /\ draft[t][u] = << >> => Seen(t, u) = balance[u]
         /\ u \notin held[t] => Seen(t, u) = balance[u]
  BY DEF Locked, DraftOnBalance, Seen

LEMMA StepLocked ==
  ASSUME Locked, [Next]_vars
  PROVE  Locked'
<1> USE DEF Locked
<1>0. Typed'
  BY StepTyped
<1>1. CASE UNCHANGED vars
  BY <1>0, <1>1 DEF vars, Exclusive, DraftOnBalance
<1>2. ASSUME NEW k \in TopUps, CancelTopUp(k)
      PROVE  Locked'
  BY <1>0, <1>2 DEF CancelTopUp, working, Exclusive, DraftOnBalance
<1>3. ASSUME NEW t \in Txs,
             \/ \E u \in Users : BeginCreateWallet(t, u)
             \/ \E k \in TopUps : BeginSettle(t, k)
             \/ \E d \in Debits : BeginDebit(t, d)
             \/ \E a \in Adjustments : BeginAdjust(t, a)
      PROVE  Locked'
  BY <1>0, <1>3 DEF BeginCreateWallet, BeginSettle, BeginDebit, BeginAdjust, Begin,
                    committed, Exclusive, DraftOnBalance
<1>4. ASSUME NEW t \in Txs, CreateWallet(t)
      PROVE  Locked'
  BY <1>0, <1>4, CloseLocked DEF CreateWallet
<1>5. ASSUME NEW t \in Txs, SettleMark(t)
      PROVE  Locked'
  <2>1. req[t] \in TopUps
    BY <1>5 DEF SettleMark, Typed, RequestFits
  <2> DEFINE taken == {req[t]}
  <2>2. taken \in SUBSET Rows /\ \A r \in taken : Free(r, t)
    BY <1>5, <2>1 DEF SettleMark, Rows
  <2>3. held' = [held EXCEPT ![t] = @ \cup taken] /\ UNCHANGED <<balance, draft>>
    BY <1>5 DEF SettleMark, committed
  <2> HIDE DEF taken
  <2> QED
    BY <1>0, <2>2, <2>3, TakeLocked
<1>6. ASSUME NEW t \in Txs, SettleCredit(t)
      PROVE  Locked'
  <2>1. req[t] \in TopUps
    BY <1>6 DEF SettleCredit, Typed, RequestFits
  <2>2. OwnerOf[req[t]] \in Users
    BY <2>1
  <2> QED
    BY <1>0, <1>6, <2>2, UpdateLocked DEF SettleCredit, Entry
<1>7. ASSUME NEW t \in Txs, DebitUpsert(t)
      PROVE  Locked'
  <2>1. req[t] \in Debits
    BY <1>7 DEF DebitUpsert, Typed, RequestFits
  <2>2. DebitOf[req[t]].user \in Users
    BY <2>1
  <2> DEFINE taken == UpsertTakes(DebitOf[req[t]].user)
  <2>3. taken \in SUBSET Rows /\ \A r \in taken : Free(r, t)
    BY <1>7, <2>2 DEF DebitUpsert, UpsertTakes, Rows
  <2>4. CASE Close(t)
    BY <1>0, <1>7, <2>4, CloseLocked DEF DebitUpsert, committed
  <2>5. CASE held' = [held EXCEPT ![t] = @ \cup taken] /\ UNCHANGED draft
    <3> HIDE DEF taken
    <3> QED BY <1>0, <1>7, <2>3, <2>5, TakeLocked DEF DebitUpsert, committed
  <2> QED
    BY <1>7, <2>4, <2>5 DEF DebitUpsert
<1>8. ASSUME NEW t \in Txs, DebitUpdate(t)
      PROVE  Locked'
  <2>1. req[t] \in Debits
    BY <1>8 DEF DebitUpdate, Typed, RequestFits
  <2> DEFINE u == DebitOf[req[t]].user
             e == Entry("usage_debit", req[t], u, -DebitOf[req[t]].amount)
  <2>2. u \in Users
    BY <2>1
  <2>3. UpdateWallet(t, u, e, "commit", << >>)
    BY <1>8 DEF DebitUpdate
  <2>4. e.after = balance[u] + e.delta
    BY DEF Entry
  <2> HIDE DEF u, e
  <2> QED
    BY <1>0, <2>2, <2>3, <2>4, UpdateLocked
<1>9. ASSUME NEW t \in Txs, AdjustBatch(t)
      PROVE  Locked'
  <2>1. req[t] \in Adjustments
    BY <1>9 DEF AdjustBatch, Typed, RequestFits
  <2> DEFINE taken == {req[t].key}
  <2>2. taken \in SUBSET Rows /\ \A r \in taken : Free(r, t)
    BY <1>9, <2>1 DEF AdjustBatch, Rows
  <2>3. CASE Close(t)
    BY <1>0, <1>9, <2>3, CloseLocked DEF AdjustBatch, committed
  <2>4. CASE held' = [held EXCEPT ![t] = @ \cup taken] /\ UNCHANGED draft
    <3> HIDE DEF taken
    <3> QED BY <1>0, <1>9, <2>2, <2>4, TakeLocked DEF AdjustBatch, committed
  <2> QED
    BY <1>9, <2>3, <2>4 DEF AdjustBatch
<1>10. ASSUME NEW t \in Txs, AdjustUser(t)
       PROVE  Locked'
  <2>1. Head(todo[t]) \in Users
    BY <1>10 DEF AdjustUser, Typed, TypeOK
  <2> DEFINE taken == UpsertTakes(Head(todo[t]))
  <2>2. taken \in SUBSET Rows /\ \A r \in taken : Free(r, t)
    BY <1>10, <2>1 DEF AdjustUser, UpsertTakes, Rows
  <2>3. held' = [held EXCEPT ![t] = @ \cup taken] /\ UNCHANGED <<balance, draft>>
    BY <1>10 DEF AdjustUser, committed
  <2> HIDE DEF taken
  <2> QED
    BY <1>0, <2>2, <2>3, TakeLocked
<1>11. ASSUME NEW t \in Txs, AdjustUpdate(t)
       PROVE  Locked'
  <2>1. Head(todo[t]) \in Users
    BY <1>11 DEF AdjustUpdate, Typed, RequestFits, TypeOK
  <2>2. CASE Close(t) /\ UNCHANGED committed
    BY <1>0, <2>2, CloseLocked DEF committed
  <2> DEFINE u == Head(todo[t])
             e == Entry("manual_adjustment", req[t].key, u, req[t].delta)
  <2>3. e.after = balance[u] + e.delta
    BY DEF Entry
  <2>4. CASE UpdateWallet(t, u, e, "adjust_user", Tail(todo[t]))
    <3> HIDE DEF e
    <3> QED BY <1>0, <2>1, <2>3, <2>4, UpdateLocked
  <2> QED
    BY <1>11, <2>2, <2>4 DEF AdjustUpdate
<1>12. ASSUME NEW t \in Txs, Commit(t)
       PROVE  Locked'
  <2>1. ASSUME NEW s \in Txs \ {t}, NEW u \in held[s] \cap Users
        PROVE  balance'[u] = balance[u]
    <3>1. u \notin held[t]
      BY <2>1 DEF Exclusive
    <3> QED
      BY <1>12, <3>1, SeenBalance DEF Commit
  <2> QED
    BY <1>0, <1>12, <2>1, CloseLocked DEF Commit
<1>13. ASSUME NEW t \in Txs, Rollback(t)
       PROVE  Locked'
  BY <1>0, <1>13, CloseLocked DEF Rollback, committed
<1> QED
  BY <1>1, <1>2, <1>3, <1>4, <1>5, <1>6, <1>7, <1>8, <1>9, <1>10, <1>11, <1>12, <1>13
     DEF Next

\* A row that continues the running account keeps it a running account.
LEMMA AppendAccounts ==
  ASSUME NEW entries \in Seq(Entries), NEW total \in Int, NEW e \in Entries,
         Accounts(entries, total), e.after = total + e.delta
  PROVE  Accounts(entries \o <<e>>, e.after)
<1> DEFINE longer == entries \o <<e>>
           n      == Len(entries)
<1>1. /\ n \in Nat /\ Len(longer) = n + 1
      /\ longer[n + 1] = e
      /\ \A i \in 1 .. n : longer[i] = entries[i]
  OBVIOUS
<1>2. Before(longer, n + 1) = total
  BY <1>1 DEF Before, Accounts
<1>3. \A i \in 1 .. n : Before(longer, i) = Before(entries, i)
  BY <1>1 DEF Before
<1>4. Before(longer, n + 2) = e.after
  BY <1>1 DEF Before
<1> HIDE DEF longer, n
<1>5. \A i \in 1 .. n + 1 : longer[i].after = Before(longer, i) + longer[i].delta
  <2> TAKE i \in 1 .. n + 1
  <2>1. CASE i = n + 1
    BY <1>1, <1>2, <2>1
  <2>2. CASE i \in 1 .. n
    BY <1>1, <1>3, <2>2 DEF Accounts, n
  <2> QED
    BY <1>1, <2>1, <2>2
<1>6. Accounts(longer, e.after)
  BY <1>1, <1>4, <1>5 DEF Accounts
<1> QED
  BY <1>6 DEF longer

LEMMA StepAccounts ==
  ASSUME Locked, LedgerExplainsBalance, [Next]_vars
  PROVE  LedgerExplainsBalance'
<1>1. CASE UNCHANGED <<balance, ledger>>
  BY <1>1 DEF LedgerExplainsBalance
<1>2. ASSUME NEW t \in Txs, Commit(t)
      PROVE  LedgerExplainsBalance'
  <2> SUFFICES ASSUME NEW u \in Users
               PROVE  Accounts(ledger'[u], balance'[u])
    BY DEF LedgerExplainsBalance
  <2>1. ledger'[u] = ledger[u] \o draft[t][u] /\ balance'[u] = Seen(t, u)
    BY <1>2 DEF Commit
  <2>2. ledger[u] \in Seq(Entries) /\ balance[u] \in Int /\ Accounts(ledger[u], balance[u])
    BY DEF LedgerExplainsBalance, Locked, Typed, TypeOK, Int4
  <2>3. CASE draft[t][u] = << >>
    BY <2>1, <2>2, <2>3 DEF Seen
  <2>4. CASE draft[t][u] # << >>
    <3>1. PICK e \in Entries : draft[t][u] = <<e>>
      BY <2>4 DEF Locked, Typed, DraftFits
    <3>2. draft[t][u][1] = e
      BY <3>1
    <3>3. e.after = balance[u] + e.delta
      BY <2>4, <3>2 DEF Locked, DraftOnBalance
    <3>4. Seen(t, u) = e.after
      BY <2>4, <3>2 DEF Seen
    <3>5. Accounts(ledger[u] \o <<e>>, e.after)
      BY <2>2, <3>3, AppendAccounts
    <3> QED
      BY <2>1, <3>1, <3>4, <3>5
  <2> QED
    BY <2>3, <2>4
<1>3. CASE ~ \E t \in Txs : Commit(t)
  <2>1. UNCHANGED <<balance, ledger>>
    BY <1>3 DEF Next, vars, BeginCreateWallet, BeginSettle, BeginDebit, BeginAdjust, Begin,
                CreateWallet, SettleMark, SettleCredit, DebitUpsert, DebitUpdate, AdjustBatch,
                AdjustUser, AdjustUpdate, UpdateWallet, WriteWallet, Rollback, CancelTopUp,
                committed
  <2> QED
    BY <1>1, <2>1
<1> QED
  BY <1>2, <1>3

LEMMA InitLocked == Init => Locked /\ LedgerExplainsBalance
<1> SUFFICES ASSUME Init PROVE Locked /\ LedgerExplainsBalance
  OBVIOUS
<1>1. Typed
  BY DEF Init, Typed, TypeOK, RequestFits, DraftFits, Steps, Statuses, Requests, NoDraft, Int4
<1>2. Exclusive /\ DraftOnBalance
  BY DEF Init, Exclusive, DraftOnBalance, NoDraft
<1>3. Accounts(<< >>, 0)
  BY DEF Accounts, Before
<1>4. LedgerExplainsBalance
  BY <1>3 DEF Init, LedgerExplainsBalance
<1> QED
  BY <1>1, <1>2, <1>4 DEF Locked

\* Every wallet's ledger is the running account of its balance, however the
\* settlements, debits and adjustments of that wallet interleave or fail.
THEOREM LedgerCorrect == Spec => []LedgerExplainsBalance
<1>1. Init => Locked /\ LedgerExplainsBalance
  BY InitLocked
<1>2. Locked /\ LedgerExplainsBalance /\ [Next]_vars => (Locked /\ LedgerExplainsBalance)'
  BY StepLocked, StepAccounts
<1> QED
  BY <1>1, <1>2, PTL DEF Spec

-----------------------------------------------------------------------------
(* Idempotency keys and top-up statuses.                                   *)

\* Where a drafted row comes from.
DraftOrigin ==
  \A t \in Txs : \A u \in Users :
     draft[t][u] # << >> =>
        /\ draft[t][u][1].type = "topup" =>
              /\ draft[t][u][1].ref \in TopUps \cap held[t]
              /\ u = OwnerOf[draft[t][u][1].ref]
        /\ draft[t][u][1].type = "usage_debit" =>
              /\ draft[t][u][1].ref \in Debits
              /\ u = DebitOf[draft[t][u][1].ref].user

\* A locked top-up is the one its transaction settles, and a transaction that
\* is about to commit has drafted its credit.
Settling ==
  \A t \in Txs :
     /\ pc[t] = "settle_credit" => req[t] \in held[t]
     /\ \A k \in TopUps \cap held[t] :
           /\ req[t] = k
           /\ pc[t] \in {"settle_credit", "commit"}
           /\ pc[t] = "commit" =>
                 /\ draft[t][OwnerOf[k]] # << >>
                 /\ draft[t][OwnerOf[k]][1].type = "topup"
                 /\ draft[t][OwnerOf[k]][1].ref = k

LEMMA CloseDrafts ==
  ASSUME Typed, DraftOrigin, Settling, NEW t \in Txs, Close(t)
  PROVE  DraftOrigin' /\ Settling'
<1>1. /\ pc' = [pc EXCEPT ![t] = "idle"]
      /\ req' = [req EXCEPT ![t] = NoReq]
      /\ held' = [held EXCEPT ![t] = {}]
      /\ draft' = [draft EXCEPT ![t] = NoDraft]
  BY DEF Close
<1>2. DraftOrigin'
  <2>1. DOMAIN held = Txs /\ DOMAIN draft = Txs
    BY DEF Typed, TypeOK
  <2>2. \A u \in Users : draft'[t][u] = << >>
    BY <1>1, <2>1 DEF NoDraft
  <2>3. \A s \in Txs \ {t} : draft'[s] = draft[s] /\ held'[s] = held[s]
    BY <1>1, <2>1
  <2>4. ASSUME NEW s \in Txs, NEW u \in Users, draft'[s][u] # << >>
        PROVE  s # t
    BY <2>2, <2>4
  <2> QED
    BY <2>3, <2>4 DEF DraftOrigin
<1>3. Settling'
  BY <1>1 DEF Settling, Typed, TypeOK
<1> QED
  BY <1>2, <1>3

LEMMA WriteDrafts ==
  ASSUME Typed, DraftOrigin, Settling, NEW t \in Txs, NEW u \in Users, NEW e,
         NEW next, NEW rest, WriteWallet(t, u, e, next, rest),
         e.type = "topup" => e.ref \in TopUps \cap held[t] /\ u = OwnerOf[e.ref],
         e.type = "usage_debit" => e.ref \in Debits /\ u = DebitOf[e.ref].user,
         \/ /\ pc[t] = "settle_credit" /\ next = "commit"
            /\ e.type = "topup" /\ e.ref = req[t]
         \/ /\ pc[t] \in {"debit_update", "adjust_update"}
            /\ next \in {"commit", "adjust_user"}
  PROVE  DraftOrigin' /\ Settling'
<1>1. CASE Close(t)
  BY <1>1, CloseDrafts
<1>2. CASE /\ held'  = [held EXCEPT ![t] = @ \cup {u}]
           /\ draft' = [draft EXCEPT ![t][u] = <<e>>]
           /\ pc'    = [pc EXCEPT ![t] = next]
           /\ UNCHANGED req
  <2>1. DraftOrigin'
    <3>0. DOMAIN held = Txs /\ DOMAIN draft = Txs /\ \A s \in Txs : DOMAIN draft[s] = Users
      BY DEF Typed, TypeOK
    <3>1. ASSUME NEW s \in Txs, NEW v \in Users
          PROVE  /\ held[s] \subseteq held'[s]
                 /\ draft'[s][v] = draft[s][v] \/ (s = t /\ v = u /\ draft'[s][v] = <<e>>)
      BY <1>2, <3>0
    <3>2. <<e>>[1] = e
      OBVIOUS
    <3>3. e.type = "topup" => e.ref \in TopUps \cap held'[t]
      BY <3>1
    <3> SUFFICES ASSUME NEW s \in Txs, NEW v \in Users, draft'[s][v] # << >>
                 PROVE  /\ draft'[s][v][1].type = "topup" =>
                              /\ draft'[s][v][1].ref \in TopUps \cap held'[s]
                              /\ v = OwnerOf[draft'[s][v][1].ref]
                        /\ draft'[s][v][1].type = "usage_debit" =>
                              /\ draft'[s][v][1].ref \in Debits
                              /\ v = DebitOf[draft'[s][v][1].ref].user
      BY DEF DraftOrigin
    <3>4. CASE draft'[s][v] = draft[s][v]
      BY <3>1, <3>4 DEF DraftOrigin
    <3>5. CASE s = t /\ v = u /\ draft'[s][v] = <<e>>
      BY <3>2, <3>3, <3>5
    <3> QED
      BY <3>1, <3>4, <3>5
  <2>2. u \notin TopUps
    OBVIOUS
  <2>3. ASSUME NEW s \in Txs, NEW k \in TopUps \cap held'[s]
        PROVE  /\ req'[s] = k
               /\ pc'[s] \in {"settle_credit", "commit"}
               /\ pc'[s] = "commit" =>
                     /\ draft'[s][OwnerOf[k]] # << >>
                     /\ draft'[s][OwnerOf[k]][1].type = "topup"
                     /\ draft'[s][OwnerOf[k]][1].ref = k
    <3>1. k \in held[s] /\ OwnerOf[k] \in Users
      BY <1>2, <2>2, <2>3 DEF Typed, TypeOK
    <3>2. CASE s = t
      <4>1. pc[t] = "settle_credit" /\ req[t] = k
        BY <3>1, <3>2 DEF Settling
      <4>2. e.type = "topup" /\ e.ref = k /\ u = OwnerOf[k]
        BY <4>1
      <4>3. draft'[t][u] = <<e>>
        BY <1>2 DEF Typed, TypeOK
      <4>4. next = "commit"
        BY <4>1
      <4> QED
        BY <1>2, <3>2, <4>1, <4>2, <4>3, <4>4 DEF Typed, TypeOK
    <3>3. CASE s # t
      BY <1>2, <3>1, <3>3 DEF Settling, Typed, TypeOK
    <3> QED
      BY <3>2, <3>3
  <2>4. ASSUME NEW s \in Txs, pc'[s] = "settle_credit"
        PROVE  req'[s] \in held'[s]
    BY <1>2, <2>4 DEF Settling, Typed, TypeOK
  <2> QED
    BY <2>1, <2>3, <2>4 DEF Settling
<1> QED
  BY <1>1, <1>2 DEF WriteWallet

LEMMA StepDrafts ==
  ASSUME Typed, DraftOrigin, Settling, [Next]_vars
  PROVE  DraftOrigin' /\ Settling'
<1>0. ASSUME UNCHANGED <<pc, req, held, draft>>
      PROVE  DraftOrigin' /\ Settling'
  <2>1. DraftOrigin'
    BY <1>0 DEF DraftOrigin
  <2>2. Settling'
    BY <1>0 DEF Settling
  <2> QED
    BY <2>1, <2>2
<1>1. CASE UNCHANGED vars
  BY <1>0, <1>1 DEF vars
<1>2. ASSUME NEW k \in TopUps, CancelTopUp(k)
      PROVE  DraftOrigin' /\ Settling'
  BY <1>0, <1>2 DEF CancelTopUp, working
<1>3. ASSUME NEW t \in Txs,
             \/ \E u \in Users : BeginCreateWallet(t, u)
             \/ \E k \in TopUps : BeginSettle(t, k)
             \/ \E d \in Debits : BeginDebit(t, d)
             \/ \E a \in Adjustments : BeginAdjust(t, a)
      PROVE  DraftOrigin' /\ Settling'
  <2>1. PICK r, step : Begin(t, r, step) /\ step # "settle_credit"
    BY <1>3 DEF BeginCreateWallet, BeginSettle, BeginDebit, BeginAdjust
  <2>2. \A k \in TopUps : k \notin held[t]
    BY <2>1 DEF Begin, Settling
  <2>3. /\ pc' = [pc EXCEPT ![t] = step] /\ req' = [req EXCEPT ![t] = r]
        /\ UNCHANGED <<held, draft>>
        /\ DOMAIN pc = Txs /\ DOMAIN req = Txs
    BY <2>1 DEF Begin, Typed, TypeOK
  <2>4. DraftOrigin'
    BY <2>3 DEF DraftOrigin
  <2>5. Settling'
    BY <2>1, <2>2, <2>3 DEF Settling
  <2> QED
    BY <2>4, <2>5
<1>4. ASSUME NEW t \in Txs, Close(t)
      PROVE  DraftOrigin' /\ Settling'
  BY <1>4, CloseDrafts
<1>5. ASSUME NEW t \in Txs, SettleMark(t)
      PROVE  DraftOrigin' /\ Settling'
  <2>1. \A k \in TopUps : k \notin held[t]
    BY <1>5 DEF SettleMark, Settling
  <2>2. DraftOrigin'
    BY <1>5 DEF SettleMark, DraftOrigin, Typed, TypeOK
  <2>3. Settling'
    BY <1>5, <2>1 DEF SettleMark, Settling, Typed, TypeOK
  <2> QED
    BY <2>2, <2>3
<1>6. ASSUME NEW t \in Txs, SettleCredit(t)
      PROVE  DraftOrigin' /\ Settling'
  <2> DEFINE u == OwnerOf[req[t]]
             e == Entry("topup", req[t], u, AmountOf[req[t]])
  <2>1. req[t] \in TopUps /\ pc[t] = "settle_credit" /\ req[t] \in held[t]
    BY <1>6 DEF SettleCredit, Typed, RequestFits, Settling
  <2>2. u \in Users
    BY <2>1
  <2>3. e.type = "topup" /\ e.ref = req[t]
    BY DEF Entry
  <2>4. WriteWallet(t, u, e, "commit", << >>)
    BY <1>6 DEF SettleCredit, UpdateWallet
  <2> HIDE DEF e
  <2> QED
    BY <2>1, <2>2, <2>3, <2>4, WriteDrafts
<1>7. ASSUME NEW t \in Txs, DebitUpdate(t)
      PROVE  DraftOrigin' /\ Settling'
  <2> DEFINE u == DebitOf[req[t]].user
             e == Entry("usage_debit", req[t], u, -DebitOf[req[t]].amount)
  <2>1. req[t] \in Debits /\ pc[t] = "debit_update"
    BY <1>7 DEF DebitUpdate, Typed, RequestFits
  <2>2. u \in Users
    BY <2>1
  <2>3. e.type = "usage_debit" /\ e.ref = req[t]
    BY DEF Entry
  <2>4. WriteWallet(t, u, e, "commit", << >>)
    BY <1>7 DEF DebitUpdate, UpdateWallet
  <2> HIDE DEF e
  <2> QED
    BY <2>1, <2>2, <2>3, <2>4, WriteDrafts
<1>8. ASSUME NEW t \in Txs, AdjustUpdate(t), ~ Close(t)
      PROVE  DraftOrigin' /\ Settling'
  <2> DEFINE u == Head(todo[t])
             e == Entry("manual_adjustment", req[t].key, u, req[t].delta)
  <2>1. u \in Users /\ pc[t] = "adjust_update"
    BY <1>8 DEF AdjustUpdate, Typed, RequestFits, TypeOK
  <2>2. e.type = "manual_adjustment"
    BY DEF Entry
  <2>3. WriteWallet(t, u, e, "adjust_user", Tail(todo[t]))
    BY <1>8 DEF AdjustUpdate, UpdateWallet
  <2> HIDE DEF e, u
  <2> QED
    BY <2>1, <2>2, <2>3, WriteDrafts
\* The steps that only take wallet or batch rows.
<1>9. ASSUME NEW t \in Txs, NEW taken, taken \cap TopUps = {},
             pc[t] # "settle_credit", pc[t] # "commit",
             held' = [held EXCEPT ![t] = @ \cup taken],
             pc' = pc \/ \E step \in {"debit_update", "adjust_user", "adjust_update"} :
                            pc' = [pc EXCEPT ![t] = step],
             UNCHANGED <<req, draft>>
      PROVE  DraftOrigin' /\ Settling'
  <2>1. \A s \in Txs : TopUps \cap held'[s] = TopUps \cap held[s]
    BY <1>9 DEF Typed, TypeOK
  <2>2. DraftOrigin'
    BY <1>9, <2>1 DEF DraftOrigin
  <2>3. \A s \in Txs : pc'[s] = pc[s] \/ (s = t /\ pc'[s] # "settle_credit")
    BY <1>9 DEF Typed, TypeOK
  <2>4. \A k \in TopUps : k \notin held[t]
    BY <1>9 DEF Settling
  <2>5. \A s \in Txs : pc'[s] = "settle_credit" => req[s] \in held'[s]
    BY <1>9, <2>3 DEF Settling, Typed, TypeOK
  <2>6. Settling'
    BY <1>9, <2>1, <2>3, <2>4, <2>5 DEF Settling
  <2> QED
    BY <2>2, <2>6
<1>10. ASSUME NEW t \in Txs, DebitUpsert(t), ~ Close(t)
       PROVE  DraftOrigin' /\ Settling'
  <2> DEFINE taken == UpsertTakes(DebitOf[req[t]].user)
  <2>1. req[t] \in Debits
    BY <1>10 DEF DebitUpsert, Typed, RequestFits
  <2>2. taken \cap TopUps = {}
    BY <2>1 DEF UpsertTakes
  <2> HIDE DEF taken
  <2> QED
    BY <1>9, <1>10, <2>2 DEF DebitUpsert, taken
<1>11. ASSUME NEW t \in Txs, AdjustBatch(t), ~ Close(t)
       PROVE  DraftOrigin' /\ Settling'
  <2> DEFINE taken == {req[t].key}
  <2>1. req[t] \in Adjustments
    BY <1>11 DEF AdjustBatch, Typed, RequestFits
  <2>2. taken \cap TopUps = {}
    BY <2>1
  <2>3. /\ pc[t] = "adjust_batch"
        /\ held' = [held EXCEPT ![t] = @ \cup taken]
        /\ pc' = [pc EXCEPT ![t] = "adjust_user"]
        /\ UNCHANGED <<req, draft>>
    BY <1>11 DEF AdjustBatch
  <2> HIDE DEF taken
  <2> QED
    BY <1>9, <2>2, <2>3
<1>12. ASSUME NEW t \in Txs, AdjustUser(t)
       PROVE  DraftOrigin' /\ Settling'
  <2> DEFINE taken == UpsertTakes(Head(todo[t]))
  <2>1. Head(todo[t]) \in Users
    BY <1>12 DEF AdjustUser, Typed, TypeOK
  <2>2. taken \cap TopUps = {}
    BY <2>1 DEF UpsertTakes
  <2>3. /\ pc[t] = "adjust_user"
        /\ held' = [held EXCEPT ![t] = @ \cup taken]
        /\ pc' = pc \/ pc' = [pc EXCEPT ![t] = "adjust_update"]
        /\ UNCHANGED <<req, draft>>
    BY <1>12 DEF AdjustUser
  <2> HIDE DEF taken
  <2> QED
    BY <1>9, <2>2, <2>3
<1> QED
  BY <1>1, <1>2, <1>3, <1>4, <1>5, <1>6, <1>7, <1>8, <1>10, <1>11, <1>12
     DEF Next, CreateWallet, Commit, Rollback

\* Only a commit adds ledger rows, and only a commit or a cancellation moves a
\* top-up.
LEMMA LedgerFrame ==
  ASSUME [Next]_vars, ~ \E t \in Txs : Commit(t)
  PROVE  /\ ledger' = ledger
         /\ topUp' = topUp \/ \E k \in TopUps : CancelTopUp(k)
  BY DEF Next, vars, BeginCreateWallet, BeginSettle, BeginDebit, BeginAdjust, Begin,
         CreateWallet, SettleMark, SettleCredit, DebitUpsert, DebitUpdate, AdjustBatch,
         AdjustUser, AdjustUpdate, UpdateWallet, WriteWallet, Rollback, CancelTopUp,
         committed

\* The rows of a ledger after a commit: the old ones, then the drafted one.
LEMMA CommitRows ==
  ASSUME Typed, NEW t \in Txs, Commit(t), NEW u \in Users
  PROVE  /\ ledger[u] \in Seq(Entries)
         /\ \A i \in 1 .. Len(ledger[u]) : ledger'[u][i] = ledger[u][i]
         /\ draft[t][u] = << >> => Len(ledger'[u]) = Len(ledger[u])
         /\ draft[t][u] # << >> =>
               /\ Len(draft[t][u]) = 1
               /\ Len(ledger'[u]) = Len(ledger[u]) + 1
               /\ ledger'[u][Len(ledger[u]) + 1] = draft[t][u][1]
<1>1. ledger'[u] = ledger[u] \o draft[t][u]
  BY DEF Commit
<1>2. ledger[u] \in Seq(Entries)
  BY DEF Typed, TypeOK
<1>3. CASE draft[t][u] = << >>
  BY <1>1, <1>2, <1>3
<1>4. CASE draft[t][u] # << >>
  <2>1. PICK e \in Entries : draft[t][u] = <<e>>
    BY <1>4 DEF Typed, DraftFits
  <2> QED
    BY <1>1, <1>2, <2>1
<1> QED
  BY <1>3, <1>4

LEMMA StepKeys ==
  ASSUME Typed, DraftOrigin, KeysPostOnce, [Next]_vars
  PROVE  KeysPostOnce'
<1>1. ASSUME NEW t \in Txs, Commit(t)
      PROVE  KeysPostOnce'
  <2> SUFFICES ASSUME NEW u \in Users, NEW v \in Users,
                      NEW i \in 1 .. Len(ledger'[u]), NEW j \in 1 .. Len(ledger'[v]),
                      SameKey(u, ledger'[u][i], v, ledger'[v][j])
               PROVE  u = v /\ i = j
    BY DEF KeysPostOnce, SameKey
  <2> DEFINE Old(w, n) == n \in 1 .. Len(ledger[w])
             New(w, n) == draft[t][w] # << >> /\ n = Len(ledger[w]) + 1
  <2>1. ASSUME NEW w \in Users, NEW n \in 1 .. Len(ledger'[w])
        PROVE  \/ Old(w, n) /\ ledger'[w][n] = ledger[w][n]
               \/ New(w, n) /\ ledger'[w][n] = draft[t][w][1] /\ 1 \in 1 .. Len(draft[t][w])
    BY <1>1, CommitRows
  <2>2. \A x, y \in Users : \A m \in 1 .. Len(draft[t][x]), n \in 1 .. Len(ledger[y]) :
           ~ SameKey(x, draft[t][x][m], y, ledger[y][n])
    BY <1>1 DEF Commit, Duplicate
  <2>3. CASE Old(u, i) /\ Old(v, j)
    <3>1. ledger'[u][i] = ledger[u][i] /\ ledger'[v][j] = ledger[v][j]
      <4>1. Len(ledger[u]) \in Nat /\ Len(ledger[v]) \in Nat
        BY DEF Typed, TypeOK
      <4>2. i \in Nat /\ i <= Len(ledger[u]) /\ j \in Nat /\ j <= Len(ledger[v])
        BY <2>3, <4>1
      <4>3. i # Len(ledger[u]) + 1 /\ j # Len(ledger[v]) + 1
        BY <4>1, <4>2
      <4> QED
        BY <2>1, <4>3
    <3>2. SameKey(u, ledger[u][i], v, ledger[v][j])
      BY <3>1
    <3> QED
      BY <2>3, <3>2 DEF KeysPostOnce
  <2>n. \A w \in Users : \A n \in 1 .. Len(ledger'[w]) : ~(Old(w, n) /\ New(w, n))
    BY DEF Typed, TypeOK
  <2>4. CASE New(u, i) /\ Old(v, j)
    <3>1. /\ ledger'[u][i] = draft[t][u][1] /\ 1 \in 1 .. Len(draft[t][u])
          /\ ledger'[v][j] = ledger[v][j]
      BY <2>1, <2>4, <2>n
    <3> QED
      BY <2>2, <2>4, <3>1
  <2>5. CASE Old(u, i) /\ New(v, j)
    <3>1. SameKey(v, draft[t][v][1], u, ledger[u][i])
      <4>1. ledger'[v][j] = draft[t][v][1] /\ ledger'[u][i] = ledger[u][i]
        BY <2>1, <2>5, <2>n
      <4> QED
        BY <4>1 DEF SameKey
    <3>2. 1 \in 1 .. Len(draft[t][v])
      BY <1>1, <2>5, CommitRows
    <3> QED
      BY <2>2, <2>5, <3>1, <3>2
  <2>6. CASE New(u, i) /\ New(v, j)
    <3>1. SameKey(u, draft[t][u][1], v, draft[t][v][1])
      BY <1>1, <2>6, CommitRows
    <3>2. draft[t][u][1].type \in {"usage_debit", "manual_adjustment"}
      <4>1. PICK e \in Entries : draft[t][u] = <<e>>
        BY <2>6 DEF Typed, DraftFits
      <4> QED
        BY <3>1, <4>1 DEF SameKey, Entries
    <3>3. u = v
      BY <2>6, <3>1, <3>2 DEF SameKey, DraftOrigin
    <3> QED
      BY <2>6, <3>3
  <2> HIDE DEF Old, New
  <2> QED
    BY <2>1, <2>3, <2>4, <2>5, <2>6
<1>2. CASE ~ \E t \in Txs : Commit(t)
  BY <1>2, LedgerFrame DEF KeysPostOnce
<1> QED
  BY <1>1, <1>2

LEMMA StepSettled ==
  ASSUME Typed, DraftOrigin, Settling, SettledIffCredited, [Next]_vars
  PROVE  SettledIffCredited'
<1>1. ASSUME NEW t \in Txs, Commit(t)
      PROVE  SettledIffCredited'
  <2> SUFFICES ASSUME NEW k \in TopUps
               PROVE  (topUp'[k] = "succeeded") <=> (Credits(k)' # {})
    BY DEF SettledIffCredited
  <2> DEFINE u == OwnerOf[k]
  <2>1. u \in Users
    OBVIOUS
  <2>2. topUp'[k] = "succeeded" <=> (k \in held[t] \/ topUp[k] = "succeeded")
    BY <1>1 DEF Commit
  <2>3. Credits(k) \subseteq Credits(k)'
    BY <1>1, <2>1, CommitRows DEF Credits
  <2>4. ASSUME k \in held[t]
        PROVE  Credits(k)' # {}
    <3>1. pc[t] = "commit"
      BY <1>1, <2>4 DEF Commit, ReadyToCommit, Settling
    <3>2. /\ draft[t][u] # << >>
          /\ draft[t][u][1].type = "topup"
          /\ draft[t][u][1].ref = k
      BY <2>4, <3>1 DEF Settling
    <3>3. Len(ledger[u]) + 1 \in Credits(k)'
      BY <1>1, <2>1, <3>2, CommitRows DEF Credits
    <3> QED
      BY <3>3
  <2>5. ASSUME k \notin held[t]
        PROVE  Credits(k)' \subseteq Credits(k)
    <3> SUFFICES ASSUME NEW i \in 1 .. Len(ledger'[u]),
                        ledger'[u][i].type = "topup", ledger'[u][i].ref = k
                 PROVE  i \in 1 .. Len(ledger[u])
      BY <1>1, <2>1, CommitRows DEF Credits
    <3>1. ASSUME draft[t][u] # << >>
          PROVE  ~ (draft[t][u][1].type = "topup" /\ draft[t][u][1].ref = k)
      BY <2>1, <2>5, <3>1 DEF DraftOrigin
    <3> QED
      BY <1>1, <2>1, <3>1, CommitRows
  <2> QED
    BY <2>2, <2>3, <2>4, <2>5 DEF SettledIffCredited
<1>2. CASE ~ \E t \in Txs : Commit(t)
  <2>1. CASE topUp' = topUp
    BY <1>2, <2>1, LedgerFrame DEF SettledIffCredited, Credits
  <2>2. ASSUME NEW k \in TopUps, CancelTopUp(k)
        PROVE  SettledIffCredited'
    BY <1>2, <2>2, LedgerFrame DEF CancelTopUp, SettledIffCredited, Credits, Typed, TypeOK
  <2> QED
    BY <1>2, <2>1, <2>2, LedgerFrame
<1> QED
  BY <1>1, <1>2

LEMMA InitDrafts == Init => DraftOrigin /\ Settling /\ KeysPostOnce /\ SettledIffCredited
  BY DEF Init, NoDraft, DraftOrigin, Settling, KeysPostOnce, SettledIffCredited, Credits

\* No idempotency key reaches the ledger twice, however many calls with the
\* key run together.
THEOREM KeysPostOnceCorrect == Spec => []KeysPostOnce
<1>1. Init => Locked /\ DraftOrigin /\ Settling /\ KeysPostOnce
  BY InitLocked, InitDrafts
<1>2. /\ Locked /\ DraftOrigin /\ Settling /\ KeysPostOnce
      /\ [Next]_vars
      => (Locked /\ DraftOrigin /\ Settling /\ KeysPostOnce)'
  BY StepLocked, StepDrafts, StepKeys DEF Locked
<1> QED
  BY <1>1, <1>2, PTL DEF Spec

\* A top-up is marked succeeded exactly when its credit is in the ledger:
\* settleTopUp is atomic under every interleaving and rollback.
THEOREM SettlementAtomic == Spec => []SettledIffCredited
<1>1. Init => Locked /\ DraftOrigin /\ Settling /\ SettledIffCredited
  BY InitLocked, InitDrafts
<1>2. /\ Locked /\ DraftOrigin /\ Settling /\ SettledIffCredited
      /\ [Next]_vars
      => (Locked /\ DraftOrigin /\ Settling /\ SettledIffCredited)'
  BY StepLocked, StepDrafts, StepSettled DEF Locked
<1> QED
  BY <1>1, <1>2, PTL DEF Spec

-----------------------------------------------------------------------------
(* Balances that debits may not overdraw.                                  *)

Covered == UpsertLocks /\ Overdrafts = {}

\* A transaction that has compared a balance still holds the row, and the row
\* still covers what it is about to take.
Funded ==
  /\ \A u \in Users : balance[u] >= 0
  /\ \A t \in Txs :
        /\ \A u \in Users : draft[t][u] # << >> => draft[t][u][1].after >= 0
        /\ pc[t] = "debit_update" =>
              /\ DebitOf[req[t]].user \in held[t]
              /\ balance[DebitOf[req[t]].user] >= DebitOf[req[t]].amount
        /\ pc[t] = "adjust_update" =>
              /\ Head(todo[t]) \in held[t]
              /\ Seen(t, Head(todo[t])) + req[t].delta >= 0

\* A step that leaves balances alone, and of transactions touches only t.
LEMMA OthersFunded ==
  ASSUME Locked, Funded, NEW t \in Txs,
         UNCHANGED balance,
         \A s \in Txs \ {t} : /\ pc'[s] = pc[s] /\ req'[s] = req[s] /\ todo'[s] = todo[s]
                              /\ held'[s] = held[s] /\ draft'[s] = draft[s],
         \A u \in Users : draft'[t][u] # << >> => draft'[t][u][1].after >= 0,
         pc'[t] = "debit_update" =>
              /\ DebitOf[req'[t]].user \in held'[t]
              /\ balance[DebitOf[req'[t]].user] >= DebitOf[req'[t]].amount,
         pc'[t] = "adjust_update" =>
              /\ Head(todo'[t]) \in held'[t]
              /\ Seen(t, Head(todo[t]))' + req'[t].delta >= 0
  PROVE  Funded'
<1>1. \A u \in Users : balance'[u] >= 0
  BY DEF Funded
<1>2. ASSUME NEW s \in Txs \ {t}
      PROVE  /\ \A u \in Users : draft'[s][u] # << >> => draft'[s][u][1].after >= 0
             /\ pc'[s] = "debit_update" =>
                   /\ DebitOf[req'[s]].user \in held'[s]
                   /\ balance'[DebitOf[req'[s]].user] >= DebitOf[req'[s]].amount
             /\ pc'[s] = "adjust_update" =>
                   /\ Head(todo'[s]) \in held'[s]
                   /\ Seen(s, Head(todo[s]))' + req'[s].delta >= 0
  <2>1. /\ pc'[s] = pc[s] /\ req'[s] = req[s] /\ todo'[s] = todo[s]
        /\ held'[s] = held[s] /\ draft'[s] = draft[s]
    OBVIOUS
  <2>2. Seen(s, Head(todo[s]))' = Seen(s, Head(todo[s]))
    BY <2>1 DEF Seen
  <2> QED
    BY <2>1, <2>2 DEF Funded
<1> QED
  BY <1>1, <1>2 DEF Funded

LEMMA CloseFunded ==
  ASSUME Locked, Funded, NEW t \in Txs, Close(t), UNCHANGED balance
  PROVE  Funded'
<1>1. /\ pc'[t] = "idle"
      /\ \A u \in Users : draft'[t][u] = << >>
      /\ \A s \in Txs \ {t} : /\ pc'[s] = pc[s] /\ req'[s] = req[s] /\ todo'[s] = todo[s]
                              /\ held'[s] = held[s] /\ draft'[s] = draft[s]
  BY DEF Close, NoDraft, Locked, Typed, TypeOK
<1> QED
  BY <1>1, OthersFunded

LEMMA WriteFunded ==
  ASSUME Locked, Funded, NEW t \in Txs, NEW u \in Users, NEW e,
         NEW next \in {"commit", "adjust_user"}, NEW rest,
         WriteWallet(t, u, e, next, rest), e.after >= 0
  PROVE  Funded'
<1>1. CASE Close(t)
  BY <1>1, CloseFunded DEF WriteWallet, committed
<1>2. CASE /\ held'  = [held EXCEPT ![t] = @ \cup {u}]
           /\ draft' = [draft EXCEPT ![t][u] = <<e>>]
           /\ pc'    = [pc EXCEPT ![t] = next]
           /\ todo'  = [todo EXCEPT ![t] = rest]
           /\ UNCHANGED req
  <2>1. UNCHANGED balance
    BY DEF WriteWallet, committed
  <2>2. \A s \in Txs \ {t} : /\ pc'[s] = pc[s] /\ req'[s] = req[s] /\ todo'[s] = todo[s]
                             /\ held'[s] = held[s] /\ draft'[s] = draft[s]
    BY <1>2 DEF Locked, Typed, TypeOK
  <2>3. pc'[t] = next
    BY <1>2 DEF Locked, Typed, TypeOK
  <2>4. \A v \in Users : draft'[t][v] = IF v = u THEN <<e>> ELSE draft[t][v]
    BY <1>2 DEF Locked, Typed, TypeOK
  <2>5. \A v \in Users : draft'[t][v] # << >> => draft'[t][v][1].after >= 0
    BY <2>4 DEF Funded
  <2> QED
    BY <2>1, <2>2, <2>3, <2>5, OthersFunded
<1> QED
  BY <1>1, <1>2 DEF WriteWallet

\* A commit moves only rows the transaction holds, which nobody has compared.
LEMMA CommitFunded ==
  ASSUME Locked, Funded, NEW t \in Txs, Commit(t)
  PROVE  Funded'
<1>1. \A u \in Users : /\ balance'[u] = Seen(t, u)
                       /\ balance'[u] >= 0
                       /\ u \notin held[t] => balance'[u] = balance[u]
  <2> SUFFICES ASSUME NEW u \in Users
               PROVE  /\ balance'[u] = Seen(t, u)
                      /\ balance'[u] >= 0
                      /\ u \notin held[t] => balance'[u] = balance[u]
    OBVIOUS
  <2>1. balance'[u] = Seen(t, u)
    BY DEF Commit
  <2>2. Seen(t, u) >= 0
    BY DEF Funded, Seen
  <2>3. u \notin held[t] => Seen(t, u) = balance[u]
    BY SeenBalance
  <2> QED
    BY <2>1, <2>2, <2>3
<1>2. /\ pc'[t] = "idle"
      /\ \A u \in Users : draft'[t][u] = << >>
      /\ \A s \in Txs \ {t} : /\ pc'[s] = pc[s] /\ req'[s] = req[s] /\ todo'[s] = todo[s]
                              /\ held'[s] = held[s] /\ draft'[s] = draft[s]
  BY DEF Commit, Close, NoDraft, Locked, Typed, TypeOK
<1>3. ASSUME NEW s \in Txs \ {t}, pc[s] = "debit_update"
      PROVE  balance'[DebitOf[req[s]].user] = balance[DebitOf[req[s]].user]
  <2>1. DebitOf[req[s]].user \in Users
    BY <1>3 DEF Locked, Typed, RequestFits
  <2>2. DebitOf[req[s]].user \notin held[t]
    BY <1>3 DEF Funded, Locked, Exclusive
  <2> QED
    BY <1>1, <2>1, <2>2
<1>4. ASSUME NEW s \in Txs \ {t}, pc[s] = "adjust_update"
      PROVE  Seen(s, Head(todo[s]))' = Seen(s, Head(todo[s]))
  <2> DEFINE u == Head(todo[s])
  <2>1. u \in Users
    BY <1>4 DEF Locked, Typed, RequestFits, TypeOK
  <2>2. u \notin held[t]
    BY <1>4 DEF Funded, Locked, Exclusive
  <2> HIDE DEF u
  <2>3. balance'[u] = balance[u] /\ draft'[s] = draft[s]
    BY <1>1, <1>2, <2>1, <2>2
  <2>4. Seen(s, u)' = Seen(s, u)
    BY <1>2, <2>3 DEF Seen, u
  <2> QED
    BY <2>4 DEF u
<1>5. ASSUME NEW s \in Txs \ {t}
      PROVE  /\ \A u \in Users : draft'[s][u] # << >> => draft'[s][u][1].after >= 0
             /\ pc'[s] = "debit_update" =>
                   /\ DebitOf[req'[s]].user \in held'[s]
                   /\ balance'[DebitOf[req'[s]].user] >= DebitOf[req'[s]].amount
             /\ pc'[s] = "adjust_update" =>
                   /\ Head(todo'[s]) \in held'[s]
                   /\ Seen(s, Head(todo[s]))' + req'[s].delta >= 0
  BY <1>2, <1>3, <1>4 DEF Funded
<1> QED
  BY <1>1, <1>2, <1>5 DEF Funded

LEMMA StepFunded ==
  ASSUME Covered, Locked, Funded, [Next]_vars
  PROVE  Funded'
<1>1. CASE UNCHANGED vars
  BY <1>1 DEF vars, Funded, Seen
<1>2. ASSUME NEW k \in TopUps, CancelTopUp(k)
      PROVE  Funded'
  BY <1>2 DEF CancelTopUp, working, Funded, Seen
<1>3. ASSUME NEW t \in Txs, Close(t), UNCHANGED balance
      PROVE  Funded'
  BY <1>3, CloseFunded
<1>4. ASSUME NEW t \in Txs, Commit(t)
      PROVE  Funded'
  BY <1>4, CommitFunded
\* The steps that compare nothing.
<1>5. ASSUME NEW t \in Txs, NEW step \in Steps \ {"debit_update", "adjust_update"},
             UNCHANGED <<balance, draft>>,
             pc' = [pc EXCEPT ![t] = step],
             \A s \in Txs \ {t} : /\ req'[s] = req[s] /\ todo'[s] = todo[s]
                                  /\ held'[s] = held[s]
      PROVE  Funded'
  <2>1. /\ pc'[t] = step
        /\ \A s \in Txs \ {t} : pc'[s] = pc[s]
        /\ \A u \in Users : draft'[t][u] # << >> => draft'[t][u][1].after >= 0
    BY <1>5 DEF Locked, Typed, TypeOK, Funded
  <2> QED
    BY <1>5, <2>1, OthersFunded
<1>6. ASSUME NEW t \in Txs,
             \/ \E u \in Users : BeginCreateWallet(t, u)
             \/ \E k \in TopUps : BeginSettle(t, k)
             \/ \E d \in Debits : BeginDebit(t, d)
             \/ \E a \in Adjustments : BeginAdjust(t, a)
      PROVE  Funded'
  <2>1. PICK r, step : /\ Begin(t, r, step)
                       /\ step \in {"create_wallet", "settle_mark", "debit_upsert",
                                    "adjust_batch"}
    BY <1>6 DEF BeginCreateWallet, BeginSettle, BeginDebit, BeginAdjust
  <2>2. /\ UNCHANGED <<balance, draft>>
        /\ pc' = [pc EXCEPT ![t] = step]
        /\ \A s \in Txs \ {t} : /\ req'[s] = req[s] /\ todo'[s] = todo[s]
                                /\ held'[s] = held[s]
    BY <2>1 DEF Begin, committed, Locked, Typed, TypeOK
  <2> QED
    BY <1>5, <2>1, <2>2 DEF Steps
<1>7. ASSUME NEW t \in Txs, SettleMark(t)
      PROVE  Funded'
  <2>1. /\ UNCHANGED <<balance, draft>>
        /\ pc' = [pc EXCEPT ![t] = "settle_credit"]
        /\ \A s \in Txs \ {t} : /\ req'[s] = req[s] /\ todo'[s] = todo[s]
                                /\ held'[s] = held[s]
    BY <1>7 DEF SettleMark, committed, Locked, Typed, TypeOK
  <2> QED
    BY <1>5, <2>1 DEF Steps
<1>8. ASSUME NEW t \in Txs, SettleCredit(t)
      PROVE  Funded'
  <2> DEFINE u == OwnerOf[req[t]]
             e == Entry("topup", req[t], u, AmountOf[req[t]])
  <2>1. req[t] \in TopUps
    BY <1>8 DEF SettleCredit, Locked, Typed, RequestFits
  <2>2. u \in Users /\ e.after >= 0
    BY <2>1 DEF Funded, Entry, Locked, Typed, TypeOK, Int4
  <2>3. WriteWallet(t, u, e, "commit", << >>)
    BY <1>8 DEF SettleCredit, UpdateWallet
  <2> HIDE DEF e, u
  <2> QED
    BY <2>2, <2>3, WriteFunded
<1>9. ASSUME NEW t \in Txs, DebitUpsert(t), ~ Close(t)
      PROVE  Funded'
  <2> DEFINE d == DebitOf[req[t]]
  <2>1. req[t] \in Debits /\ d.user \in Users
    BY <1>9 DEF DebitUpsert, Locked, Typed, RequestFits
  <2>2. /\ ~ (balance[d.user] < d.amount)
        /\ held' = [held EXCEPT ![t] = @ \cup UpsertTakes(d.user)]
        /\ pc' = [pc EXCEPT ![t] = "debit_update"]
        /\ UNCHANGED <<balance, req, todo, draft>>
    BY <1>9 DEF DebitUpsert, committed
  <2>3. d.user \in held'[t]
    BY <2>2 DEF UpsertTakes, Covered, Locked, Typed, TypeOK
  <2>4. balance[d.user] >= d.amount
    BY <2>1, <2>2 DEF Locked, Typed, TypeOK, Int4
  <2>5. /\ pc'[t] = "debit_update"
        /\ \A s \in Txs \ {t} : pc'[s] = pc[s] /\ held'[s] = held[s]
        /\ \A u \in Users : draft'[t][u] # << >> => draft'[t][u][1].after >= 0
    BY <2>2 DEF Locked, Typed, TypeOK, Funded
  <2> QED
    BY <2>2, <2>3, <2>4, <2>5, OthersFunded
<1>10. ASSUME NEW t \in Txs, DebitUpdate(t)
       PROVE  Funded'
  <2> DEFINE u == DebitOf[req[t]].user
             e == Entry("usage_debit", req[t], u, -DebitOf[req[t]].amount)
  <2>1. req[t] \in Debits /\ pc[t] = "debit_update"
    BY <1>10 DEF DebitUpdate, Locked, Typed, RequestFits
  <2>2. u \in Users /\ e.after >= 0
    BY <2>1 DEF Funded, Entry, Locked, Typed, TypeOK, Int4
  <2>3. WriteWallet(t, u, e, "commit", << >>)
    BY <1>10 DEF DebitUpdate, UpdateWallet
  <2> HIDE DEF e, u
  <2> QED
    BY <2>2, <2>3, WriteFunded
<1>11. ASSUME NEW t \in Txs, AdjustBatch(t), ~ Close(t)
       PROVE  Funded'
  <2>1. /\ UNCHANGED <<balance, draft>>
        /\ pc' = [pc EXCEPT ![t] = "adjust_user"]
        /\ \A s \in Txs \ {t} : /\ req'[s] = req[s] /\ todo'[s] = todo[s]
                                /\ held'[s] = held[s]
    BY <1>11 DEF AdjustBatch, committed, Locked, Typed, TypeOK
  <2> QED
    BY <1>5, <2>1 DEF Steps
<1>12. ASSUME NEW t \in Txs, AdjustUser(t)
       PROVE  Funded'
  <2> DEFINE u == Head(todo[t])
             a == req[t]
  <2>1. /\ pc[t] = "adjust_user" /\ a \in Adjustments /\ ~ a.allowNegative
        /\ u \in Users
    BY <1>12 DEF AdjustUser, Locked, Typed, TypeOK, RequestFits, Covered, Overdrafts
  <2>2. /\ UNCHANGED <<balance, req, draft>>
        /\ \A s \in Txs \ {t} : pc'[s] = pc[s] /\ todo'[s] = todo[s] /\ held'[s] = held[s]
        /\ held'[t] = held[t] \cup UpsertTakes(u)
        /\ \A v \in Users : draft'[t][v] # << >> => draft'[t][v][1].after >= 0
    BY <1>12 DEF AdjustUser, committed, Locked, Typed, TypeOK, Funded
  <2>3. CASE Skips(a, t, u)
    <3>1. pc' = [pc EXCEPT ![t] = "adjust_user"]
      BY <1>12, <2>1, <2>3 DEF AdjustUser, Locked, Typed, TypeOK
    <3> QED
      BY <1>5, <2>2, <3>1 DEF Steps
  <2>4. CASE ~ Skips(a, t, u)
    <3>1. pc'[t] = "adjust_update" /\ todo' = todo
      BY <1>12, <2>4 DEF AdjustUser, Locked, Typed, TypeOK
    <3>2. u \in held'[t]
      BY <2>2 DEF UpsertTakes, Covered
    <3> HIDE DEF u
    <3>3. Seen(t, u)' = Seen(t, u)
      BY <1>12, <2>2, <3>1 DEF Seen, u
    <3>4. Seen(t, u) \in Int /\ Seen(t, u) >= 0
      <4>1. CASE draft[t][u] = << >>
        BY <2>1, <4>1 DEF Seen, Funded, Locked, Typed, TypeOK, Int4
      <4>2. CASE draft[t][u] # << >>
        <5>1. PICK e \in Entries : draft[t][u] = <<e>>
          BY <2>1, <4>2 DEF Locked, Typed, DraftFits
        <5>2. e.after \in Int
          BY DEF Entries, Int4
        <5>3. draft[t][u][1] = e
          BY <5>1
        <5>4. e.after >= 0
          BY <2>1, <4>2, <5>3 DEF Funded
        <5> QED
          BY <4>2, <5>2, <5>3, <5>4 DEF Seen
      <4> QED
        BY <4>1, <4>2
    <3>5. Seen(t, u) + a.delta >= 0
      BY <2>1, <2>4, <3>4 DEF Skips
    <3> QED
      BY <2>2, <3>1, <3>2, <3>3, <3>5, OthersFunded DEF u
  <2> QED
    BY <2>3, <2>4
<1>13. ASSUME NEW t \in Txs, AdjustUpdate(t), ~ Close(t)
       PROVE  Funded'
  <2> DEFINE u == Head(todo[t])
             e == Entry("manual_adjustment", req[t].key, u, req[t].delta)
  <2>1. /\ pc[t] = "adjust_update" /\ u \in Users /\ draft[t][u] = << >>
    BY <1>13 DEF AdjustUpdate, Locked, Typed, RequestFits, TypeOK
  <2>2. e.after >= 0
    BY <2>1 DEF Funded, Entry, Seen
  <2>3. WriteWallet(t, u, e, "adjust_user", Tail(todo[t]))
    BY <1>13 DEF AdjustUpdate, UpdateWallet
  <2> HIDE DEF e, u
  <2> QED
    BY <2>1, <2>2, <2>3, WriteFunded
<1>14. ASSUME NEW t \in Txs, CreateWallet(t) \/ Rollback(t) \/ DebitUpsert(t)
                             \/ AdjustBatch(t) \/ AdjustUpdate(t),
              Close(t)
       PROVE  Funded'
  <2>1. UNCHANGED balance
    BY <1>14 DEF CreateWallet, Rollback, DebitUpsert, AdjustBatch, AdjustUpdate,
                 UpdateWallet, WriteWallet, committed
  <2> QED
    BY <1>3, <1>14, <2>1
<1> QED
  BY <1>1, <1>2, <1>4, <1>6, <1>7, <1>8, <1>9, <1>10, <1>11, <1>12, <1>13, <1>14
     DEF Next, CreateWallet, Rollback

\* Without an adjustment that allows it, and with an upsert that locks what it
\* reads, debits and adjustments never take a balance below zero.
THEOREM NonNegativeCorrect == Spec => []BalanceNonNegative
<1>1. CASE Covered
  <2>1. Init => Locked /\ Funded
    <3>1. Init => Funded
      BY DEF Init, Funded, NoDraft
    <3> QED
      BY <3>1, InitLocked
  <2>2. Locked /\ Funded /\ [Next]_vars => (Locked /\ Funded)'
    BY <1>1, StepLocked, StepFunded
  <2>3. Funded => BalanceNonNegative
    BY DEF Funded, BalanceNonNegative
  <2> QED
    BY <2>1, <2>2, <2>3, PTL DEF Spec
<1>2. CASE ~ Covered
  <2>1. BalanceNonNegative
    BY <1>2 DEF Covered, BalanceNonNegative
  <2> QED
    BY <2>1, PTL
<1> QED
  BY <1>1, <1>2

-----------------------------------------------------------------------------
(* Refinement: WalletLedger implements Ledger, for any number of wallets,   *)
(* requests and concurrent transactions, and whether or not the upsert       *)
(* locks.                                                                   *)
(*                                                                         *)
(* A step that commits is a step of Ledger, every other one a stutter.  So *)
(* the invariant says what each transaction has done so far of the one     *)
(* operation that its commit will be (Whole), and that what it has read is *)
(* still so, since it holds the rows it has read.                          *)

\* A wallet exists before a top-up of its user does.
Owned == \A k \in TopUps : OwnerOf[k] \in wallets

\* The transaction has drafted e for wallet u, and nothing else.
Drafted(t, u, type, ref, delta) ==
  /\ draft[t] = [NoDraft EXCEPT ![u] = draft[t][u]]
  /\ draft[t][u] # << >>
  /\ draft[t][u][1].type = type
  /\ draft[t][u][1].ref = ref
  /\ draft[t][u][1].delta = delta

Settled(t) ==
  /\ req[t] \in TopUps
  /\ held[t] = {req[t], OwnerOf[req[t]]}
  /\ Drafted(t, OwnerOf[req[t]], "topup", req[t], AmountOf[req[t]])

\* The wallet covers the debit, if the upsert that read it has locked it.
Covers(t) ==
  UpsertLocks => /\ DebitOf[req[t]].user \in held[t]
                 /\ balance[DebitOf[req[t]].user] >= DebitOf[req[t]].amount

Debited(t) ==
  /\ req[t] \in Debits
  /\ held[t] = {DebitOf[req[t]].user}
  /\ Drafted(t, DebitOf[req[t]].user, "usage_debit", req[t], -DebitOf[req[t]].amount)
  /\ Covers(t)

Items(s) == {s[i] : i \in 1 .. Len(s)}

\* The users that an adjustment has yet to visit.
Left(t) == Items(todo[t])

\* The adjustment need not look at the balance.
Always(a) == a.delta > 0 \/ a.allowNegative

\* It has looked, and seen that the wallet can bear the change.
SeenToBear(t, u) ==
  Always(req[t]) \/ (UpsertLocks => u \in held[t] /\ balance[u] >= -req[t].delta)

\* It has looked, and seen that the wallet cannot.
SeenToSkip(t, u) ==
  ~ Always(req[t]) /\ (UpsertLocks => u \in held[t] /\ balance[u] < -req[t].delta)

Adjusting(t) ==
  LET a == req[t]
  IN  /\ a.key \in held[t] /\ a.key \notin batches
      /\ held[t] \subseteq {a.key} \cup Listed(a)
      /\ Left(t) \subseteq Listed(a)
      /\ \A u \in Listed(a) \ Left(t) : /\ u \in wallets \cup held[t]
                                        /\ draft[t][u] = << >> => SeenToSkip(t, u)
      /\ \A u \in Users : draft[t][u] # << >> =>
            /\ u \in Listed(a)
            /\ draft[t][u][1].type = "manual_adjustment"
            /\ draft[t][u][1].ref = a.key
            /\ draft[t][u][1].delta = a.delta
            /\ SeenToBear(t, u)

\* What transaction t has done, by the statement it is about to execute.
WholeOf(t) ==
  /\ pc[t] \in {"idle", "create_wallet", "settle_mark", "debit_upsert", "adjust_batch"} =>
        held[t] = {} /\ draft[t] = NoDraft
  /\ pc[t] = "settle_credit" => held[t] = {req[t]} /\ draft[t] = NoDraft
  /\ pc[t] = "debit_update" =>
        /\ held[t] \subseteq {DebitOf[req[t]].user}
        /\ draft[t] = NoDraft
        /\ Covers(t)
  /\ pc[t] = "commit" => Settled(t) \/ Debited(t)
  /\ pc[t] \in {"adjust_user", "adjust_update"} => Adjusting(t)
  /\ pc[t] = "adjust_update" /\ draft[t][Head(todo[t])] = << >> =>
        SeenToBear(t, Head(todo[t]))

Whole == Owned /\ \A t \in Txs : WholeOf(t)

-----------------------------------------------------------------------------
\* What other transactions commit leaves alone what t has read and locked.
LEMMA OthersWhole ==
  ASSUME Typed, NEW t \in Txs, WholeOf(t),
         pc'[t] = pc[t], req'[t] = req[t], todo'[t] = todo[t],
         held'[t] = held[t], draft'[t] = draft[t],
         wallets \subseteq wallets',
         \A u \in held[t] \cap Users : balance'[u] = balance[u],
         \A b \in held[t] \cap BatchKeys : b \in batches' => b \in batches
  PROVE  WholeOf(t)'
<1>1. ASSUME pc[t] \in {"debit_update", "commit"}, req[t] \in Debits, Covers(t)
      PROVE  Covers(t)'
  BY <1>1 DEF Covers
<1>2. Settled(t) => Settled(t)'
  BY DEF Settled, Drafted, NoDraft
<1>3. ASSUME pc[t] = "commit", Debited(t) PROVE Debited(t)'
  BY <1>1, <1>3 DEF Debited, Drafted, NoDraft
<1>4. ASSUME NEW u \in Users, req[t] \in Adjustments
      PROVE  /\ SeenToBear(t, u) => SeenToBear(t, u)'
             /\ SeenToSkip(t, u) => SeenToSkip(t, u)'
  BY <1>4 DEF SeenToBear, SeenToSkip, Always
<1>5. ASSUME pc[t] \in {"adjust_user", "adjust_update"}, Adjusting(t)
      PROVE  Adjusting(t)'
  <2>1. req[t] \in Adjustments /\ req[t].key \in BatchKeys /\ Listed(req[t]) \subseteq Users
    BY <1>5 DEF Typed, RequestFits, Listed
  <2>2. Left(t)' = Left(t)
    BY DEF Left
  <2> QED
    BY <1>4, <1>5, <2>1, <2>2 DEF Adjusting
<1>6. ASSUME pc[t] = "adjust_update", draft[t][Head(todo[t])] = << >>
      PROVE  SeenToBear(t, Head(todo[t]))'
  <2>1. Head(todo[t]) \in Users /\ req[t] \in Adjustments
    BY <1>6 DEF Typed, TypeOK, RequestFits
  <2>2. SeenToBear(t, Head(todo[t]))
    BY <1>6 DEF WholeOf
  <2> QED
    BY <1>4, <2>1, <2>2
<1>7. pc[t] = "debit_update" => req[t] \in Debits
  BY DEF Typed, RequestFits
<1>8. pc[t] = "debit_update" => held[t] \subseteq {DebitOf[req[t]].user} /\ draft[t] = NoDraft /\ Covers(t)'
  BY <1>1, <1>7 DEF WholeOf
<1>9. pc[t] = "commit" => Settled(t)' \/ Debited(t)'
  BY <1>2, <1>3 DEF WholeOf
<1>10. pc[t] \in {"adjust_user", "adjust_update"} => Adjusting(t)'
  BY <1>5 DEF WholeOf
<1> QED
  BY <1>6, <1>8, <1>9, <1>10 DEF WholeOf, NoDraft

\* Another transaction's working variables are left alone.
Alone(t) ==
  \A s \in Txs \ {t} : /\ pc'[s] = pc[s] /\ req'[s] = req[s] /\ todo'[s] = todo[s]
                       /\ held'[s] = held[s] /\ draft'[s] = draft[s]

\* A step of t changes only rows that t has locked.
OnlyLocked(t) ==
  /\ wallets \subseteq wallets'
  /\ \A u \in Users \ held[t] : balance'[u] = balance[u]
  /\ \A b \in BatchKeys \ held[t] : b \in batches' => b \in batches

\* So a step of t need only be looked at for t.
LEMMA ActorWhole ==
  ASSUME Locked, Whole, NEW t \in Txs, Alone(t), OnlyLocked(t), WholeOf(t)'
  PROVE  Whole'
<1>1. Owned'
  BY DEF Whole, Owned, OnlyLocked
<1>2. ASSUME NEW s \in Txs \ {t} PROVE WholeOf(s)'
  <2>1. held[s] \cap held[t] = {}
    BY DEF Locked, Exclusive
  <2>2. /\ \A u \in held[s] \cap Users : balance'[u] = balance[u]
        /\ \A b \in held[s] \cap BatchKeys : b \in batches' => b \in batches
    BY <2>1 DEF OnlyLocked
  <2>3. WholeOf(s) /\ wallets \subseteq wallets'
    BY DEF Whole, OnlyLocked
  <2>4. /\ pc'[s] = pc[s] /\ req'[s] = req[s] /\ todo'[s] = todo[s]
        /\ held'[s] = held[s] /\ draft'[s] = draft[s]
    BY DEF Alone
  <2> QED
    BY <2>2, <2>3, <2>4, OthersWhole DEF Locked
<1> QED
  BY <1>1, <1>2 DEF Whole

\* A transaction that is over has done nothing.
LEMMA CloseWhole ==
  ASSUME Locked, Whole, NEW t \in Txs, Close(t), OnlyLocked(t)
  PROVE  Whole'
<1>1. Alone(t)
  BY DEF Close, Alone, Locked, Typed, TypeOK
<1>2. pc'[t] = "idle" /\ held'[t] = {} /\ draft'[t] = NoDraft
  BY DEF Close, Locked, Typed, TypeOK
<1>3. WholeOf(t)'
  BY <1>2 DEF WholeOf, NoDraft
<1> QED
  BY <1>1, <1>3, ActorWhole

LEMMA BeginWhole ==
  ASSUME Locked, Whole, NEW t \in Txs, NEW r, NEW step, Begin(t, r, step),
         step \in {"create_wallet", "settle_mark", "debit_upsert", "adjust_batch"}
  PROVE  Whole'
<1>1. Alone(t) /\ OnlyLocked(t)
  BY DEF Begin, committed, Alone, OnlyLocked, Locked, Typed, TypeOK
<1>2. held[t] = {} /\ draft[t] = NoDraft
  BY DEF Begin, Whole, WholeOf
<1>3. pc'[t] = step /\ held'[t] = {} /\ draft'[t] = NoDraft
  BY <1>2 DEF Begin, Locked, Typed, TypeOK
<1>4. WholeOf(t)'
  BY <1>3 DEF WholeOf, NoDraft
<1> QED
  BY <1>1, <1>4, ActorWhole

LEMMA SettleMarkWhole ==
  ASSUME Locked, Whole, NEW t \in Txs, SettleMark(t)
  PROVE  Whole'
<1>1. Alone(t) /\ OnlyLocked(t)
  BY DEF SettleMark, committed, Alone, OnlyLocked, Locked, Typed, TypeOK
<1>2. held[t] = {} /\ draft[t] = NoDraft
  BY DEF SettleMark, Whole, WholeOf
<1>3. /\ pc'[t] = "settle_credit" /\ req'[t] = req[t]
      /\ held'[t] = {req[t]} /\ draft'[t] = NoDraft
  BY <1>2 DEF SettleMark, Locked, Typed, TypeOK
<1>4. WholeOf(t)'
  BY <1>3 DEF WholeOf, NoDraft
<1> QED
  BY <1>1, <1>4, ActorWhole

LEMMA DebitUpsertWhole ==
  ASSUME Locked, Whole, NEW t \in Txs, DebitUpsert(t)
  PROVE  Whole'
<1>1. OnlyLocked(t)
  BY DEF DebitUpsert, committed, OnlyLocked
<1>2. CASE Close(t)
  BY <1>1, <1>2, CloseWhole
<1>3. CASE ~ Close(t)
  <2> DEFINE d == DebitOf[req[t]]
  <2>1. /\ ~ (balance[d.user] < d.amount)
        /\ held' = [held EXCEPT ![t] = @ \cup UpsertTakes(d.user)]
        /\ pc'   = [pc EXCEPT ![t] = "debit_update"]
        /\ UNCHANGED <<req, todo, draft, balance>>
    BY <1>3 DEF DebitUpsert, committed
  <2>2. Alone(t)
    BY <2>1 DEF Alone, Locked, Typed, TypeOK
  <2>3. held[t] = {} /\ draft[t] = NoDraft
    BY DEF DebitUpsert, Whole, WholeOf
  <2>4. req[t] \in Debits
    BY DEF DebitUpsert, Locked, Typed, RequestFits
  <2>5. d.user \in Users /\ d.amount \in Nat /\ balance[d.user] \in Int
    BY <2>4 DEF Locked, Typed, TypeOK, Int4
  <2>6. /\ pc'[t] = "debit_update" /\ req'[t] = req[t]
        /\ held'[t] = UpsertTakes(d.user) /\ draft'[t] = NoDraft
    BY <2>1, <2>3 DEF Locked, Typed, TypeOK
  <2>7. balance[d.user] >= d.amount
    BY <2>1, <2>5
  <2>8. Covers(t)'
    BY <2>1, <2>6, <2>7 DEF Covers, UpsertTakes
  <2>9. WholeOf(t)'
    BY <2>6, <2>8 DEF WholeOf, NoDraft, UpsertTakes
  <2> QED
    BY <1>1, <2>2, <2>9, ActorWhole
<1> QED
  BY <1>2, <1>3

\* The step of a settlement or a debit that drafts its one row.
DraftsOne(t, u, e) ==
  /\ pc'[t] = "commit" /\ req'[t] = req[t]
  /\ held'[t] = held[t] \cup {u}
  /\ draft'[t] = [NoDraft EXCEPT ![u] = draft'[t][u]]
  /\ draft'[t][u] = <<e>>
  /\ Alone(t) /\ OnlyLocked(t) /\ UNCHANGED balance

LEMMA WriteOne ==
  ASSUME Typed, NEW t \in Txs, NEW u \in Users, NEW e,
         draft[t] = NoDraft, UpdateWallet(t, u, e, "commit", << >>), ~ Close(t)
  PROVE  DraftsOne(t, u, e)
<1>1. /\ held'  = [held EXCEPT ![t] = @ \cup {u}]
      /\ draft' = [draft EXCEPT ![t][u] = <<e>>]
      /\ pc'    = [pc EXCEPT ![t] = "commit"]
      /\ todo'  = [todo EXCEPT ![t] = << >>]
      /\ UNCHANGED req /\ UNCHANGED committed
  BY DEF UpdateWallet, WriteWallet
<1>2. Alone(t) /\ OnlyLocked(t)
  BY <1>1 DEF committed, Alone, OnlyLocked, Typed, TypeOK
<1>3. draft'[t] = [NoDraft EXCEPT ![u] = <<e>>] /\ draft'[t][u] = <<e>>
  BY <1>1 DEF Typed, TypeOK, NoDraft
<1> QED
  BY <1>1, <1>2, <1>3 DEF DraftsOne, committed, Typed, TypeOK

LEMMA SettleCreditWhole ==
  ASSUME Locked, Whole, NEW t \in Txs, SettleCredit(t)
  PROVE  Whole'
<1> DEFINE k == req[t]
           u == OwnerOf[k]
           e == Entry("topup", k, u, AmountOf[k])
<1>1. UpdateWallet(t, u, e, "commit", << >>)
  BY DEF SettleCredit
<1>2. k \in TopUps /\ u \in Users
  BY DEF SettleCredit, Locked, Typed, RequestFits
<1>3. held[t] = {k}
  BY DEF SettleCredit, Whole, WholeOf
<1>7. draft[t] = NoDraft
  BY DEF SettleCredit, Whole, WholeOf
<1>4. e.type = "topup" /\ e.ref = k /\ e.delta = AmountOf[k]
  BY DEF Entry
<1>0. Typed
  BY DEF Locked
<1> HIDE DEF u, e
<1>5. CASE Close(t)
  <2>1. OnlyLocked(t)
    BY <1>1 DEF UpdateWallet, WriteWallet, committed, OnlyLocked
  <2> QED
    BY <1>5, <2>1, CloseWhole
<1>6. CASE ~ Close(t)
  <2>1. DraftsOne(t, u, e)
    BY <1>0, <1>1, <1>2, <1>6, <1>7, WriteOne
  <2>2. Settled(t)'
    BY <1>2, <1>3, <1>4, <2>1 DEF DraftsOne, Settled, Drafted, NoDraft, u
  <2>3. WholeOf(t)'
    BY <2>1, <2>2 DEF DraftsOne, WholeOf
  <2> QED
    BY <2>1, <2>3, ActorWhole DEF DraftsOne
<1> QED
  BY <1>5, <1>6

LEMMA DebitUpdateWhole ==
  ASSUME Locked, Whole, NEW t \in Txs, DebitUpdate(t)
  PROVE  Whole'
<1> DEFINE d == DebitOf[req[t]]
           u == d.user
           e == Entry("usage_debit", req[t], u, -d.amount)
<1>1. UpdateWallet(t, u, e, "commit", << >>)
  BY DEF DebitUpdate
<1>2. req[t] \in Debits /\ u \in Users
  BY DEF DebitUpdate, Locked, Typed, RequestFits
<1>3. held[t] \subseteq {u} /\ Covers(t)
  BY DEF DebitUpdate, Whole, WholeOf
<1>7. draft[t] = NoDraft
  BY DEF DebitUpdate, Whole, WholeOf
<1>4. e.type = "usage_debit" /\ e.ref = req[t] /\ e.delta = -d.amount
  BY DEF Entry
<1>0. Typed
  BY DEF Locked
<1> HIDE DEF u, e
<1>5. CASE Close(t)
  <2>1. OnlyLocked(t)
    BY <1>1 DEF UpdateWallet, WriteWallet, committed, OnlyLocked
  <2> QED
    BY <1>5, <2>1, CloseWhole
<1>6. CASE ~ Close(t)
  <2>1. DraftsOne(t, u, e)
    BY <1>0, <1>1, <1>2, <1>6, <1>7, WriteOne
  <2>2. Covers(t)'
    BY <1>3, <2>1 DEF DraftsOne, Covers
  <2>3. held'[t] = {u}
    BY <1>3, <2>1 DEF DraftsOne
  <2>4. Drafted(t, u, "usage_debit", req[t], -d.amount)'
    BY <1>4, <2>1 DEF DraftsOne, Drafted, NoDraft, u
  <2>5. Debited(t)'
    BY <1>2, <2>1, <2>2, <2>3, <2>4 DEF DraftsOne, Debited, u
  <2>6. WholeOf(t)'
    BY <2>1, <2>5 DEF DraftsOne, WholeOf
  <2> QED
    BY <2>1, <2>6, ActorWhole DEF DraftsOne
<1> QED
  BY <1>5, <1>6

-----------------------------------------------------------------------------
(* The adjustments.                                                        *)

LEMMA AdjustBatchWhole ==
  ASSUME Locked, Whole, NEW t \in Txs, AdjustBatch(t)
  PROVE  Whole'
<1> DEFINE a == req[t]
<1>1. OnlyLocked(t)
  BY DEF AdjustBatch, committed, OnlyLocked
<1>2. CASE Close(t)
  BY <1>1, <1>2, CloseWhole
<1>3. CASE ~ Close(t)
  <2>1. /\ a.key \notin batches
        /\ held' = [held EXCEPT ![t] = @ \cup {a.key}]
        /\ todo' = [todo EXCEPT ![t] = a.users]
        /\ pc'   = [pc EXCEPT ![t] = "adjust_user"]
        /\ UNCHANGED <<req, draft, batches>>
    BY <1>3 DEF AdjustBatch, committed
  <2>2. Alone(t)
    BY <2>1 DEF Alone, Locked, Typed, TypeOK
  <2>3. held[t] = {} /\ draft[t] = NoDraft
    BY DEF AdjustBatch, Whole, WholeOf
  <2>4. /\ pc'[t] = "adjust_user" /\ req'[t] = a /\ todo'[t] = a.users
        /\ held'[t] = {a.key} /\ draft'[t] = NoDraft
    BY <2>1, <2>3 DEF Locked, Typed, TypeOK
  <2>5. Left(t)' = Listed(a)
    BY <2>4 DEF Left, Items, Listed
  <2>6. Adjusting(t)'
    BY <2>1, <2>4, <2>5 DEF Adjusting, NoDraft
  <2>7. WholeOf(t)'
    BY <2>4, <2>6 DEF WholeOf
  <2> QED
    BY <1>1, <2>2, <2>7, ActorWhole
<1> QED
  BY <1>2, <1>3

\* A list is its head and its tail.
LEMMA HeadAndTail ==
  ASSUME NEW S, NEW s \in Seq(S), s # << >>
  PROVE  /\ Items(s) = {Head(s)} \cup Items(Tail(s))
         /\ Items(Tail(s)) \subseteq Items(s)
<1> DEFINE r == Tail(s)
<1>1. /\ Len(s) \in Nat /\ Len(s) >= 1 /\ Head(s) = s[1]
      /\ Len(r) = Len(s) - 1
      /\ \A i \in 1 .. Len(r) : r[i] = s[i + 1]
  OBVIOUS
<1> HIDE DEF r
<1>2. ASSUME NEW i \in 1 .. Len(s) PROVE s[i] \in {Head(s)} \cup Items(r)
  <2>1. CASE i = 1
    BY <1>1, <2>1
  <2>2. CASE i # 1
    <3>1. i - 1 \in 1 .. Len(r) /\ r[i - 1] = s[i]
      BY <1>1, <2>2
    <3> QED
      BY <3>1 DEF Items
  <2> QED
    BY <2>1, <2>2
<1>3. Head(s) \in Items(s)
  BY <1>1 DEF Items
<1>4. ASSUME NEW j \in 1 .. Len(r) PROVE r[j] \in Items(s)
  <2>1. j + 1 \in 1 .. Len(s) /\ r[j] = s[j + 1]
    BY <1>1
  <2> QED
    BY <2>1 DEF Items
<1>5. Items(s) \subseteq {Head(s)} \cup Items(r)
  BY <1>2 DEF Items
<1>6. Items(r) \subseteq Items(s)
  BY <1>4 DEF Items
<1>7. Items(s) = {Head(s)} \cup Items(r)
  BY <1>3, <1>5, <1>6
<1> QED
  BY <1>6, <1>7 DEF r

LEMMA AdjustUserWhole ==
  ASSUME Locked, Whole, NEW t \in Txs, AdjustUser(t)
  PROVE  Whole'
<1> DEFINE a == req[t]
           s == todo[t]
<1>0. PICK u : u = Head(todo[t])
  OBVIOUS
<1>1. /\ pc[t] = "adjust_user" /\ s # << >>
      /\ held' = [held EXCEPT ![t] = @ \cup UpsertTakes(u)]
      /\ UNCHANGED <<req, draft, wallets, balance, batches>>
  BY <1>0 DEF AdjustUser, committed
<1>2. /\ pc \in [Txs -> Steps] /\ todo \in [Txs -> Seq(Users)]
      /\ held \in [Txs -> SUBSET Rows] /\ balance \in [Users -> Int]
      /\ a \in Adjustments /\ u \in Users
  BY <1>0, <1>1 DEF Locked, Typed, TypeOK, RequestFits, Int4
<1>3. \/ Skips(a, t, u) /\ todo' = [todo EXCEPT ![t] = Tail(s)] /\ pc' = pc
      \/ ~ Skips(a, t, u) /\ pc' = [pc EXCEPT ![t] = "adjust_update"] /\ todo' = todo
  BY <1>0 DEF AdjustUser
<1>4. Alone(t) /\ OnlyLocked(t)
  BY <1>1, <1>2, <1>3 DEF Alone, OnlyLocked
<1>5. /\ held'[t] = held[t] \cup UpsertTakes(u) /\ req'[t] = a /\ draft'[t] = draft[t]
      /\ u \in wallets \cup held'[t] /\ (UpsertLocks => u \in held'[t])
  BY <1>1, <1>2 DEF UpsertTakes
<1>6. Adjusting(t)
  BY <1>1 DEF Whole, WholeOf
<1>7. Left(t) = {u} \cup Items(Tail(s)) /\ Items(Tail(s)) \subseteq Left(t)
  BY <1>0, <1>1, <1>2, HeadAndTail DEF Left
<1>8. u \in Listed(a)
  BY <1>6, <1>7 DEF Adjusting
<1>9. a.delta \in Int /\ balance[u] \in Int
  BY <1>2
<1>10. ASSUME NEW v \in Users
       PROVE  /\ SeenToBear(t, v) => SeenToBear(t, v)'
              /\ SeenToSkip(t, v) => SeenToSkip(t, v)'
  BY <1>1, <1>5 DEF SeenToBear, SeenToSkip
<1>11. CASE Skips(a, t, u) /\ todo' = [todo EXCEPT ![t] = Tail(s)] /\ pc' = pc
  <2>1. Left(t)' \subseteq Left(t) /\ Left(t) \subseteq {u} \cup Left(t)'
    BY <1>2, <1>7, <1>11 DEF Left
  <2>2. draft[t][u] = << >> => SeenToSkip(t, u)'
    BY <1>1, <1>5, <1>9, <1>11 DEF Skips, Seen, SeenToSkip, Always
  <2>3. Listed(a) \subseteq Users
    BY <1>2 DEF Listed
  <2>4. ASSUME NEW v \in Listed(a) \ Left(t)'
        PROVE  v \in wallets \cup held'[t] /\ (draft[t][v] = << >> => SeenToSkip(t, v)')
    <3>1. CASE v = u
      BY <1>5, <2>2, <3>1
    <3>2. CASE v \notin Left(t)
      BY <1>5, <1>6, <1>10, <2>3, <3>2 DEF Adjusting
    <3> QED
      BY <2>1, <3>1, <3>2
  <2>5. Adjusting(t)'
    BY <1>1, <1>5, <1>6, <1>8, <1>10, <2>1, <2>4 DEF Adjusting, UpsertTakes
  <2>6. pc'[t] = "adjust_user"
    BY <1>1, <1>11
  <2>7. WholeOf(t)'
    BY <2>5, <2>6 DEF WholeOf
  <2> QED
    BY <1>4, <2>7, ActorWhole
<1>12. CASE ~ Skips(a, t, u) /\ pc' = [pc EXCEPT ![t] = "adjust_update"] /\ todo' = todo
  <2>1. Left(t)' = Left(t)
    BY <1>12 DEF Left
  <2>2. Listed(a) \subseteq Users
    BY <1>2 DEF Listed
  <2>3. Adjusting(t)'
    BY <1>1, <1>5, <1>6, <1>8, <1>10, <2>1, <2>2 DEF Adjusting, UpsertTakes
  <2>4. draft[t][u] = << >> => SeenToBear(t, u)'
    BY <1>1, <1>2, <1>5, <1>9, <1>12 DEF Skips, Seen, SeenToBear, Always
  <2>5. pc'[t] = "adjust_update" /\ Head(todo'[t]) = u
    BY <1>0, <1>2, <1>12
  <2>6. WholeOf(t)'
    BY <1>5, <2>3, <2>4, <2>5 DEF WholeOf, SeenToBear
  <2> QED
    BY <1>4, <2>6, ActorWhole
<1> QED
  BY <1>3, <1>11, <1>12

LEMMA AdjustUpdateWhole ==
  ASSUME Locked, Whole, NEW t \in Txs, AdjustUpdate(t)
  PROVE  Whole'
<1> DEFINE a == req[t]
           s == todo[t]
<1>0. PICK u : u = Head(todo[t])
  OBVIOUS
<1>1. OnlyLocked(t)
  BY DEF AdjustUpdate, UpdateWallet, WriteWallet, committed, OnlyLocked
<1>2. CASE Close(t)
  BY <1>1, <1>2, CloseWhole
<1>3. CASE ~ Close(t)
  <2>0. PICK e : e = Entry("manual_adjustment", a.key, u, a.delta)
    OBVIOUS
  <2>1. /\ pc[t] = "adjust_update" /\ draft[t][u] = << >>
        /\ held'  = [held EXCEPT ![t] = @ \cup {u}]
        /\ draft' = [draft EXCEPT ![t][u] = <<e>>]
        /\ pc'    = [pc EXCEPT ![t] = "adjust_user"]
        /\ todo'  = [todo EXCEPT ![t] = Tail(s)]
        /\ UNCHANGED <<req, wallets, balance, batches>>
    BY <1>0, <1>3, <2>0 DEF AdjustUpdate, UpdateWallet, WriteWallet, committed
  <2>2. /\ pc \in [Txs -> Steps] /\ todo \in [Txs -> Seq(Users)]
        /\ held \in [Txs -> SUBSET Rows] /\ draft \in [Txs -> [Users -> Seq(Entries)]]
        /\ a \in Adjustments /\ s # << >> /\ u \in Users
    BY <1>0, <2>1 DEF Locked, Typed, TypeOK, RequestFits
  <2>3. Alone(t)
    BY <2>1, <2>2 DEF Alone
  <2>4. /\ pc'[t] = "adjust_user" /\ req'[t] = a /\ todo'[t] = Tail(s)
        /\ held'[t] = held[t] \cup {u} /\ draft'[t][u] = <<e>>
        /\ \A v \in Users \ {u} : draft'[t][v] = draft[t][v]
    BY <2>1, <2>2
  <2>5. Left(t) = {u} \cup Left(t)' /\ Left(t)' \subseteq Left(t)
    BY <1>0, <2>2, <2>4, HeadAndTail DEF Left
  <2>6. Adjusting(t) /\ SeenToBear(t, u)
    BY <1>0, <2>1 DEF Whole, WholeOf
  <2>7. u \in Listed(a) /\ Listed(a) \subseteq Users
    <3>1. u \in Listed(a)
      BY <2>5, <2>6 DEF Adjusting
    <3>2. Listed(a) \subseteq Users
      BY <2>2 DEF Listed
    <3> QED
      BY <3>1, <3>2
  <2>8. e.type = "manual_adjustment" /\ e.ref = a.key /\ e.delta = a.delta
    BY <2>0 DEF Entry
  <2>9. ASSUME NEW v \in Users
        PROVE  /\ SeenToBear(t, v) => SeenToBear(t, v)'
               /\ SeenToSkip(t, v) => SeenToSkip(t, v)'
    BY <2>1, <2>4 DEF SeenToBear, SeenToSkip
  <2>10. ASSUME NEW v \in Listed(a) \ Left(t)'
         PROVE  v \in wallets \cup held'[t] /\ (draft'[t][v] = << >> => SeenToSkip(t, v)')
    <3>1. CASE v = u
      <4>1. u \in held'[t] /\ draft'[t][u] # << >>
        BY <2>4
      <4> QED
        BY <3>1, <4>1
    <3>2. CASE v # u
      <4>1. v \in Listed(a) \ Left(t) /\ v \in Users
        BY <2>5, <2>7, <3>2
      <4>2. v \in wallets \cup held[t] /\ (draft[t][v] = << >> => SeenToSkip(t, v))
        BY <2>6, <4>1 DEF Adjusting
      <4> QED
        BY <2>4, <2>9, <3>2, <4>1, <4>2
    <3> QED
      BY <3>1, <3>2
  <2>11. ASSUME NEW v \in Users, draft'[t][v] # << >>
         PROVE  /\ v \in Listed(a)
                /\ draft'[t][v][1].type = "manual_adjustment"
                /\ draft'[t][v][1].ref = a.key
                /\ draft'[t][v][1].delta = a.delta
                /\ SeenToBear(t, v)'
    <3>1. CASE v = u
      BY <2>4, <2>6, <2>7, <2>8, <2>9, <3>1
    <3>2. CASE v # u
      BY <2>4, <2>6, <2>9, <2>11, <3>2 DEF Adjusting
    <3> QED
      BY <3>1, <3>2
  <2>12. Adjusting(t)'
    BY <2>1, <2>4, <2>5, <2>6, <2>7, <2>10, <2>11 DEF Adjusting
  <2>13. WholeOf(t)'
    BY <2>4, <2>12 DEF WholeOf
  <2> QED
    BY <1>1, <2>3, <2>13, ActorWhole
<1> QED
  BY <1>2, <1>3

\* A commit changes the rows that its transaction has locked, and no others.
LEMMA CommitOnlyLocked ==
  ASSUME Locked, NEW t \in Txs, Commit(t)
  PROVE  OnlyLocked(t)
<1>1. \A u \in Users \ held[t] : balance'[u] = balance[u]
  BY SeenBalance DEF Commit
<1> QED
  BY <1>1 DEF Commit, OnlyLocked

LEMMA StepWhole ==
  ASSUME Locked, Whole, [Next]_vars
  PROVE  Whole'
<1>1. ASSUME UNCHANGED <<wallets, balance, batches, pc, req, todo, held, draft>>
      PROVE  Whole'
  <2>1. ASSUME NEW t \in Txs PROVE WholeOf(t)'
    BY <1>1, OthersWhole DEF Locked, Whole
  <2> QED
    BY <1>1, <2>1 DEF Whole, Owned
<1>2. CASE UNCHANGED vars \/ \E k \in TopUps : CancelTopUp(k)
  BY <1>1, <1>2 DEF vars, CancelTopUp, working
<1>3. ASSUME NEW t \in Txs,
             \/ \E u \in Users : BeginCreateWallet(t, u)
             \/ \E k \in TopUps : BeginSettle(t, k)
             \/ \E d \in Debits : BeginDebit(t, d)
             \/ \E a \in Adjustments : BeginAdjust(t, a)
      PROVE  Whole'
  BY <1>3, BeginWhole DEF BeginCreateWallet, BeginSettle, BeginDebit, BeginAdjust
<1>4. ASSUME NEW t \in Txs, CreateWallet(t) \/ Rollback(t)
      PROVE  Whole'
  <2>1. Close(t) /\ OnlyLocked(t)
    BY <1>4 DEF CreateWallet, Rollback, committed, OnlyLocked
  <2> QED
    BY <2>1, CloseWhole
<1>5. ASSUME NEW t \in Txs, Commit(t)
      PROVE  Whole'
  <2>1. Close(t) /\ OnlyLocked(t)
    BY <1>5, CommitOnlyLocked DEF Commit
  <2> QED
    BY <2>1, CloseWhole
<1>6. ASSUME NEW t \in Txs, SettleMark(t) \/ SettleCredit(t)
      PROVE  Whole'
  BY <1>6, SettleMarkWhole, SettleCreditWhole
<1>7. ASSUME NEW t \in Txs, DebitUpsert(t) \/ DebitUpdate(t)
      PROVE  Whole'
  BY <1>7, DebitUpsertWhole, DebitUpdateWhole
<1>8. ASSUME NEW t \in Txs, AdjustBatch(t) \/ AdjustUser(t) \/ AdjustUpdate(t)
      PROVE  Whole'
  BY <1>8, AdjustBatchWhole, AdjustUserWhole, AdjustUpdateWhole
<1> QED
  BY <1>2, <1>3, <1>4, <1>5, <1>6, <1>7, <1>8 DEF Next

LEMMA InitWhole == Init => Whole
  BY DEF Init, Whole, Owned, WholeOf, NoDraft

-----------------------------------------------------------------------------
(* Every commit is one operation of Ledger.                                *)

\* The committed tables move as if S, and only S, had been posted to.
LEMMA CommitPosts ==
  ASSUME Locked, NEW t \in Txs, Commit(t), NEW S \in SUBSET Users,
         NEW type, NEW ref, NEW delta \in Int,
         \A u \in Users : draft[t][u] # << >> <=> u \in S,
         \A u \in S : /\ draft[t][u][1].type = type
                      /\ draft[t][u][1].ref = ref
                      /\ draft[t][u][1].delta = delta
  PROVE  Contract!Post(S, type, ref, delta)
<1> DEFINE Row(u) == [type |-> type, ref |-> ref, delta |-> delta,
                      after |-> balance[u] + delta]
<1>1. ASSUME NEW u \in S
      PROVE  draft[t][u] = <<Row(u)>>
  <2>1. PICK e \in Entries : draft[t][u] = <<e>>
    BY DEF Locked, Typed, DraftFits
  <2>2. e.type = type /\ e.ref = ref /\ e.delta = delta /\ e.after = balance[u] + delta
    BY <2>1 DEF Locked, DraftOnBalance
  <2>3. e = Row(u)
    BY <2>2 DEF Entries
  <2> QED
    BY <2>1, <2>3
<1>2. \A u \in Users : /\ ledger[u] \in Seq(Entries)
                       /\ u \notin S => draft[t][u] = << >>
  BY DEF Locked, Typed, TypeOK
<1>3. ASSUME NEW u \in Users
      PROVE  Seen(t, u) = IF u \in S THEN balance[u] + delta ELSE balance[u]
  <2>1. CASE u \in S
    <3>1. draft[t][u] # << >> /\ draft[t][u][1].after = balance[u] + delta
      BY <2>1 DEF Locked, DraftOnBalance
    <3> QED
      BY <2>1, <3>1 DEF Seen
  <2>2. CASE u \notin S
    BY <1>2, <2>2 DEF Seen
  <2> QED
    BY <2>1, <2>2
<1>4. ASSUME NEW u \in Users
      PROVE  ledger[u] \o draft[t][u] = IF u \in S THEN Append(ledger[u], Row(u)) ELSE ledger[u]
  <2>0. ledger[u] \in Seq(Entries)
    BY <1>2
  <2>1. CASE u \in S
    <3>1. draft[t][u] = <<Row(u)>>
      BY <1>1, <2>1
    <3>2. PICK e \in Entries : draft[t][u] = <<e>>
      BY <2>1 DEF Locked, Typed, DraftFits
    <3> HIDE DEF Row
    <3>3. ledger[u] \o <<e>> = Append(ledger[u], e) /\ e = Row(u)
      BY <2>0, <3>1, <3>2
    <3> QED
      BY <2>1, <3>2, <3>3
  <2>2. CASE u \notin S
    <3>1. ledger[u] \o << >> = ledger[u]
      BY <2>0
    <3> QED
      BY <1>2, <2>2, <3>1
  <2> QED
    BY <2>1, <2>2
<1>5. balance' = [u \in Users |-> IF u \in S THEN balance[u] + delta ELSE balance[u]]
  BY <1>3 DEF Commit
<1>6. ledger' = [u \in Users |-> IF u \in S THEN Append(ledger[u], Row(u)) ELSE ledger[u]]
  BY <1>4 DEF Commit
<1> QED
  BY <1>5, <1>6 DEF Contract!Post

LEMMA CommitSettles ==
  ASSUME Locked, Whole, NEW t \in Txs, Commit(t), Settled(t)
  PROVE  Contract!Settle(req[t])
<1> DEFINE k == req[t]
           o == OwnerOf[k]
<1>1. k \in TopUps /\ o \in Users /\ o \in wallets /\ AmountOf[k] \in Int
  BY DEF Settled, Whole, Owned
<1>2. held[t] = {k, o}
  BY DEF Settled
<1>3. /\ \A u \in Users : draft[t][u] # << >> <=> u \in {o}
      /\ \A u \in {o} : /\ draft[t][u][1].type = "topup"
                        /\ draft[t][u][1].ref = k
                        /\ draft[t][u][1].delta = AmountOf[k]
  BY <1>1 DEF Settled, Drafted, NoDraft
<1>4. Contract!Post({o}, "topup", k, AmountOf[k])
  BY <1>1, <1>3, CommitPosts
<1>5. held[t] \cap Users = {o} /\ held[t] \cap BatchKeys = {} /\ held[t] \cap TopUps = {k}
  BY <1>1, <1>2
<1>6. wallets' = wallets /\ batches' = batches
  BY <1>1, <1>5 DEF Commit
<1>7. topUp' = [topUp EXCEPT ![k] = "succeeded"]
  BY <1>5 DEF Commit, Locked, Typed, TypeOK
<1> QED
  BY <1>4, <1>6, <1>7 DEF Contract!Settle

LEMMA CommitDebits ==
  ASSUME Locked, Whole, NEW t \in Txs, Commit(t), Debited(t)
  PROVE  Contract!Debit(req[t])
<1> DEFINE d == req[t]
           o == DebitOf[d].user
<1>1. d \in Debits /\ o \in Users /\ DebitOf[d].amount \in Int
  BY DEF Debited
<1>2. held[t] = {o}
  BY DEF Debited
<1>3. /\ \A u \in Users : draft[t][u] # << >> <=> u \in {o}
      /\ \A u \in {o} : /\ draft[t][u][1].type = "usage_debit"
                        /\ draft[t][u][1].ref = d
                        /\ draft[t][u][1].delta = -DebitOf[d].amount
  <2>1. Drafted(t, o, "usage_debit", d, -DebitOf[d].amount)
    BY DEF Debited
  <2> HIDE DEF d, o
  <2>2. \A u \in Users : draft[t][u] # << >> <=> u \in {o}
    <3>1. draft[t] = [NoDraft EXCEPT ![o] = draft[t][o]] /\ draft[t][o] # << >>
      BY <2>1 DEF Drafted
    <3>2. \A u \in Users \ {o} : draft[t][u] = << >>
      BY <3>1 DEF NoDraft
    <3> QED
      BY <3>1, <3>2
  <2> QED
    BY <2>1, <2>2 DEF Drafted
<1>4. Contract!Post({o}, "usage_debit", d, -DebitOf[d].amount)
  <2> DEFINE n == -DebitOf[d].amount
             V == {o}
  <2>1. n \in Int /\ V \in SUBSET Users
    BY <1>1
  <2>2. /\ \A u \in Users : draft[t][u] # << >> <=> u \in V
        /\ \A u \in V : /\ draft[t][u][1].type = "usage_debit"
                        /\ draft[t][u][1].ref = d
                        /\ draft[t][u][1].delta = n
    BY <1>3
  <2> HIDE DEF d, o, n, V
  <2>3. Contract!Post(V, "usage_debit", d, n)
    BY <2>1, <2>2, CommitPosts
  <2> QED
    BY <2>3 DEF n, V
<1>5. held[t] \cap Users = {o} /\ held[t] \cap BatchKeys = {} /\ held[t] \cap TopUps = {}
  <2> HIDE DEF d, o
  <2>1. o \in Users /\ o \notin BatchKeys /\ o \notin TopUps
    BY <1>1
  <2> QED
    BY <1>2, <2>1
<1>6. wallets' = wallets \cup {o} /\ batches' = batches
  BY <1>5 DEF Commit
<1>7. topUp' = topUp
  <2>1. topUp \in [TopUps -> Statuses]
    BY DEF Locked, Typed, TypeOK
  <2>2. topUp' = [k \in TopUps |-> IF k \in held[t] THEN "succeeded" ELSE topUp[k]]
    BY DEF Commit
  <2>3. \A k \in TopUps : k \notin held[t]
    BY <1>5
  <2>4. topUp' = [k \in TopUps |-> topUp[k]]
    BY <2>2, <2>3
  <2> QED
    BY <2>1, <2>4
<1>8. ASSUME NEW v \in Users
      PROVE  ~ Contract!Holds(v, "usage_debit", d)
  <2>1. ~ Duplicate(t)
    BY DEF Commit
  <2>2. draft[t][o] # << >>
    BY <1>1, <1>3
  <2>3. PICK e \in Entries : draft[t][o] = <<e>>
    BY <1>1, <2>2 DEF Locked, Typed, DraftFits
  <2>4. 1 \in 1 .. Len(draft[t][o]) /\ draft[t][o][1].type = "usage_debit" /\ draft[t][o][1].ref = d
    <3> HIDE DEF d, o
    <3>1. 1 \in 1 .. Len(draft[t][o])
      BY <2>3
    <3>2. draft[t][o][1].type = "usage_debit" /\ draft[t][o][1].ref = d
      BY <1>3
    <3> QED
      BY <3>1, <3>2
  <2>5. ASSUME NEW i \in 1 .. Len(ledger[v]), ledger[v][i].type = "usage_debit", ledger[v][i].ref = d
        PROVE  SameKey(o, draft[t][o][1], v, ledger[v][i])
    BY <2>4, <2>5 DEF SameKey
  <2> QED
    BY <1>1, <2>1, <2>4, <2>5 DEF Duplicate, Contract!Holds
<1>9. UpsertLocks => balance[o] >= DebitOf[d].amount
  BY DEF Debited, Covers
<1> QED
  BY <1>4, <1>6, <1>7, <1>8, <1>9 DEF Contract!Debit

\* The users whose wallet the adjustment of t is about to change.
Changed(t) == {u \in Users : draft[t][u] # << >>}

LEMMA CommitAdjusts ==
  ASSUME Locked, Whole, NEW t \in Txs, Commit(t), Adjusting(t), req[t] \in Adjustments, Left(t) = {}
  PROVE  Contract!Adjust(req[t], Changed(t))
<1> DEFINE a == req[t]
           S == Changed(t)
<1>1. /\ a.key \in BatchKeys /\ a.delta \in Int
      /\ S \in SUBSET Users
  BY DEF Changed
<1>2. Listed(a) \subseteq Users
  BY DEF Listed
<1>3. /\ a.key \in held[t] /\ a.key \notin batches
      /\ held[t] \subseteq {a.key} \cup Listed(a)
      /\ S \subseteq Listed(a)
  BY DEF Adjusting, Changed
<1>4. /\ \A u \in Users : draft[t][u] # << >> <=> u \in S
      /\ \A u \in S : /\ draft[t][u][1].type = "manual_adjustment"
                      /\ draft[t][u][1].ref = a.key
                      /\ draft[t][u][1].delta = a.delta
  BY DEF Adjusting, Changed
<1>5. Contract!Post(S, "manual_adjustment", a.key, a.delta)
  BY <1>1, <1>4, CommitPosts
<1>6. \A u \in Listed(a) : u \in wallets \cup held[t]
  BY DEF Adjusting
<1>7. /\ wallets \cup (held[t] \cap Users) = wallets \cup Listed(a)
      /\ held[t] \cap BatchKeys = {a.key} /\ held[t] \cap TopUps = {}
  BY <1>1, <1>2, <1>3, <1>6
<1>8. wallets' = wallets \cup Listed(a) /\ batches' = batches \cup {a.key}
  BY <1>7 DEF Commit
<1>9. topUp' = topUp
  BY <1>7 DEF Commit, Locked, Typed, TypeOK
<1>10. ASSUME NEW u \in Listed(a)
       PROVE  /\ u \in S => Always(a) \/ (UpsertLocks => balance[u] >= -a.delta)
              /\ u \notin S => ~ Always(a) /\ (UpsertLocks => balance[u] < -a.delta)
  BY <1>2, <1>10 DEF Adjusting, Changed, SeenToBear, SeenToSkip
<1>11. \A u \in Users : balance[u] \in Int
  BY DEF Locked, Typed, TypeOK, Int4
<1>12. ASSUME UpsertLocks, NEW u \in Listed(a)
       PROVE  u \in S <=> Contract!Bears(a, u)
  <2>1. balance[u] \in Int
    BY <1>2, <1>11
  <2> QED
    BY <1>1, <1>10, <1>12, <2>1 DEF Always, Contract!Bears
<1>13. IF UpsertLocks THEN S = {u \in Listed(a) : Contract!Bears(a, u)}
                      ELSE {u \in Listed(a) : a.delta > 0 \/ a.allowNegative} \subseteq S
  <2>1. CASE UpsertLocks
    BY <1>3, <1>12, <2>1
  <2>2. CASE ~ UpsertLocks
    BY <1>10, <2>2 DEF Always
  <2> QED
    BY <2>1, <2>2
<1> QED
  BY <1>3, <1>5, <1>8, <1>9, <1>13 DEF Contract!Adjust, Listed

LEMMA CommitContract ==
  ASSUME Locked, Whole, NEW t \in Txs, Commit(t)
  PROVE  Contract!Next
<1>1. CASE pc[t] = "commit"
  <2>1. Settled(t) \/ Debited(t)
    BY <1>1 DEF Whole, WholeOf
  <2> QED
    BY <2>1, CommitSettles, CommitDebits DEF Settled, Debited, Contract!Next
<1>2. CASE pc[t] = "adjust_user" /\ todo[t] = << >>
  <2>1. Adjusting(t) /\ req[t] \in Adjustments
    BY <1>2 DEF Whole, WholeOf, Locked, Typed, RequestFits
  <2>2. Left(t) = {}
    BY <1>2 DEF Left, Items
  <2>3. Contract!Adjust(req[t], Changed(t))
    BY <2>1, <2>2, CommitAdjusts
  <2> QED
    BY <2>1, <2>3 DEF Changed, Contract!Next
<1> QED
  BY <1>1, <1>2 DEF Commit, ReadyToCommit

LEMMA CreateWalletContract ==
  ASSUME Locked, NEW t \in Txs, CreateWallet(t)
  PROVE  Contract!Next
<1>1. req[t] \in Users
  BY DEF CreateWallet, Locked, Typed, RequestFits
<1>2. Contract!CreateWallet(req[t])
  BY DEF CreateWallet, Contract!CreateWallet
<1> QED
  BY <1>1, <1>2 DEF Contract!Next

LEMMA StepContract ==
  ASSUME Locked, Whole, [Next]_vars
  PROVE  [Contract!Next]_(Contract!vars)
<1>1. CASE UNCHANGED committed
  BY <1>1 DEF committed, Contract!vars
<1>2. CASE UNCHANGED vars
  BY <1>2 DEF vars, Contract!vars
<1>3. ASSUME NEW k \in TopUps, CancelTopUp(k)
      PROVE  Contract!Next
  BY <1>3 DEF CancelTopUp, Contract!Cancel, Contract!Next
<1>4. ASSUME NEW t \in Txs,
             \/ \E u \in Users : BeginCreateWallet(t, u)
             \/ \E k \in TopUps : BeginSettle(t, k)
             \/ \E d \in Debits : BeginDebit(t, d)
             \/ \E a \in Adjustments : BeginAdjust(t, a)
             \/ SettleMark(t) \/ SettleCredit(t)
             \/ DebitUpsert(t) \/ DebitUpdate(t)
             \/ AdjustBatch(t) \/ AdjustUser(t) \/ AdjustUpdate(t)
             \/ Rollback(t)
      PROVE  UNCHANGED committed
  BY <1>4 DEF BeginCreateWallet, BeginSettle, BeginDebit, BeginAdjust, Begin,
              SettleMark, SettleCredit, DebitUpsert, DebitUpdate, AdjustBatch,
              AdjustUser, AdjustUpdate, UpdateWallet, WriteWallet, Rollback
<1>5. ASSUME NEW t \in Txs, CreateWallet(t) \/ Commit(t)
      PROVE  Contract!Next
  BY <1>5, CreateWalletContract, CommitContract
<1> QED
  BY <1>1, <1>2, <1>3, <1>4, <1>5 DEF Next

\* The wallet repository implements its contract: whatever transactions run
\* together, roll back or crash, the committed tables change by whole
\* settlements, debits and adjustments only, each posted to the balance it was
\* checked against.
THEOREM LedgerImplemented == Spec => ImplementsLedger
<1>1. Init => Locked /\ Whole /\ Contract!Init
  BY InitLocked, InitWhole DEF Init, Contract!Init
<1>2. Locked /\ Whole /\ [Next]_vars => (Locked /\ Whole)'
  BY StepLocked, StepWhole
<1>3. Locked /\ Whole /\ [Next]_vars => [Contract!Next]_(Contract!vars)
  BY StepContract
<1> QED
  BY <1>1, <1>2, <1>3, PTL DEF Spec, ImplementsLedger, Contract!Spec

-----------------------------------------------------------------------------
(* What the contract says of batch keys holds of the tables.               *)

\* Reached(b) grows by the wallets posted to under b, and by no others.
LEMMA PostReaches ==
  ASSUME ledger \in [Users -> Seq(Entries)], NEW S \in SUBSET Users,
         NEW type, NEW ref, NEW delta, Contract!Post(S, type, ref, delta), NEW b
  PROVE  Reached(b)' = IF type = "manual_adjustment" /\ ref = b
                         THEN Reached(b) \cup S ELSE Reached(b)
<1> DEFINE Row(u) == [type |-> type, ref |-> ref, delta |-> delta,
                      after |-> balance[u] + delta]
           Found(entries) == \E i \in 1 .. Len(entries) :
                             entries[i].type = "manual_adjustment" /\ entries[i].ref = b
<1>1. ASSUME NEW u \in Users
      PROVE  ledger'[u] = IF u \in S THEN Append(ledger[u], Row(u)) ELSE ledger[u]
  BY DEF Contract!Post
<1>2. \A u \in Users : Row(u).type = type /\ Row(u).ref = ref
  OBVIOUS
<1> HIDE DEF Row
<1>3. ASSUME NEW entries \in Seq(Entries), NEW e
      PROVE  Found(Append(entries, e)) <=>
                Found(entries) \/ (e.type = "manual_adjustment" /\ e.ref = b)
  <2>1. /\ Len(Append(entries, e)) = Len(entries) + 1 /\ Len(entries) \in Nat
        /\ \A i \in 1 .. Len(entries) : Append(entries, e)[i] = entries[i]
        /\ Append(entries, e)[Len(entries) + 1] = e
    OBVIOUS
  <2>2. \A i : i \in 1 .. Len(entries) + 1 <=> i \in 1 .. Len(entries) \/ i = Len(entries) + 1
    BY <2>1
  <2> QED
    BY <2>1, <2>2
<1>4. ASSUME NEW u \in Users
      PROVE  Found(ledger'[u]) <=>
                Found(ledger[u]) \/ (u \in S /\ type = "manual_adjustment" /\ ref = b)
  <2>1. Found(Append(ledger[u], Row(u))) <=>
           Found(ledger[u]) \/ (type = "manual_adjustment" /\ ref = b)
    BY <1>2, <1>3
  <2> QED
    BY <1>1, <2>1
<1>5. /\ Reached(b)  = {u \in Users : Found(ledger[u])}
      /\ Reached(b)' = {u \in Users : Found(ledger'[u])}
  BY DEF Reached
<1> HIDE DEF Found
<1> QED
  BY <1>4, <1>5

LEMMA StepBatch ==
  ASSUME TypeOK, BatchAllOrNothing, [Contract!Next]_(Contract!vars)
  PROVE  BatchAllOrNothing'
<1>1. ledger \in [Users -> Seq(Entries)]
  BY DEF TypeOK
<1>2. ASSUME batches' = batches, \A b \in BatchKeys : Reached(b)' = Reached(b)
      PROVE  BatchAllOrNothing'
  BY <1>2 DEF BatchAllOrNothing
<1>3. CASE UNCHANGED <<ledger, batches>>
  BY <1>2, <1>3 DEF Reached
<1>4. ASSUME NEW k \in TopUps, Contract!Settle(k)
      PROVE  BatchAllOrNothing'
  <2>1. ASSUME NEW b \in BatchKeys PROVE Reached(b)' = Reached(b)
    <3>1. {OwnerOf[k]} \in SUBSET Users
      OBVIOUS
    <3>2. Contract!Post({OwnerOf[k]}, "topup", k, AmountOf[k])
      BY <1>4 DEF Contract!Settle
    <3> QED
      BY <1>1, <3>1, <3>2, PostReaches
  <2> QED
    BY <1>2, <1>4, <2>1 DEF Contract!Settle
<1>5. ASSUME NEW d \in Debits, Contract!Debit(d)
      PROVE  BatchAllOrNothing'
  <2>1. ASSUME NEW b \in BatchKeys PROVE Reached(b)' = Reached(b)
    <3>1. {DebitOf[d].user} \in SUBSET Users
      OBVIOUS
    <3>2. PICK x : Contract!Post({DebitOf[d].user}, "usage_debit", d, x)
      BY <1>5 DEF Contract!Debit
    <3> QED
      BY <1>1, <3>1, <3>2, PostReaches
  <2> QED
    BY <1>2, <1>5, <2>1 DEF Contract!Debit
<1>6. ASSUME NEW a \in Adjustments, NEW S \in SUBSET Users, Contract!Adjust(a, S)
      PROVE  BatchAllOrNothing'
  <2>1. /\ a.key \notin batches /\ batches' = batches \cup {a.key}
        /\ S \subseteq Listed(a)
        /\ Contract!Post(S, "manual_adjustment", a.key, a.delta)
    BY <1>6 DEF Contract!Adjust, Listed
  <2>2. a.delta > 0 \/ a.allowNegative => S = Listed(a)
    BY <1>6 DEF Contract!Adjust, Contract!Bears, Listed
  <2>3. ASSUME NEW b \in BatchKeys
        PROVE  Reached(b)' = IF a.key = b THEN Reached(b) \cup S ELSE Reached(b)
    BY <1>1, <2>1, PostReaches
  <2>4. Reached(a.key) = {}
    BY <2>1 DEF BatchAllOrNothing
  <2>5. Reached(a.key)' = S
    BY <2>3, <2>4
  <2>6. ASSUME NEW b \in BatchKeys \ {a.key}
        PROVE  Reached(b)' = Reached(b) /\ (b \in batches' <=> b \in batches)
    BY <2>1, <2>3
  <2> QED
    BY <2>1, <2>2, <2>5, <2>6 DEF BatchAllOrNothing
<1> QED
  BY <1>3, <1>4, <1>5, <1>6
     DEF Contract!Next, Contract!vars, Contract!CreateWallet, Contract!Cancel

\* A batch key accounts for one request of manualAdjustWallets, whole: it
\* reaches listed wallets only, all of them when nobody may be skipped.
THEOREM BatchWhole == Spec => []BatchAllOrNothing
<1>1. Init => Locked /\ Whole /\ BatchAllOrNothing
  BY InitLocked, InitWhole DEF Init, BatchAllOrNothing, Reached
<1>2. Locked /\ Whole /\ [Next]_vars => (Locked /\ Whole)'
  BY StepLocked, StepWhole
<1>3. Locked /\ Whole /\ BatchAllOrNothing /\ [Next]_vars => BatchAllOrNothing'
  BY StepContract, StepBatch DEF Locked, Typed
<1> QED
  BY <1>1, <1>2, <1>3, PTL DEF Spec

-----------------------------------------------------------------------------
(* Deadlock freedom: who waits for whom.                                    *)
(*                                                                         *)
(* Only an adjustment locks a wallet while it holds another one, so a cycle *)
(* of waiting transactions holds two adjustments at least; and when all of  *)
(* them visit wallets in one order, the one that has come farthest waits    *)
(* for nobody.                                                              *)

Adjusts(t) == pc[t] \in {"adjust_user", "adjust_update"}

\* An adjustment has locked only users that come before those it has to visit.
Ordered(rank, t) ==
  Adjusts(t) =>
     /\ Falling(rank, todo[t])
     /\ \A u \in held[t] \cap Users : \A v \in Left(t) : u = v \/ rank[u] > rank[v]

AllOrdered(rank) == \A t \in Txs : Ordered(rank, t)

\* Transaction t waits for s: s holds a row that t's next statement locks.
WaitsFor(t, s) == s # t /\ Wants(t) \cap held[s] # {}

\* Every transaction of the group waits for another one of the group.
Stuck(G) == G \in (SUBSET Txs) \ {{}} /\ \A t \in G : \E s \in G : WaitsFor(t, s)

\* Transactions wait for each other in a circle only through the wallets that
\* two adjustments hold, whatever lists the adjustments were sent.
CycleHoldsTwoAdjustments ==
  \A G \in (SUBSET Txs) \ {{}} :
     Stuck(G) => \E s, t \in G : s # t /\ Adjusts(s) /\ Adjusts(t)

\* A falling list has a falling tail, of users that come after its head.
LEMMA FallingTail ==
  ASSUME NEW rank, NEW s \in Seq(Users), s # << >>, Falling(rank, s)
  PROVE  /\ Falling(rank, Tail(s))
         /\ \A v \in Items(s) : Head(s) = v \/ rank[Head(s)] > rank[v]
<1> DEFINE r == Tail(s)
<1>1. /\ Len(s) \in Nat /\ Len(s) >= 1 /\ Head(s) = s[1]
      /\ Len(r) = Len(s) - 1
      /\ \A i \in 1 .. Len(r) : r[i] = s[i + 1]
  OBVIOUS
<1> HIDE DEF r
<1>2. ASSUME NEW i \in 1 .. Len(r), NEW j \in 1 .. Len(r), i <= j
      PROVE  r[i] = r[j] \/ rank[r[i]] > rank[r[j]]
  <2>1. /\ i + 1 \in 1 .. Len(s) /\ j + 1 \in 1 .. Len(s) /\ i + 1 <= j + 1
    BY <1>1, <1>2
  <2>2. r[i] = s[i + 1] /\ r[j] = s[j + 1]
    BY <1>1
  <2>3. s[i + 1] = s[j + 1] \/ rank[s[i + 1]] > rank[s[j + 1]]
    BY <2>1 DEF Falling
  <2> QED
    BY <2>2, <2>3
<1>3. ASSUME NEW v \in Items(s)
      PROVE  Head(s) = v \/ rank[Head(s)] > rank[v]
  <2>1. PICK j \in 1 .. Len(s) : v = s[j]
    BY DEF Items
  <2>2. 1 \in 1 .. Len(s) /\ 1 <= j
    BY <1>1
  <2> QED
    BY <1>1, <2>1, <2>2 DEF Falling
<1>4. Falling(rank, r)
  BY <1>2 DEF Falling
<1> QED
  BY <1>3, <1>4 DEF r

\* A step of t need only be looked at for t.
LEMMA ActorOrdered ==
  ASSUME NEW CONSTANT rank, AllOrdered(rank), NEW t \in Txs, Alone(t), Ordered(rank, t)'
  PROVE  AllOrdered(rank)'
<1> SUFFICES ASSUME NEW s \in Txs \ {t} PROVE Ordered(rank, s)'
  BY DEF AllOrdered
<1>1. pc'[s] = pc[s] /\ todo'[s] = todo[s] /\ held'[s] = held[s]
  BY DEF Alone
<1>2. Ordered(rank, s)
  BY DEF AllOrdered
<1> QED
  BY <1>1, <1>2 DEF Ordered, Adjusts, Left

\* And not even for t, unless t is an adjustment after it.
LEMMA PassOrdered ==
  ASSUME NEW CONSTANT rank, AllOrdered(rank), NEW t \in Txs, Alone(t), ~ Adjusts(t)'
  PROVE  AllOrdered(rank)'
<1>1. Ordered(rank, t)'
  BY DEF Ordered
<1> QED
  BY <1>1, ActorOrdered

LEMMA CloseOrdered ==
  ASSUME NEW CONSTANT rank, Typed, AllOrdered(rank), NEW t \in Txs, Close(t)
  PROVE  AllOrdered(rank)'
<1>1. Alone(t) /\ pc'[t] = "idle"
  BY DEF Close, Alone, Typed, TypeOK
<1>2. ~ Adjusts(t)'
  BY <1>1 DEF Adjusts
<1> QED
  BY <1>1, <1>2, PassOrdered

\* An adjustment that locks the user it visits, and goes on to the next one or
\* comes back to it, holds users before the ones it has to visit.
LEMMA VisitOrdered ==
  ASSUME NEW CONSTANT rank, Typed, AllOrdered(rank), NEW t \in Txs, Alone(t), Adjusts(t),
         todo[t] # << >>,
         todo'[t] \in {todo[t], Tail(todo[t])},
         held'[t] \subseteq held[t] \cup {Head(todo[t])}
  PROVE  AllOrdered(rank)'
<1> DEFINE s == todo[t]
<1>1. s \in Seq(Users) /\ s # << >> /\ Falling(rank, s)
  BY DEF Typed, TypeOK, AllOrdered, Ordered
<1>2. \A u \in held[t] \cap Users : \A v \in Items(s) : u = v \/ rank[u] > rank[v]
  BY DEF AllOrdered, Ordered, Left
<1> HIDE DEF s
<1>3. /\ Falling(rank, Tail(s))
      /\ \A v \in Items(s) : Head(s) = v \/ rank[Head(s)] > rank[v]
  BY <1>1, FallingTail
<1>4. Items(Tail(s)) \subseteq Items(s)
  BY <1>1, HeadAndTail
<1>5. Falling(rank, todo'[t]) /\ Items(todo'[t]) \subseteq Items(s)
  BY <1>1, <1>3, <1>4 DEF s
<1>6. ASSUME NEW u \in held'[t] \cap Users, NEW v \in Items(todo'[t])
      PROVE  u = v \/ rank[u] > rank[v]
  <2>1. v \in Items(s) /\ (u \in held[t] \/ u = Head(s))
    BY <1>5 DEF s
  <2> QED
    BY <1>2, <1>3, <2>1
<1>7. Ordered(rank, t)'
  BY <1>5, <1>6 DEF Ordered, Left
<1> QED
  BY <1>7, ActorOrdered

\* Every statement keeps the order in which adjustments lock wallets.
LEMMA StepOrdered ==
  ASSUME NEW CONSTANT rank, InOneOrder(rank), Locked, Whole, AllOrdered(rank), [Next]_vars
  PROVE  AllOrdered(rank)'
<1> USE DEF Locked
<1>1. CASE UNCHANGED vars
  BY <1>1 DEF vars, AllOrdered, Ordered, Adjusts, Left
<1>2. ASSUME NEW k \in TopUps, CancelTopUp(k)
      PROVE  AllOrdered(rank)'
  BY <1>2 DEF CancelTopUp, working, AllOrdered, Ordered, Adjusts, Left
<1>3. ASSUME NEW t \in Txs, NEW r, NEW step, Begin(t, r, step),
             step \in {"create_wallet", "settle_mark", "debit_upsert", "adjust_batch"}
      PROVE  AllOrdered(rank)'
  <2>1. Alone(t) /\ pc'[t] = step
    BY <1>3 DEF Begin, Alone, Typed, TypeOK
  <2> QED
    BY <1>3, <2>1, PassOrdered DEF Adjusts
<1>4. ASSUME NEW t \in Txs, Close(t)
      PROVE  AllOrdered(rank)'
  BY <1>4, CloseOrdered
<1>5. ASSUME NEW t \in Txs, SettleMark(t)
      PROVE  AllOrdered(rank)'
  <2>1. Alone(t) /\ pc'[t] = "settle_credit"
    BY <1>5 DEF SettleMark, Alone, Typed, TypeOK
  <2> QED
    BY <2>1, PassOrdered DEF Adjusts
<1>6. ASSUME NEW t \in Txs, NEW u, NEW e, UpdateWallet(t, u, e, "commit", << >>)
      PROVE  AllOrdered(rank)'
  <2>1. CASE ~ InInt4(e.after)
    BY <1>4, <1>6, <2>1 DEF UpdateWallet, WriteWallet
  <2>2. CASE InInt4(e.after)
    <3>1. Alone(t) /\ pc'[t] = "commit"
      BY <1>6, <2>2 DEF UpdateWallet, WriteWallet, Alone, Typed, TypeOK
    <3> QED
      BY <3>1, PassOrdered DEF Adjusts
  <2> QED
    BY <2>1, <2>2
<1>7. ASSUME NEW t \in Txs, DebitUpsert(t), ~ Close(t)
      PROVE  AllOrdered(rank)'
  <2>1. Alone(t) /\ pc'[t] = "debit_update"
    BY <1>7 DEF DebitUpsert, Alone, Typed, TypeOK
  <2> QED
    BY <2>1, PassOrdered DEF Adjusts
<1>8. ASSUME NEW t \in Txs, AdjustBatch(t), ~ Close(t)
      PROVE  AllOrdered(rank)'
  <2>1. req[t] \in Adjustments
    BY <1>8 DEF AdjustBatch, Typed, RequestFits
  <2>2. Alone(t) /\ todo'[t] = req[t].users /\ held'[t] = held[t] \cup {req[t].key}
    BY <1>8 DEF AdjustBatch, Alone, Typed, TypeOK
  <2>3. held[t] = {} /\ req[t].key \notin Users
    BY <1>8, <2>1 DEF AdjustBatch, Whole, WholeOf
  <2>4. Falling(rank, todo'[t])
    BY <2>1, <2>2 DEF InOneOrder
  <2>5. Ordered(rank, t)'
    BY <2>2, <2>3, <2>4 DEF Ordered
  <2> QED
    BY <2>2, <2>5, ActorOrdered
<1>9. ASSUME NEW t \in Txs, AdjustUser(t)
      PROVE  AllOrdered(rank)'
  <2>1. Alone(t) /\ Adjusts(t) /\ todo[t] # << >>
    BY <1>9 DEF AdjustUser, Alone, Adjusts, Typed, TypeOK
  <2>2. todo'[t] \in {todo[t], Tail(todo[t])}
    BY <1>9 DEF AdjustUser, Typed, TypeOK
  <2>3. held'[t] \subseteq held[t] \cup {Head(todo[t])}
    BY <1>9 DEF AdjustUser, UpsertTakes, Typed, TypeOK
  <2> QED
    BY <2>1, <2>2, <2>3, VisitOrdered
<1>10. ASSUME NEW t \in Txs, AdjustUpdate(t), ~ Close(t)
       PROVE  AllOrdered(rank)'
  <2>1. Adjusts(t) /\ todo[t] # << >>
    BY <1>10 DEF AdjustUpdate, Adjusts, Typed, RequestFits
  <2>2. PICK e : WriteWallet(t, Head(todo[t]), e, "adjust_user", Tail(todo[t]))
    BY <1>10 DEF AdjustUpdate, UpdateWallet
  <2>3. /\ Alone(t)
        /\ todo'[t] = Tail(todo[t])
        /\ held'[t] = held[t] \cup {Head(todo[t])}
    BY <1>10, <2>2 DEF WriteWallet, Alone, Typed, TypeOK
  <2> QED
    BY <2>1, <2>3, VisitOrdered
<1>11. ASSUME NEW t \in Txs, CreateWallet(t) \/ Commit(t) \/ Rollback(t)
       PROVE  Close(t)
  BY <1>11 DEF CreateWallet, Commit, Rollback
<1>12. ASSUME NEW t \in Txs, SettleCredit(t) \/ DebitUpdate(t)
       PROVE  \E u, e : UpdateWallet(t, u, e, "commit", << >>)
  BY <1>12 DEF SettleCredit, DebitUpdate
<1>13. ASSUME NEW t \in Txs,
              \/ \E u \in Users : BeginCreateWallet(t, u)
              \/ \E k \in TopUps : BeginSettle(t, k)
              \/ \E d \in Debits : BeginDebit(t, d)
              \/ \E a \in Adjustments : BeginAdjust(t, a)
       PROVE  AllOrdered(rank)'
  BY <1>3, <1>13 DEF BeginCreateWallet, BeginSettle, BeginDebit, BeginAdjust
<1> QED
  BY <1>1, <1>2, <1>4, <1>5, <1>6, <1>7, <1>8, <1>9, <1>10, <1>11, <1>12, <1>13 DEF Next

\* What a transaction holds while it waits.
LEMMA HeldWhileWaiting ==
  ASSUME Locked, Whole, NEW t \in Txs, Wants(t) # {}
  PROVE  \/ held[t] = {}
         \/ pc[t] = "settle_credit" /\ held[t] \cap Users = {} /\ Wants(t) \subseteq Users
         \/ /\ pc[t] = "debit_update" /\ Wants(t) \subseteq Users
            /\ held[t] \subseteq Wants(t)
         \/ /\ Adjusts(t) /\ todo[t] # << >>
            /\ Wants(t) \subseteq {Head(todo[t])} \cap Users
<1>1. CASE pc[t] \in {"idle", "create_wallet", "settle_mark", "debit_upsert", "adjust_batch"}
  BY <1>1 DEF Whole, WholeOf
<1>2. CASE pc[t] = "settle_credit"
  <2>1. req[t] \in TopUps
    BY <1>2 DEF Locked, Typed, RequestFits
  <2>2. held[t] = {req[t]} /\ Wants(t) = {OwnerOf[req[t]]}
    BY <1>2 DEF Whole, WholeOf, Wants
  <2> QED
    BY <1>2, <2>1, <2>2
<1>3. CASE pc[t] = "debit_update"
  <2>1. req[t] \in Debits
    BY <1>3 DEF Locked, Typed, RequestFits
  <2>2. DebitOf[req[t]].user \in Users
    BY <2>1
  <2>3. held[t] \subseteq {DebitOf[req[t]].user} /\ Wants(t) = {DebitOf[req[t]].user}
    BY <1>3 DEF Whole, WholeOf, Wants
  <2> QED
    BY <1>3, <2>2, <2>3
<1>4. CASE Adjusts(t)
  <2>1. todo[t] # << >>
    BY <1>4 DEF Adjusts, Wants, Locked, Typed, RequestFits
  <2>2. Head(todo[t]) \in Users
    BY <2>1 DEF Locked, Typed, TypeOK
  <2>3. Wants(t) \subseteq {Head(todo[t])}
    BY <1>4, <2>1 DEF Adjusts, Wants, UpsertTakes
  <2> QED
    BY <1>4, <2>1, <2>2, <2>3
<1>5. CASE pc[t] = "commit"
  BY <1>5 DEF Wants
<1>6. pc[t] \in Steps
  BY DEF Locked, Typed, TypeOK
<1> QED
  BY <1>1, <1>2, <1>3, <1>4, <1>5, <1>6 DEF Steps, Adjusts

\* In a stuck group, one that holds what another waits for waits for a wallet;
\* and one that holds a wallet while it waits is an adjustment.
LEMMA HolderWaits ==
  ASSUME Locked, Whole, NEW G, Stuck(G), NEW t \in G, NEW s \in G, WaitsFor(t, s)
  PROVE  \E v \in Users : \E r \in G :
            /\ r # s /\ v \in Wants(s) \cap held[r] /\ v \notin held[s]
            /\ held[s] \cap Users # {} => Adjusts(s) /\ v = Head(todo[s]) /\ todo[s] # << >>
<1>1. t \in Txs /\ s \in Txs /\ held[s] # {}
  BY DEF Stuck, WaitsFor
<1>2. PICK r \in G : WaitsFor(s, r)
  BY DEF Stuck
<1>3. r \in Txs /\ r # s
  BY <1>2 DEF Stuck, WaitsFor
<1>4. PICK v : v \in Wants(s) \cap held[r]
  BY <1>2 DEF WaitsFor
<1>5. v \notin held[s]
  BY <1>1, <1>3, <1>4 DEF Locked, Exclusive
<1>6. Wants(s) # {}
  BY <1>4
<1>7. \/ pc[s] = "settle_credit" /\ held[s] \cap Users = {} /\ Wants(s) \subseteq Users
      \/ pc[s] = "debit_update" /\ Wants(s) \subseteq Users /\ held[s] \subseteq Wants(s)
      \/ /\ Adjusts(s) /\ todo[s] # << >>
         /\ Wants(s) \subseteq {Head(todo[s])} \cap Users
  BY <1>1, <1>6, HeldWhileWaiting
<1>8. CASE pc[s] = "debit_update" /\ held[s] \subseteq Wants(s)
  <2>1. req[s] \in Debits
    BY <1>1, <1>8 DEF Locked, Typed, RequestFits
  <2>2. Wants(s) = {DebitOf[req[s]].user}
    BY <1>8 DEF Wants
  <2>3. held[s] = {v}
    BY <1>1, <1>4, <1>8, <2>2
  <2> QED
    BY <1>5, <2>3
<1>9. v \in Users
  BY <1>4, <1>7
<1> QED
  BY <1>3, <1>4, <1>5, <1>7, <1>8, <1>9

\* Two adjustments at least are in every circle.
LEMMA CircleOfAdjustments ==
  ASSUME Locked, Whole
  PROVE  CycleHoldsTwoAdjustments
<1> SUFFICES ASSUME NEW G \in (SUBSET Txs) \ {{}}, Stuck(G)
             PROVE  \E s, t \in G : s # t /\ Adjusts(s) /\ Adjusts(t)
  BY DEF CycleHoldsTwoAdjustments
<1>1. PICK t \in G : \E s \in G : WaitsFor(t, s)
  BY DEF Stuck
<1>2. PICK s \in G : WaitsFor(t, s)
  BY <1>1
<1>3. PICK v \in Users : \E r \in G : r # s /\ v \in Wants(s) \cap held[r]
  BY <1>2, HolderWaits
<1>4. PICK r \in G : r # s /\ v \in Wants(s) \cap held[r]
  BY <1>3
<1>5. WaitsFor(s, r) /\ held[r] \cap Users # {}
  BY <1>4 DEF WaitsFor
<1>6. PICK w \in Users : \E q \in G : /\ q # r /\ w \in Wants(r) \cap held[q]
                                      /\ Adjusts(r)
  BY <1>5, HolderWaits
<1>7. PICK q \in G : q # r /\ w \in Wants(r) \cap held[q]
  BY <1>6
<1>8. WaitsFor(r, q) /\ held[q] \cap Users # {}
  BY <1>7 DEF WaitsFor
<1>9. Adjusts(q)
  BY <1>8, HolderWaits
<1> QED
  BY <1>6, <1>7, <1>9

\* The ranks of the wallets that transactions of G wait for in G.
Awaited(rank, G) ==
  {rank[v] : v \in {u \in Users : \E s, r \in G : r # s /\ u \in Wants(s) \cap held[r]}}

\* A set of numbers with an element has a least one.
LEMMA LeastNumber ==
  ASSUME NEW N \in SUBSET Nat, N # {}
  PROVE  \E n \in N : \A m \in N : n <= m
<1>1. PICK n \in N : \A m \in N : ~ (<<m, n>> \in OpToRel(<, Nat))
  BY NatLessThanWellFounded, WFMin
<1>2. OpToRel(<, Nat) = {ss \in Nat \X Nat : ss[1] < ss[2]}
  BY DEF OpToRel
<1>3. ASSUME NEW m \in N, m < n PROVE FALSE
  <2>1. <<m, n>> \in {ss \in Nat \X Nat : ss[1] < ss[2]}
    BY <1>3
  <2> QED
    BY <1>1, <1>2, <2>1
<1> QED
  BY <1>3

\* In one common order nobody can wait in a circle.
LEMMA OrderBreaksCircles ==
  ASSUME NEW CONSTANT rank, InOneOrder(rank), Locked, Whole, AllOrdered(rank)
  PROVE  NoLockCycle
<1> SUFFICES ASSUME NEW G \in (SUBSET Txs) \ {{}}
             PROVE  \E t \in G : \A s \in G \ {t} : Wants(t) \cap held[s] = {}
  BY DEF NoLockCycle
<1> SUFFICES ASSUME Stuck(G) PROVE FALSE
  BY DEF Stuck, WaitsFor
<1>1. Stuck(G)
  OBVIOUS
<1>2. Awaited(rank, G) \in SUBSET Nat
  BY DEF Awaited, InOneOrder
<1>3. Awaited(rank, G) # {}
  <2>1. PICK t \in G, s \in G : WaitsFor(t, s)
    BY <1>1 DEF Stuck
  <2>2. PICK v \in Users : \E r \in G : r # s /\ v \in Wants(s) \cap held[r]
    BY <1>1, <2>1, HolderWaits
  <2>3. rank[v] \in Awaited(rank, G)
    BY <2>2 DEF Awaited
  <2> QED
    BY <2>3
<1>4. PICK n \in Awaited(rank, G) : \A m \in Awaited(rank, G) : n <= m
  BY <1>2, <1>3, LeastNumber
<1>5. PICK w \in Users : n = rank[w] /\ \E s, r \in G : r # s /\ w \in Wants(s) \cap held[r]
  BY <1>4 DEF Awaited
<1>6. PICK s \in G, r \in G : r # s /\ w \in Wants(s) \cap held[r]
  BY <1>5
<1>7. WaitsFor(s, r) /\ w \in held[r] \cap Users
  BY <1>6 DEF WaitsFor
<1>8. PICK v \in Users, q \in G :
         /\ q # r /\ v \in Wants(r) \cap held[q] /\ v \notin held[r]
         /\ Adjusts(r) /\ v = Head(todo[r]) /\ todo[r] # << >>
  BY <1>1, <1>7, HolderWaits
<1>9. rank[w] > rank[v]
  <2>1. r \in Txs /\ Ordered(rank, r)
    BY DEF AllOrdered
  <2>2. v \in Left(r)
    <3>1. todo[r] \in Seq(Users)
      BY <2>1 DEF Locked, Typed, TypeOK
    <3> QED
      BY <1>8, <3>1 DEF Left, Items
  <2> QED
    BY <1>7, <1>8, <2>1, <2>2 DEF Ordered
<1>10. rank[v] \in Awaited(rank, G)
  BY <1>8 DEF Awaited
<1>11. n <= rank[v] /\ rank[v] \in Nat /\ rank[w] \in Nat
  BY <1>4, <1>10 DEF InOneOrder
<1> QED
  BY <1>5, <1>9, <1>11

\* No two transactions can block each other, nor any circle of them, without
\* two adjustments: settlements, debits and new wallets lock one wallet each.
THEOREM CyclesNeedTwoAdjustments == Spec => []CycleHoldsTwoAdjustments
<1>1. Init => Locked /\ Whole
  BY InitLocked, InitWhole
<1>2. Locked /\ Whole /\ [Next]_vars => (Locked /\ Whole)'
  BY StepLocked, StepWhole
<1>3. Locked /\ Whole => CycleHoldsTwoAdjustments
  BY CircleOfAdjustments
<1> QED
  BY <1>1, <1>2, <1>3, PTL DEF Spec

\* While the adjustments list users in one common order, no group of open
\* transactions waits on itself, however many there are and whatever they do.
THEOREM NoLockCycleCorrect ==
  ASSUME NEW CONSTANT rank, InOneOrder(rank)
  PROVE  Spec => []NoLockCycle
<1>1. Init => Locked /\ Whole /\ AllOrdered(rank)
  BY InitLocked, InitWhole DEF Init, AllOrdered, Ordered, Adjusts
<1>2. Locked /\ Whole /\ AllOrdered(rank) /\ [Next]_vars => (Locked /\ Whole /\ AllOrdered(rank))'
  BY StepLocked, StepWhole, StepOrdered
<1>3. Locked /\ Whole /\ AllOrdered(rank) => NoLockCycle
  BY OrderBreaksCircles
<1> QED
  BY <1>1, <1>2, <1>3, PTL DEF Spec
=============================================================================
