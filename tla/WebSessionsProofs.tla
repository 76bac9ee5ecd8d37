---------------------------- MODULE WebSessionsProofs ----------------------------
(***************************************************************************)
(* The two clients of MCExtensionRuntime for any value of their constants:   *)
(* CookiesFitSessions for the browser and, further down, the extension's     *)
(* buffer, events and session.                                             *)
(*                                                                         *)
(* That the cookies are a pair is inductive by itself.  For the other two the *)
(* invariant follows the one request there is while nothing overlaps and      *)
(* nothing is disturbed: which sessions it may find live at each of its steps *)
(* (MayLive), and which one the browser will rely on (Relies).              *)
(***************************************************************************)
EXTENDS MCExtensionRuntime, TLAPS

Statuses == {"live", "revoked", "expired"}
Tokens   == 0 .. Len(sessions)

Kinds == {"page", "renew", "login", "reset", "logout", "logoutAll"}
Steps == {"find", "revoke", "revokeAll", "create", "issued", "ended", "failed"}

Requests == [kind : Kinds, pc : Steps, new : Nat, access : Nat, refresh : Nat]

TypeOK ==
  /\ sessions \in Seq(Statuses)
  /\ cookies \in [access : Nat, refresh : Nat] /\ cookies.refresh \in Tokens
  /\ request \in [Tabs -> Requests \cup {NoRequest}]
  /\ \A t \in UnderWay : request[t].new \in Tokens /\ request[t].refresh \in Tokens
  /\ overlapped \in BOOLEAN
  /\ disturbances \in Nat

LiveIn(S)    == \A s \in DOMAIN sessions : sessions[s] = "live" => s \in S
Unrevoked(s) == s # None => sessions[s] # "revoked"

\* The sessions that may be live besides those the browser has let go of.
MayLive(q) ==
  {s \in Tokens : \/ q.pc = "revokeAll"
                  \/ q.pc = "issued" /\ s = q.new
                  \/ s = q.refresh /\ \/ q.pc \in {"find", "revoke"}
                                      \/ q.pc \in {"create", "issued"} /\ q.kind = "login"
                                      \/ q.pc = "ended" /\ q.kind = "logoutAll" /\ q.access = None}

Relies(q) ==
  /\ q.pc \in {"find", "failed"} => Unrevoked(q.refresh)
  /\ q.pc = "issued" => Unrevoked(q.new)

Quiet == ~overlapped /\ disturbances = 0

\* The request under way.
Sole ==
  Quiet =>
    /\ \A t, u \in UnderWay : t = u
    /\ \A t \in UnderWay : /\ cookies.refresh = request[t].refresh
                           /\ LiveIn(left \cup MayLive(request[t]))
                           /\ Relies(request[t])
    /\ UnderWay = {} => LiveIn(left \cup {cookies.refresh}) /\ Unrevoked(cookies.refresh)

Inv == TypeOK /\ Sole /\ CookiesArePair

LEMMA UnderWayByStep ==
  ASSUME TypeOK
  PROVE  \A t \in Tabs : /\ t \in UnderWay <=> request[t].pc # "none"
                         /\ t \in UnderWay => request[t] \in Requests
<1>1. request \in [Tabs -> Requests \cup {NoRequest}]
  BY DEF TypeOK
<1>2. NoRequest.pc = "none" /\ \A q \in Requests : q.pc # "none"
  BY DEF NoRequest, Requests, Steps
<1> QED
  BY <1>1, <1>2 DEF UnderWay

LEMMA InvGivesProperty == Inv => CookiesFitSessions
  BY DEF Inv, Sole, Quiet, CookiesFitSessions, KeepsSession, NoStraySession, Calm, Live,
         LiveIn, Unrevoked, None

\* What a step of the request of one tab has to show.
LEMMA StepKeeps ==
  ASSUME Inv, NEW t \in Tabs, NEW q \in Requests,
         request' = [request EXCEPT ![t] = q],
         sessions' \in Seq(Statuses), Len(sessions') >= Len(sessions),
         UNCHANGED <<cookies, left>>,
         q.new \in Tokens', q.refresh \in Tokens',
         overlapped' \in BOOLEAN, disturbances' \in Nat,
         Quiet' => /\ Quiet /\ \A u \in UnderWay : u = t
                   /\ cookies.refresh = q.refresh
                   /\ LiveIn(left \cup MayLive(q))' /\ Relies(q)'
  PROVE  Inv'
<1>1. \A u \in Tabs : request'[u] = IF u = t THEN q ELSE request[u]
  BY DEF Inv, TypeOK
<1>2. UnderWay' \subseteq UnderWay \cup {t} /\ t \in UnderWay'
  BY <1>1, UnderWayByStep DEF UnderWay, NoRequest, Requests, Steps
<1>3. TypeOK'
  BY <1>1, <1>2 DEF Inv, TypeOK, Tokens
<1>4. Sole'
  <2> SUFFICES ASSUME Quiet'
               PROVE /\ \A u, v \in UnderWay' : u = v
                     /\ \A u \in UnderWay' : /\ (cookies.refresh = request[u].refresh)'
                                             /\ LiveIn(left \cup MayLive(request[u]))'
                                             /\ Relies(request[u])'
                     /\ UnderWay' # {}
    BY DEF Sole
  <2>1. \A u \in UnderWay' : u = t
    BY <1>2
  <2> QED
    BY <1>1, <1>2, <2>1
<1> QED
  BY <1>3, <1>4 DEF Inv, CookiesArePair

LEMMA SendKeeps ==
  ASSUME Inv, NEW t \in Tabs, NEW kind \in Kinds, NEW pc \in Steps, Send(t, kind, pc),
         \/ pc \in {"find", "revoke", "revokeAll"}
         \/ pc = "create" /\ kind = "login"
         \/ pc = "ended"
            /\ (cookies.refresh = None \/ (kind = "logoutAll" /\ cookies.access = None))
  PROVE  Inv'
<1>0. [kind |-> kind, pc |-> pc, new |-> None,
       access |-> cookies.access, refresh |-> cookies.refresh] \in Requests
  BY DEF Inv, TypeOK, Requests, None
<1> PICK q \in Requests : q = [kind |-> kind, pc |-> pc, new |-> None,
                               access |-> cookies.access, refresh |-> cookies.refresh]
  BY <1>0
<1>1. request' = [request EXCEPT ![t] = q]
  BY DEF Send
<1>2. /\ q.kind = kind /\ q.pc = pc /\ q.new = None
      /\ q.access = cookies.access /\ q.refresh = cookies.refresh
  OBVIOUS
<1>3. /\ UNCHANGED <<sessions, cookies, left, disturbances>>
      /\ overlapped' = (overlapped \/ UnderWay # {})
  BY DEF Send
<1>4. q.new \in Tokens' /\ q.refresh \in Tokens'
  BY <1>2, <1>3 DEF Inv, TypeOK, Tokens, None
<1>5. ASSUME Quiet'
      PROVE  /\ Quiet /\ \A u \in UnderWay : u = t
             /\ cookies.refresh = q.refresh
             /\ LiveIn(left \cup MayLive(q))' /\ Relies(q)'
  <2>1. Quiet /\ UnderWay = {}
    BY <1>3, <1>5 DEF Quiet
  <2>2. LiveIn(left \cup {cookies.refresh}) /\ Unrevoked(cookies.refresh)
    BY <2>1 DEF Inv, Sole
  <2>3. \A s \in DOMAIN sessions : s # None
    BY DEF Inv, TypeOK, None
  <2>4. LiveIn(left \cup MayLive(q))'
    BY <1>2, <1>3, <2>2, <2>3 DEF LiveIn, MayLive, Tokens, Inv, TypeOK
  <2>5. Relies(q)'
    BY <1>2, <1>3, <2>2 DEF Relies, Unrevoked
  <2> QED
    BY <1>2, <2>1, <2>4, <2>5
<1>6. /\ sessions' \in Seq(Statuses) /\ Len(sessions') >= Len(sessions)
      /\ overlapped' \in BOOLEAN /\ disturbances' \in Nat /\ UNCHANGED <<cookies, left>>
  BY <1>3 DEF Inv, TypeOK
<1> QED
  BY <1>1, <1>4, <1>5, <1>6, StepKeeps

\* What is known of the request of which a tab takes a step.
LEMMA Request ==
  ASSUME Inv, NEW t \in Tabs, request[t].pc # "none"
  PROVE  /\ request[t] \in Requests /\ t \in UnderWay
         /\ request[t].new \in Tokens /\ request[t].refresh \in Tokens
         /\ Quiet => /\ \A u \in UnderWay : u = t
                     /\ cookies.refresh = request[t].refresh
                     /\ LiveIn(left \cup MayLive(request[t]))
                     /\ Relies(request[t])
  BY UnderWayByStep DEF Inv, TypeOK, Sole

\* The request goes on and leaves the sessions as they are.
LEMMA Moves ==
  ASSUME Inv, NEW t \in Tabs, NEW pc \in Steps, request[t].pc # "none",
         Step(t, pc), UNCHANGED <<sessions, cookies, left, overlapped>>,
         disturbances' \in Nat, disturbances' >= disturbances,
         Quiet' => /\ LiveIn(left \cup MayLive([request[t] EXCEPT !.pc = pc]))
                   /\ Relies([request[t] EXCEPT !.pc = pc])
  PROVE  Inv'
<1>1. /\ request[t] \in Requests /\ request[t].new \in Tokens /\ request[t].refresh \in Tokens
      /\ Quiet => /\ \A u \in UnderWay : u = t
                  /\ cookies.refresh = request[t].refresh
  BY Request
<1>0. [request[t] EXCEPT !.pc = pc] \in Requests
  BY <1>1 DEF Requests
<1> PICK q \in Requests : q = [request[t] EXCEPT !.pc = pc]
  BY <1>0
<1>2. q.new = request[t].new /\ q.refresh = request[t].refresh
  BY <1>1 DEF Requests
<1>3. request' = [request EXCEPT ![t] = q]
  BY DEF Step, Inv, TypeOK
<1>4. Quiet' => LiveIn(left \cup MayLive(q)) /\ Relies(q)
  OBVIOUS
<1>5. Quiet' => Quiet
  BY DEF Quiet, Inv, TypeOK
<1>6. Quiet' => LiveIn(left \cup MayLive(q))' /\ Relies(q)'
  BY <1>4 DEF LiveIn, MayLive, Relies, Unrevoked, Tokens
<1>7. /\ sessions' \in Seq(Statuses) /\ Len(sessions') >= Len(sessions)
      /\ overlapped' \in BOOLEAN /\ q.new \in Tokens' /\ q.refresh \in Tokens'
  BY <1>1, <1>2 DEF Inv, TypeOK, Tokens
<1>8. Quiet' => /\ Quiet /\ \A u \in UnderWay : u = t
                /\ cookies.refresh = q.refresh
                /\ LiveIn(left \cup MayLive(q))' /\ Relies(q)'
  BY <1>1, <1>2, <1>5, <1>6
<1> QED
  BY <1>3, <1>7, <1>8, StepKeeps

LEMMA FindKeeps ==
  ASSUME Inv, NEW t \in Tabs, Find(t)
  PROVE  Inv'
<1> PICK q : q = request[t]
  OBVIOUS
<1> PICK pc : pc = IF Live(q.refresh) THEN "revoke" ELSE Failed(q)
  OBVIOUS
<1>1. /\ q \in Requests /\ q.pc = "find" /\ q.refresh \in Tokens
      /\ Quiet => LiveIn(left \cup MayLive(q)) /\ Relies(q)
  BY Request DEF Find
<1>2. pc \in Steps /\ pc \in {"revoke", "ended", "failed"}
      /\ (pc # "revoke" => ~Live(q.refresh)) /\ (pc = "ended" => q.kind = "logout")
  BY DEF Steps, Failed
<1>3. Step(t, pc)
  BY DEF Find
<1> PICK r : r = [q EXCEPT !.pc = pc]
  OBVIOUS
<1>4. /\ r.pc = pc /\ r.kind = q.kind /\ r.new = q.new
      /\ r.access = q.access /\ r.refresh = q.refresh
  BY <1>1 DEF Requests
<1>5. Quiet => LiveIn(left \cup MayLive(r)) /\ Relies(r)
  <2> SUFFICES ASSUME Quiet PROVE LiveIn(left \cup MayLive(r)) /\ Relies(r)
    OBVIOUS
  <2>1. LiveIn(left \cup {q.refresh}) /\ Unrevoked(q.refresh)
    BY <1>1 DEF MayLive, Relies
  <2>2. LiveIn(left \cup MayLive(r))
    <3>1. CASE pc = "revoke"
      BY <1>1, <1>4, <2>1, <3>1 DEF MayLive, LiveIn
    <3>2. CASE pc # "revoke"
      <4>1. \A s \in DOMAIN sessions : sessions[s] = "live" => s # q.refresh
        BY <1>2, <3>2 DEF Live, Inv, TypeOK, None
      <4> QED
        BY <2>1, <4>1 DEF LiveIn
    <3> QED
      BY <3>1, <3>2
  <2> QED
    BY <1>2, <1>4, <2>1, <2>2 DEF Relies
<1>6. Quiet' => Quiet
  BY DEF Find, Quiet
<1>7. /\ disturbances' \in Nat /\ disturbances' >= disturbances
      /\ request[t].pc # "none" /\ UNCHANGED <<sessions, cookies, left, overlapped>>
  BY DEF Find, Inv, TypeOK
<1> QED
  BY <1>2, <1>3, <1>5, <1>6, <1>7, Moves

LEMMA RevokeKeeps ==
  ASSUME Inv, NEW t \in Tabs, Revoke(t)
  PROVE  Inv'
<1> PICK q : q = request[t]
  OBVIOUS
<1> PICK pc : pc = IF q.kind = "logout" THEN "ended" ELSE "create"
  OBVIOUS
<1> PICK r : r = [q EXCEPT !.pc = pc]
  OBVIOUS
<1>1. /\ q \in Requests /\ q.pc = "revoke" /\ q.new \in Tokens /\ q.refresh \in Tokens
      /\ Quiet => /\ \A u \in UnderWay : u = t
                  /\ cookies.refresh = q.refresh
                  /\ LiveIn(left \cup MayLive(q))
  BY Request DEF Revoke
<1>2. /\ r \in Requests /\ r.pc = pc /\ r.kind = q.kind /\ r.new = q.new
      /\ r.access = q.access /\ r.refresh = q.refresh
  BY <1>1 DEF Requests, Steps
<1>3. request' = [request EXCEPT ![t] = r]
  BY DEF Revoke, Step, Inv, TypeOK
<1>4. /\ sessions' = [sessions EXCEPT ![Subject(q)] = "revoked"]
      /\ UNCHANGED <<cookies, left, overlapped, disturbances>>
  BY DEF Revoke
<1>5. /\ sessions' \in Seq(Statuses) /\ Len(sessions') = Len(sessions)
      /\ DOMAIN sessions' = DOMAIN sessions
      /\ \A s \in DOMAIN sessions : sessions'[s] = IF s = Subject(q) THEN "revoked" ELSE sessions[s]
  <2>1. sessions \in [1 .. Len(sessions) -> Statuses] /\ Len(sessions) \in Nat
    BY DEF Inv, TypeOK
  <2>2. PICK x : x = Subject(q)
    OBVIOUS
  <2>3. sessions' \in [1 .. Len(sessions) -> Statuses]
    BY <1>4, <2>1 DEF Statuses
  <2>4. sessions' \in Seq(Statuses) /\ Len(sessions') = Len(sessions)
    BY <2>1, <2>3
  <2> QED
    BY <1>4, <2>1, <2>2, <2>3, <2>4
<1>6. Quiet' => Quiet /\ Relies(r)' /\ LiveIn(left \cup MayLive(r))'
  <2> SUFFICES ASSUME Quiet' PROVE Quiet /\ Relies(r)' /\ LiveIn(left \cup MayLive(r))'
    OBVIOUS
  <2>1. Quiet /\ Relies(r)'
    BY <1>2, <1>4 DEF Quiet, Relies
  <2>2. \A s \in DOMAIN sessions : sessions[s] = "live" => s \in left \cup {q.refresh}
    BY <1>1, <2>1 DEF LiveIn, MayLive
  <2>3. \A s \in DOMAIN sessions' : sessions'[s] = "live" => s # q.refresh
    BY <1>5 DEF Subject, Inv, TypeOK, None
  <2> QED
    BY <1>4, <1>5, <2>1, <2>2, <2>3 DEF LiveIn
<1>7. /\ Len(sessions') >= Len(sessions) /\ overlapped' \in BOOLEAN /\ disturbances' \in Nat
      /\ r.new \in Tokens' /\ r.refresh \in Tokens'
  BY <1>1, <1>2, <1>4, <1>5 DEF Inv, TypeOK, Tokens
<1> QED
  BY <1>1, <1>2, <1>3, <1>4, <1>5, <1>6, <1>7, StepKeeps

LEMMA RevokeAllKeeps ==
  ASSUME Inv, NEW t \in Tabs, RevokeAll(t)
  PROVE  Inv'
<1> PICK q : q = request[t]
  OBVIOUS
<1> PICK pc : pc = IF q.kind = "reset" THEN "create" ELSE "ended"
  OBVIOUS
<1> PICK r : r = [q EXCEPT !.pc = pc]
  OBVIOUS
<1>1. /\ q \in Requests /\ q.new \in Tokens /\ q.refresh \in Tokens
      /\ Quiet => /\ \A u \in UnderWay : u = t
                  /\ cookies.refresh = q.refresh
  BY Request DEF RevokeAll
<1>2. /\ r \in Requests /\ r.pc = pc /\ r.new = q.new /\ r.refresh = q.refresh
  BY <1>1 DEF Requests, Steps
<1>3. request' = [request EXCEPT ![t] = r]
  BY DEF RevokeAll, Step, Inv, TypeOK
<1>4. /\ sessions' = [s \in DOMAIN sessions |-> IF Live(s) THEN "revoked" ELSE sessions[s]]
      /\ UNCHANGED <<cookies, left, overlapped, disturbances>>
  BY DEF RevokeAll
<1>5. /\ sessions' \in Seq(Statuses) /\ Len(sessions') = Len(sessions)
      /\ \A s \in DOMAIN sessions' : sessions'[s] # "live"
  BY <1>4 DEF Inv, TypeOK, Statuses, Live, None
<1>6. Quiet' => Quiet /\ Relies(r)' /\ LiveIn(left \cup MayLive(r))'
  BY <1>2, <1>4, <1>5 DEF Quiet, Relies, LiveIn
<1>7. /\ Len(sessions') >= Len(sessions) /\ overlapped' \in BOOLEAN /\ disturbances' \in Nat
      /\ r.new \in Tokens' /\ r.refresh \in Tokens'
  BY <1>1, <1>2, <1>4, <1>5 DEF Inv, TypeOK, Tokens
<1> QED
  BY <1>1, <1>2, <1>3, <1>4, <1>5, <1>6, <1>7, StepKeeps

LEMMA CreateKeeps ==
  ASSUME Inv, NEW t \in Tabs, Create(t)
  PROVE  Inv'
<1> PICK q : q = request[t]
  OBVIOUS
<1> PICK n : n = Len(sessions) + 1
  OBVIOUS
<1> PICK r : r = [q EXCEPT !.pc = "issued", !.new = n]
  OBVIOUS
<1>1. /\ q \in Requests /\ q.pc = "create" /\ q.refresh \in Tokens
      /\ Quiet => /\ \A u \in UnderWay : u = t
                  /\ cookies.refresh = q.refresh
                  /\ LiveIn(left \cup MayLive(q))
  BY Request DEF Create
<1>2. /\ r \in Requests /\ r.pc = "issued" /\ r.kind = q.kind /\ r.new = n
      /\ r.refresh = q.refresh
  <2>1. n \in Nat
    BY DEF Inv, TypeOK
  <2> QED
    BY <1>1, <2>1 DEF Requests, Steps
<1>3. request' = [request EXCEPT ![t] = r]
  BY DEF Create, Inv, TypeOK
<1>4. /\ sessions' = Append(sessions, "live")
      /\ UNCHANGED <<cookies, left, overlapped, disturbances>>
  BY DEF Create
<1>5. /\ sessions' \in Seq(Statuses) /\ Len(sessions') = n
      /\ DOMAIN sessions' = DOMAIN sessions \cup {n}
      /\ sessions'[n] = "live"
      /\ \A s \in DOMAIN sessions : sessions'[s] = sessions[s]
  BY <1>4 DEF Inv, TypeOK, Statuses
<1>6. Quiet' => Quiet /\ Relies(r)' /\ LiveIn(left \cup MayLive(r))'
  <2> SUFFICES ASSUME Quiet' PROVE Quiet /\ Relies(r)' /\ LiveIn(left \cup MayLive(r))'
    OBVIOUS
  <2>1. Quiet /\ Relies(r)'
    BY <1>2, <1>4, <1>5 DEF Quiet, Relies, Unrevoked
  <2>2. MayLive(q) \cup {n} \subseteq MayLive(r)'
    BY <1>1, <1>2, <1>5 DEF MayLive, Tokens, Inv, TypeOK
  <2> QED
    BY <1>1, <1>4, <1>5, <2>1, <2>2 DEF LiveIn
<1>7. /\ Len(sessions') >= Len(sessions) /\ overlapped' \in BOOLEAN /\ disturbances' \in Nat
      /\ r.new \in Tokens' /\ r.refresh \in Tokens'
  BY <1>1, <1>2, <1>4, <1>5 DEF Inv, TypeOK, Tokens
<1> QED
  BY <1>1, <1>2, <1>3, <1>4, <1>5, <1>6, <1>7, StepKeeps

\* A disturbance ends what is said of calm times.
LEMMA FailKeeps ==
  ASSUME Inv, NEW t \in Tabs, Fail(t)
  PROVE  Inv'
<1> PICK pc : pc = Failed(request[t])
  OBVIOUS
<1>1. pc \in Steps /\ Step(t, pc) /\ request[t].pc # "none"
  BY DEF Fail, Failed, Steps
<1>2. /\ UNCHANGED <<sessions, cookies, left, overlapped>>
      /\ disturbances' \in Nat /\ disturbances' >= disturbances /\ disturbances' # 0
  BY DEF Fail, Inv, TypeOK
<1>3. ~Quiet'
  BY <1>2 DEF Quiet
<1> QED
  BY <1>1, <1>2, <1>3, Moves

\* The request of a tab ends.
LEMMA EndKeeps ==
  ASSUME Inv, NEW t \in Tabs, request[t].pc # "none",
         request' = [request EXCEPT ![t] = NoRequest],
         UNCHANGED <<sessions, overlapped>>,
         cookies' \in [access : Nat, refresh : Nat], cookies'.refresh \in Tokens,
         disturbances' \in Nat, CookiesArePair',
         Quiet' => /\ Quiet
                   /\ LiveIn(left \cup {cookies.refresh})' /\ Unrevoked(cookies.refresh)'
  PROVE  Inv'
<1>1. \A u \in Tabs : request'[u] = IF u = t THEN NoRequest ELSE request[u]
  BY DEF Inv, TypeOK
<1>2. UnderWay' = UnderWay \ {t} /\ t \in UnderWay
  BY <1>1, UnderWayByStep DEF UnderWay, Inv
<1>3. TypeOK'
  BY <1>1, <1>2 DEF Inv, TypeOK, Tokens
<1>4. Quiet' => UnderWay' = {}
  BY <1>2 DEF Inv, Sole
<1>5. Sole'
  BY <1>4 DEF Sole
<1> QED
  BY <1>3, <1>5 DEF Inv

LEMMA ArriveKeeps ==
  ASSUME Inv, NEW t \in Tabs, Arrive(t)
  PROVE  Inv'
<1> PICK q : q = request[t]
  OBVIOUS
<1>1. /\ q \in Requests /\ q.new \in Tokens /\ q.refresh \in Tokens
      /\ q.pc \in {"issued", "ended", "failed"}
      /\ Quiet => /\ cookies.refresh = q.refresh
                  /\ LiveIn(left \cup MayLive(q)) /\ Relies(q)
  BY Request DEF Arrive
<1>2. /\ cookies' = CookiesAfter(q)
      /\ left' = IF LetsGo(q) THEN left \cup {cookies.refresh} ELSE left
      /\ UNCHANGED <<sessions, overlapped, disturbances>>
  BY DEF Arrive
<1>3. /\ cookies' \in [access : Nat, refresh : Nat] /\ cookies'.refresh \in Tokens
      /\ CookiesArePair'
  BY <1>1, <1>2 DEF CookiesAfter, Inv, TypeOK, Tokens, Requests, NoCookies, None, CookiesArePair
<1>4. cookies'.refresh = CASE q.pc = "issued" -> q.new
                           [] q.pc = "ended" -> None
                           [] q.pc = "failed" -> IF q.kind = "page" THEN None ELSE cookies.refresh
  BY <1>1, <1>2 DEF CookiesAfter, NoCookies, Inv, TypeOK
<1>5. Quiet' => LiveIn(left \cup {cookies.refresh})' /\ Unrevoked(cookies.refresh)'
  <2> SUFFICES ASSUME Quiet'
               PROVE  LiveIn(left \cup {cookies.refresh})' /\ Unrevoked(cookies.refresh)'
    OBVIOUS
  <2>1. /\ Quiet /\ cookies.refresh = q.refresh
        /\ \A s \in DOMAIN sessions : sessions[s] = "live" => s \in left \cup MayLive(q)
        /\ Relies(q)
    BY <1>1, <1>2 DEF Quiet, LiveIn
  <2>2. MayLive(q) \subseteq left' \cup {cookies'.refresh}
    BY <1>1, <1>2, <1>4, <2>1 DEF MayLive, LetsGo
  <2>3. Unrevoked(cookies.refresh)'
    BY <1>1, <1>2, <1>4, <2>1 DEF Relies, Unrevoked, None
  <2> QED
    BY <1>2, <2>1, <2>2, <2>3 DEF LiveIn
<1>6. Quiet' => Quiet
  BY <1>2 DEF Quiet
<1> QED
  BY <1>1, <1>2, <1>3, <1>5, <1>6, EndKeeps DEF Arrive, Inv, TypeOK

LEMMA AnswerLostKeeps ==
  ASSUME Inv, NEW t \in Tabs, AnswerLost(t)
  PROVE  Inv'
<1>1. /\ request[t].pc # "none" /\ request' = [request EXCEPT ![t] = NoRequest]
      /\ UNCHANGED <<sessions, cookies, overlapped>>
      /\ disturbances' \in Nat /\ disturbances' # 0
  BY DEF AnswerLost, Inv, TypeOK
<1>2. ~Quiet' /\ CookiesArePair'
  BY <1>1 DEF Quiet, Inv, CookiesArePair
<1> QED
  BY <1>1, <1>2, EndKeeps DEF Inv, TypeOK

\* Time passes for a cookie or a session.
LEMMA TimeKeeps ==
  ASSUME Inv, AccessExpires \/ RefreshExpires \/ \E s \in DOMAIN sessions : SessionExpires(s)
  PROVE  Inv'
<1>1. CASE AccessExpires
  <2>1. /\ UNCHANGED <<sessions, request, left, overlapped, disturbances>>
        /\ cookies' \in [access : Nat, refresh : Nat]
        /\ cookies'.refresh = cookies.refresh /\ cookies'.access = None
    BY <1>1 DEF AccessExpires, Inv, TypeOK, None
  <2> QED
    BY <2>1 DEF Inv, TypeOK, Tokens, Sole, Quiet, CookiesArePair, UnderWay, LiveIn, MayLive,
                Relies, Unrevoked
<1>2. CASE RefreshExpires
  <2>1. /\ UNCHANGED <<sessions, request, left, overlapped>>
        /\ cookies' \in [access : Nat, refresh : Nat]
        /\ cookies'.refresh = None
        /\ disturbances' \in Nat /\ disturbances' # 0
    BY <1>2 DEF RefreshExpires, Inv, TypeOK, None
  <2> QED
    BY <2>1 DEF Inv, TypeOK, Tokens, Sole, Quiet, CookiesArePair, UnderWay, None
<1>3. ASSUME NEW s \in DOMAIN sessions, SessionExpires(s)
      PROVE  Inv'
  <2>1. UNCHANGED <<cookies, request, left, overlapped, disturbances>>
    BY <1>3 DEF SessionExpires
  <2>2. sessions \in [1 .. Len(sessions) -> Statuses] /\ Len(sessions) \in Nat
    BY DEF Inv, TypeOK
  <2>3. /\ sessions' \in [1 .. Len(sessions) -> Statuses]
        /\ \A u \in DOMAIN sessions : sessions'[u] = IF u = s THEN "expired" ELSE sessions[u]
    BY <1>3, <2>2 DEF SessionExpires, Statuses
  <2>4. /\ sessions' \in Seq(Statuses) /\ Len(sessions') = Len(sessions)
        /\ DOMAIN sessions' = DOMAIN sessions
    BY <2>2, <2>3
  <2>5. \A u \in Tokens : Unrevoked(u) => Unrevoked(u)'
    BY <2>2, <2>3 DEF Unrevoked, Tokens, None
  <2>6. TypeOK' /\ CookiesArePair' /\ Tokens' = Tokens /\ UnderWay' = UnderWay
    BY <2>1, <2>4 DEF Inv, TypeOK, Tokens, CookiesArePair, UnderWay
  <2>7. \A t \in UnderWay : request[t].new \in Tokens /\ request[t].refresh \in Tokens
    BY DEF Inv, TypeOK
  <2>8. Sole'
    <3> SUFFICES ASSUME Quiet'
                 PROVE /\ \A t, u \in UnderWay : t = u
                       /\ \A t \in UnderWay : /\ cookies.refresh = request[t].refresh
                                              /\ LiveIn(left \cup MayLive(request[t]))'
                                              /\ Relies(request[t])'
                       /\ UnderWay = {} =>
                            LiveIn(left \cup {cookies.refresh})' /\ Unrevoked(cookies.refresh)'
      BY <2>1, <2>6 DEF Sole
    <3>1. Quiet
      BY <2>1 DEF Quiet
    <3>2. \A t \in UnderWay : LiveIn(left \cup MayLive(request[t]))
            => LiveIn(left \cup MayLive(request[t]))'
      BY <2>1, <2>3, <2>4, <2>6 DEF LiveIn, MayLive
    <3>3. LiveIn(left \cup {cookies.refresh}) => LiveIn(left \cup {cookies.refresh})'
      BY <2>1, <2>3, <2>4 DEF LiveIn
    <3>4. \A t \in UnderWay : Relies(request[t]) => Relies(request[t])'
      BY <2>1, <2>5, <2>7 DEF Relies
    <3>5. Unrevoked(cookies.refresh) => Unrevoked(cookies.refresh)'
      BY <2>1, <2>5 DEF Inv, TypeOK
    <3> QED
      BY <3>1, <3>2, <3>3, <3>4, <3>5 DEF Inv, Sole
  <2> QED
    BY <2>6, <2>8 DEF Inv
<1> QED
  BY <1>1, <1>2, <1>3

\* The two cookies always are of one session; and as long as requests do not overlap and
\* nothing disturbs them, the browser keeps its session and leaves none behind but those it
\* is known to let go of, in any number of tabs and however often the user signs in and out.
THEOREM CookiesFitSessionsCorrect == Spec => []CookiesFitSessions
<1>1. Init => Inv
  <2> SUFFICES ASSUME Init PROVE Inv
    OBVIOUS
  <2>1. /\ UnderWay = {} /\ sessions = <<>> /\ cookies = NoCookies
        /\ overlapped = FALSE /\ disturbances = 0 /\ request \in [Tabs -> {NoRequest}]
    BY DEF Init, UnderWay
  <2>2. sessions \in Seq(Statuses) /\ Len(sessions) = 0 /\ DOMAIN sessions = {}
    BY <2>1
  <2>3. TypeOK
    <3>1. NoCookies \in [access : Nat, refresh : Nat] /\ NoCookies.refresh = 0
      BY DEF NoCookies, None
    <3>2. 0 \in Tokens
      BY <2>2 DEF Tokens
    <3>3. request \in [Tabs -> Requests \cup {NoRequest}]
      BY <2>1
    <3> QED
      BY <2>1, <2>2, <3>1, <3>2, <3>3 DEF TypeOK
  <2>4. Sole /\ CookiesArePair
    BY <2>1, <2>2 DEF Sole, CookiesArePair, NoCookies, None, LiveIn, Unrevoked
  <2> QED
    BY <2>3, <2>4 DEF Inv
<1>2. Inv /\ [Next]_vars => Inv'
  <2> SUFFICES ASSUME Inv, [Next]_vars PROVE Inv'
    OBVIOUS
  <2>1. CASE UNCHANGED vars
    BY <2>1 DEF vars, Inv, TypeOK, Tokens, Sole, Quiet, CookiesArePair, UnderWay, LiveIn,
                MayLive, Relies, Unrevoked
  <2>2. ASSUME NEW t \in Tabs,
               \/ OpenPage(t) \/ Renew(t) \/ Login(t) \/ ResetPassword(t)
               \/ Logout(t) \/ LogoutAll(t)
        PROVE  Inv'
    BY <2>2, SendKeeps
       DEF OpenPage, Renew, Login, ResetPassword, Logout, LogoutAll, Kinds, Steps
  <2>3. ASSUME NEW t \in Tabs,
               \/ Find(t) \/ Revoke(t) \/ RevokeAll(t) \/ Create(t) \/ Fail(t)
               \/ Arrive(t) \/ AnswerLost(t)
        PROVE  Inv'
    BY <2>3, FindKeeps, RevokeKeeps, RevokeAllKeeps, CreateKeeps, FailKeeps, ArriveKeeps,
       AnswerLostKeeps
  <2> QED
    BY <2>1, <2>2, <2>3, TimeKeeps DEF Next
<1> QED
  BY <1>1, <1>2, InvGivesProperty, PTL DEF Spec

-----------------------------------------------------------------------------
(* ExtensionRuntime                                                        *)
(*                                                                         *)
(* Every call owns its event and puts it into the buffer once (OwnEvents).   *)
(* While no two calls meet at the buffer, the one that is there holds it as   *)
(* it still is, so that its write only takes off what a flush has delivered   *)
(* or trimming drops: the buffer is the end of all that was put into it       *)
(* (LastOnes), and its beginning is delivered or excused.  The session is     *)
(* kept because one refresh is under way at a time and is that of the stored  *)
(* token: it is revoked only when its successor is on the way (RefreshFits).  *)

SessionRecords == [revoked : BOOLEAN, age : {"fresh", "closing", "expired"}]
HandlerRecords == [step : {"asked", "resolved", "revoked", "done", "denied", "closed"},
                   token : Nat, new : Nat, awaited : BOOLEAN]
CallStates == [pc : Extension!Pcs, task : {"none", "send", "flush", "refresh", "connect"},
  event : Extension!Events,
               token : Nat, usable : BOOLEAN, retried : BOOLEAN, waits : Nat,
               snap : Seq(Extension!Events), sent : Nat, unauthorized : BOOLEAN, connects : BOOLEAN]
UsedBounds == [{"calls", "agings", "faults"} -> Nat]

ClientTyped ==
  /\ tokens \in Seq(SessionRecords) /\ handlers \in Seq(HandlerRecords)
  /\ site \in {"idle", "revoked"}
  /\ stored \in Nat /\ stored <= Len(tokens) /\ cached \in BOOLEAN
  /\ refreshing \in Nat /\ refreshing <= Len(handlers)
  /\ buffer \in Seq(Extension!Events) /\ Len(buffer) <= MaxItems
  /\ procs \in [Procs -> CallStates]
  /\ used \in UsedBounds /\ used.calls <= MaxCalls
  /\ appended \in Seq(Extension!Events)
  /\ overlap \in BOOLEAN /\ upset \in BOOLEAN

\* What a call holds at each of its steps, if there are so many sessions.
Holds(c, n) ==
  /\ c \in CallStates /\ c.token <= n /\ Len(c.snap) <= MaxItems
  /\ c.pc \in {"refreshing", "request", "deliver", "save"} => c.token # Extension!NoToken
  /\ c.pc = "idle" => c = Extension!Idle
  /\ c.pc \in {"request", "append", "store", "check"} => c.task = "send"
  /\ c.pc \in {"flush", "deliver", "rest"} => c.task = "flush"
  /\ c.pc \in {"bind", "issue", "save"} => c.task = "connect"
  /\ c.pc \in {"session", "refreshing"} => c.task \in {"send", "flush", "refresh"}
  /\ c.pc = "flush" => c.sent = 0
  /\ c.task = "flush" /\ c.pc \in {"session", "refreshing", "deliver"} => c.sent < Len(c.snap)
  /\ c.pc = "rest" => c.sent <= Len(c.snap)
  /\ c.event.id = 0 => c.event = Extension!NoEvent
  /\ c.task = "send" => c.event.id # 0
  /\ c.task \notin {"send", "connect"} => c.event = Extension!NoEvent
  /\ c.event.kind = "reconnect_requested" => ~c.unauthorized /\ c.pc \in {"append", "store"}

HandlerFits(h, n) ==
  /\ h.token <= n /\ h.new <= n
  /\ h.step # "closed" => h.token # Extension!NoToken
  /\ h.step = "done" => h.new # Extension!NoToken
  /\ h.step \in {"asked", "resolved", "revoked", "denied"} => h.new = Extension!NoToken
  /\ h.step \in {"done", "denied"} => h.awaited

Shape ==
  /\ ClientTyped
  /\ \A p \in Procs : Holds(procs[p], Len(tokens))
  /\ \A r \in DOMAIN handlers : HandlerFits(handlers[r], Len(tokens))

-----------------------------------------------------------------------------
\* A call is at the buffer (AtBuffer); a call goes on without putting an event into it.
At(c) == c.pc = "store" \/ (c.task = "flush" /\ c.pc \notin {"idle", "flush"})

TellsNone(c, d) == d.event.id # 0 => d.event = c.event /\ (d.pc = "check" <=> c.pc = "check")

LeavesBuffer(c, d) ==
  /\ d.snap = c.snap \/ d.snap = <<>>
  /\ d.task = "flush" => d.snap = <<>> \/ (c.task = "flush" /\ d.sent = c.sent)
  /\ At(d) => At(c) /\ d.snap = c.snap

GoesOn(c, d) == TellsNone(c, d) /\ LeavesBuffer(c, d)

LEMMA EmptyFits == Len(<<>>) <= MaxItems
  BY ExtensionAssumption

LEMMA IdleHolds == ASSUME NEW n \in Nat PROVE Holds(Extension!Idle, n)
<1>1. Extension!NoEvent \in Extension!Events /\ Extension!NoEvent.id = 0
      /\ Extension!NoEvent.kind = "usage"
  BY ExtensionAssumption DEF Extension!NoEvent, Extension!Event, Extension!Events, Extension!Kinds
<1> QED
  BY EmptyFits, <1>1 DEF Holds, Extension!Idle, CallStates, Extension!Pcs, Extension!NoToken

LEMMA HoldsMore ==
  ASSUME NEW m \in Nat, NEW n \in Nat, m <= n, NEW c, Holds(c, m)
  PROVE  Holds(c, n)
<1>1. c.token \in Nat
  BY DEF Holds, CallStates
<1>2. c.token <= n
  BY <1>1 DEF Holds
<1> QED
  BY <1>2 DEF Holds

LEMMA HandlerFitsMore ==
  ASSUME NEW m \in Nat, NEW n \in Nat, m <= n, NEW h \in HandlerRecords, HandlerFits(h, m)
  PROVE  HandlerFits(h, n)
  BY DEF HandlerFits, HandlerRecords

LEMMA ToFlushHolds ==
  ASSUME NEW n \in Nat, NEW d, d = [Extension!Idle EXCEPT !.pc = "flush", !.task = "flush"]
  PROVE  Holds(d, n) /\ d.pc = "flush" /\ d.snap = <<>> /\ d.event.id = 0
<1>1. Extension!NoEvent \in Extension!Events /\ Extension!NoEvent.id = 0
      /\ Extension!NoEvent.kind = "usage"
  BY ExtensionAssumption DEF Extension!NoEvent, Extension!Event, Extension!Events, Extension!Kinds
<1>2. Extension!Idle \in CallStates /\ Extension!Idle.sent = 0 /\ Extension!Idle.token = 0
      /\ Extension!Idle.event = Extension!NoEvent /\ Extension!Idle.snap = <<>>
  BY <1>1 DEF Extension!Idle, CallStates, Extension!Pcs, Extension!NoToken
<1>3. d \in CallStates
  BY <1>2 DEF CallStates, Extension!Pcs
<1>4. d.pc = "flush" /\ d.task = "flush" /\ d.sent = 0 /\ d.token = 0 /\ d.event = Extension!NoEvent
      /\ d.snap = <<>>
  BY <1>2 DEF CallStates
<1> QED
  BY EmptyFits, <1>1, <1>3, <1>4 DEF Holds, Extension!NoToken

LEMMA IdleGoesOn == ASSUME NEW c PROVE GoesOn(c, Extension!Idle)
  BY DEF GoesOn, TellsNone, LeavesBuffer, At, Extension!Idle, Extension!NoEvent, Extension!Event

LEMMA OverHolds ==
  ASSUME NEW n \in Nat, NEW p, NEW c
  PROVE  Holds(Extension!Over(p), n) /\ GoesOn(c, Extension!Over(p))
         /\ Extension!Over(p).pc \in {"idle", "flush"}
<1>1. CASE procs[p].connects
  <2>1. Extension!Over(p) = [Extension!Idle EXCEPT !.pc = "flush", !.task = "flush"]
    BY <1>1 DEF Extension!Over
  <2> QED
    BY <2>1, ToFlushHolds DEF GoesOn, TellsNone, LeavesBuffer, At
<1>2. CASE ~procs[p].connects
  <2>1. Extension!Over(p) = Extension!Idle
    BY <1>2 DEF Extension!Over
  <2> QED
    <3>1. Extension!Idle.pc = "idle"
      BY DEF Extension!Idle
    <3> QED
      BY <2>1, <3>1, IdleHolds, IdleGoesOn
<1> QED
  BY <1>1, <1>2

LEMMA OverState ==
  ASSUME NEW p PROVE ~At(Extension!Over(p)) /\ Extension!Over(p).snap = <<>>
         /\ Extension!Over(p).event.id = 0
<1>1. CASE procs[p].connects
  <2>1. Extension!Over(p) = [Extension!Idle EXCEPT !.pc = "flush", !.task = "flush"]
    BY <1>1 DEF Extension!Over
  <2> QED
    BY <2>1, ToFlushHolds DEF At
<1>2. CASE ~procs[p].connects
  <2>1. Extension!Over(p) = Extension!Idle
    BY <1>2 DEF Extension!Over
  <2> QED
    BY <2>1 DEF At, Extension!Idle, Extension!NoEvent, Extension!Event
<1> QED
  BY <1>1, <1>2

\* A call that goes on without a session: its event is to be stored.
Sessionless(c, u) ==
  [c EXCEPT !.pc = "append", !.token = Extension!NoToken, !.usable = FALSE, !.waits = 0,
            !.unauthorized = u]

LEMMA HasNone ==
  ASSUME NEW n \in Nat, NEW c, Holds(c, n), c.task = "send",
         c.pc \in {"session", "refreshing", "request"}, NEW u \in BOOLEAN,
         NEW d, d = Sessionless(c, u)
  PROVE  Holds(d, n) /\ GoesOn(c, d) /\ d.pc = "append" /\ d.token = Extension!NoToken
<1> USE DEF Sessionless
<1>1. c \in CallStates
  BY DEF Holds
<1>2. d \in CallStates
  BY <1>1 DEF CallStates, Extension!Pcs, Extension!NoToken
<1>3. d.pc = "append" /\ d.token = Extension!NoToken
  BY <1>1 DEF CallStates
<1>4. d.task = c.task /\ d.event = c.event /\ d.snap = c.snap /\ d.sent = c.sent
  BY <1>1 DEF CallStates
<1>5. Holds(d, n)
  BY <1>2, <1>3, <1>4 DEF Holds, Extension!NoToken, Extension!Idle
<1> QED
  BY <1>3, <1>4, <1>5 DEF GoesOn, TellsNone, LeavesBuffer, At, Holds

LEMMA Retries ==
  ASSUME NEW n \in Nat, NEW c, Holds(c, n), c.pc = "request",
         NEW d, d = [c EXCEPT !.pc = "session", !.token = Extension!NoToken, !.retried = TRUE]
  PROVE  Holds(d, n) /\ GoesOn(c, d) /\ d.pc = "session" /\ d.token = Extension!NoToken
<1>1. c \in CallStates
  BY DEF Holds
<1>2. d \in CallStates
  BY <1>1 DEF CallStates, Extension!Pcs, Extension!NoToken
<1>3. d.pc = "session" /\ d.token = Extension!NoToken
  BY <1>1 DEF CallStates
<1>4. d.task = c.task /\ d.event = c.event /\ d.snap = c.snap /\ d.sent = c.sent
      /\ d.unauthorized = c.unauthorized
  BY <1>1 DEF CallStates
<1>5. Holds(d, n)
  BY <1>2, <1>3, <1>4 DEF Holds, Extension!NoToken, Extension!Idle
<1> QED
  BY <1>3, <1>4, <1>5 DEF GoesOn, TellsNone, LeavesBuffer, At, Holds

LEMMA WithHolds ==
  ASSUME NEW n \in Nat, NEW p \in Procs, Holds(procs[p], n),
         procs[p].pc \in {"session", "refreshing"}, NEW t \in 1..n
  PROVE  /\ Holds(Extension!With(p, t), n) /\ GoesOn(procs[p], Extension!With(p, t))
         /\ Extension!With(p, t).pc \in {"request", "deliver", "idle"}
<1>0. procs[p] \in CallStates /\ t \in Nat
  BY DEF Holds
<1>1. CASE procs[p].task = "send"
  <2>1. Extension!With(p, t) = [procs[p] EXCEPT !.pc = "request", !.token = t, !.usable = FALSE,
          !.waits = 0]
    BY <1>1 DEF Extension!With
  <2>2. Extension!With(p, t) \in CallStates
    <3>1. [procs[p] EXCEPT !.pc = "request", !.token = t, !.usable = FALSE,
            !.waits = 0] \in CallStates
      BY <1>0 DEF CallStates, Extension!Pcs
    <3> QED
      BY <2>1, <3>1
  <2>3. Extension!With(p, t).pc = "request" /\ Extension!With(p, t).token = t
        /\ Extension!With(p, t).task = "send"
    BY <1>0, <1>1, <2>1 DEF CallStates
  <2>4. /\ Extension!With(p, t).event = procs[p].event /\ Extension!With(p, t).snap = procs[p].snap
        /\ Extension!With(p, t).sent = procs[p].sent
           /\ Extension!With(p, t).unauthorized = procs[p].unauthorized
    BY <1>0, <2>1 DEF CallStates
  <2>5. Holds(Extension!With(p, t), n)
    BY <1>1, <2>2, <2>3, <2>4 DEF Holds, Extension!NoToken, Extension!Idle
  <2> QED
    BY <1>1, <2>3, <2>4, <2>5 DEF GoesOn, TellsNone, LeavesBuffer, At, Holds
<1>2. CASE procs[p].task = "flush"
  <2>1. Extension!With(p, t) = [procs[p] EXCEPT !.pc = "deliver", !.token = t, !.usable = FALSE,
          !.waits = 0]
    BY <1>2 DEF Extension!With
  <2>2. Extension!With(p, t) \in CallStates
    <3>1. [procs[p] EXCEPT !.pc = "deliver", !.token = t, !.usable = FALSE,
            !.waits = 0] \in CallStates
      BY <1>0 DEF CallStates, Extension!Pcs
    <3> QED
      BY <2>1, <3>1
  <2>3. Extension!With(p, t).pc = "deliver" /\ Extension!With(p, t).token = t
        /\ Extension!With(p, t).task = "flush"
    BY <1>0, <1>2, <2>1 DEF CallStates
  <2>4. /\ Extension!With(p, t).event = procs[p].event /\ Extension!With(p, t).snap = procs[p].snap
        /\ Extension!With(p, t).sent = procs[p].sent
           /\ Extension!With(p, t).unauthorized = procs[p].unauthorized
    BY <1>0, <2>1 DEF CallStates
  <2>5. Holds(Extension!With(p, t), n)
    BY <1>2, <2>2, <2>3, <2>4 DEF Holds, Extension!NoToken, Extension!Idle
  <2> QED
    BY <1>2, <2>3, <2>4, <2>5 DEF GoesOn, TellsNone, LeavesBuffer, At, Holds
<1>3. CASE procs[p].task = "refresh"
  BY <1>3, IdleHolds, IdleGoesOn DEF Extension!With, Extension!Idle
<1>4. procs[p].task = "send" \/ procs[p].task = "flush" \/ procs[p].task = "refresh"
  <2>1. procs[p].pc \in {"session", "refreshing"}
          => procs[p].task \in {"send", "flush", "refresh"}
    BY DEF Holds
  <2> QED
    BY <2>1
<1> QED
  BY <1>1, <1>2, <1>3, <1>4

LEMMA WithoutHolds ==
  ASSUME NEW n \in Nat, NEW p \in Procs, Holds(procs[p], n),
         procs[p].pc \in {"session", "refreshing", "request"}, NEW u \in BOOLEAN
  PROVE  /\ Holds(Extension!Without(p, u), n) /\ GoesOn(procs[p], Extension!Without(p, u))
         /\ Extension!Without(p, u).pc \in {"append", "idle"}
<1>1. CASE procs[p].task = "send"
  <2>1. Extension!Without(p, u) = Sessionless(procs[p], u)
    BY <1>1 DEF Extension!Without, Sessionless
  <2> QED
    BY <1>1, <2>1, HasNone
<1>2. CASE procs[p].task # "send"
  BY <1>2, IdleHolds, IdleGoesOn DEF Extension!Without, Extension!Idle
<1> QED
  BY <1>1, <1>2

LEMMA UseTyped ==
  ASSUME used \in UsedBounds, used.calls <= MaxCalls,
         NEW b \in {"calls", "agings", "faults"}, Extension!CanUse(b), Extension!Use(b)
  PROVE  /\ used' \in UsedBounds /\ used'.calls <= MaxCalls
         /\ used'.calls = IF b = "calls" THEN used.calls + 1 ELSE used.calls
  BY ExtensionAssumption DEF UsedBounds, Extension!CanUse, Extension!Use, Extension!Bounds

\* One call moves, and the rest of the client and of the API stays.
LEMMA CallShape ==
  ASSUME Shape, NEW p \in Procs, NEW c, Extension!Goto(p, c), Holds(c, Len(tokens)),
         UNCHANGED <<tokens, handlers, site, stored, cached, refreshing>>,
         buffer' \in Seq(Extension!Events), Len(buffer') <= MaxItems,
           appended' \in Seq(Extension!Events),
         used' \in UsedBounds, used'.calls <= MaxCalls, overlap' \in BOOLEAN, upset' \in BOOLEAN
  PROVE  Shape'
<1>1. procs' = [procs EXCEPT ![p] = c] /\ c \in CallStates
  BY DEF Extension!Goto, Holds
<1>2. procs' \in [Procs -> CallStates] /\ \A q \in Procs : Holds(procs'[q], Len(tokens))
  BY <1>1 DEF Shape, ClientTyped
<1>3. ClientTyped'
  BY <1>2 DEF Shape, ClientTyped
<1> QED
  BY <1>2, <1>3 DEF Shape

LEMMA StoresNext ==
  ASSUME Shape, NEW p \in Procs, procs[p].pc = "append",
         NEW d, d = [procs[p] EXCEPT !.pc = "store", !.snap = buffer]
  PROVE  /\ Holds(d, Len(tokens)) /\ d.pc = "store" /\ d.snap = buffer
         /\ d.task = procs[p].task /\ d.event = procs[p].event /\ d.token = procs[p].token
            /\ d.sent = procs[p].sent /\ d.unauthorized = procs[p].unauthorized
<1>1. procs[p] \in CallStates /\ Holds(procs[p], Len(tokens)) /\ <<>> \in Seq(Extension!Events)
  BY DEF Shape, ClientTyped
<1>2. d \in CallStates
  <2>1. [procs[p] EXCEPT !.pc = "store", !.snap = buffer] \in CallStates
    BY <1>1 DEF CallStates, Extension!Pcs, Shape, ClientTyped
  <2> QED
    BY <2>1
<1>3. d.pc = "store" /\ d.snap = buffer
  BY <1>1 DEF CallStates
<1>4. d.task = procs[p].task /\ d.event = procs[p].event /\ d.token = procs[p].token
      /\ d.sent = procs[p].sent /\ d.unauthorized = procs[p].unauthorized
  BY <1>1 DEF CallStates
<1>5. Holds(d, Len(tokens))
  <2>1. Len(buffer) <= MaxItems
    BY DEF Shape, ClientTyped
  <2> QED
    BY <1>1, <1>2, <1>3, <1>4, <2>1 DEF Holds, Extension!NoToken
<1> QED
  BY <1>3, <1>4, <1>5

LEMMA ChecksNext ==
  ASSUME Shape, NEW p \in Procs, procs[p].pc = "store", procs[p].unauthorized,
         NEW d, d = [procs[p] EXCEPT !.pc = "check", !.snap = <<>>]
  PROVE  /\ Holds(d, Len(tokens)) /\ d.pc = "check" /\ d.snap = <<>>
         /\ d.task = procs[p].task /\ d.event = procs[p].event /\ d.token = procs[p].token
            /\ d.sent = procs[p].sent /\ d.unauthorized = procs[p].unauthorized
<1>1. procs[p] \in CallStates /\ Holds(procs[p], Len(tokens)) /\ <<>> \in Seq(Extension!Events)
  BY DEF Shape, ClientTyped
<1>2. d \in CallStates
  <2>1. [procs[p] EXCEPT !.pc = "check", !.snap = <<>>] \in CallStates
    BY <1>1 DEF CallStates, Extension!Pcs
  <2> QED
    BY <2>1
<1>3. d.pc = "check" /\ d.snap = <<>>
  BY <1>1 DEF CallStates
<1>4. d.task = procs[p].task /\ d.event = procs[p].event /\ d.token = procs[p].token
      /\ d.sent = procs[p].sent /\ d.unauthorized = procs[p].unauthorized
  BY <1>1 DEF CallStates
<1>5. Holds(d, Len(tokens))
  BY EmptyFits, <1>1, <1>2, <1>3, <1>4 DEF Holds, Extension!NoToken, Extension!Idle
<1> QED
  BY <1>3, <1>4, <1>5

LEMMA ReadsNext ==
  ASSUME Shape, NEW p \in Procs, procs[p].pc = "flush", buffer # <<>>,
         NEW d, d = [procs[p] EXCEPT !.pc = "session", !.snap = buffer, !.connects = FALSE]
  PROVE  /\ Holds(d, Len(tokens)) /\ d.pc = "session" /\ d.snap = buffer
         /\ d.task = procs[p].task /\ d.event = procs[p].event /\ d.token = procs[p].token
            /\ d.sent = procs[p].sent /\ d.unauthorized = procs[p].unauthorized
<1>1. procs[p] \in CallStates /\ Holds(procs[p], Len(tokens)) /\ <<>> \in Seq(Extension!Events)
  BY DEF Shape, ClientTyped
<1>2. d \in CallStates
  <2>1. [procs[p] EXCEPT !.pc = "session", !.snap = buffer, !.connects = FALSE] \in CallStates
    BY <1>1 DEF CallStates, Extension!Pcs, Shape, ClientTyped
  <2> QED
    BY <2>1
<1>3. d.pc = "session" /\ d.snap = buffer
  BY <1>1 DEF CallStates
<1>4. d.task = procs[p].task /\ d.event = procs[p].event /\ d.token = procs[p].token
      /\ d.sent = procs[p].sent /\ d.unauthorized = procs[p].unauthorized
  BY <1>1 DEF CallStates
<1>5. Holds(d, Len(tokens))
  BY <1>1, <1>2, <1>3, <1>4 DEF Holds, Extension!NoToken, Extension!Idle, Shape, ClientTyped
<1> QED
  BY <1>3, <1>4, <1>5

LEMMA RestsNext ==
  ASSUME Shape, NEW p \in Procs, procs[p].pc = "deliver",
         NEW d, d = [procs[p] EXCEPT !.pc = "rest"]
  PROVE  /\ Holds(d, Len(tokens)) /\ d.pc = "rest"
         /\ d.task = procs[p].task /\ d.event = procs[p].event /\ d.token = procs[p].token
            /\ d.snap = procs[p].snap /\ d.sent = procs[p].sent
               /\ d.unauthorized = procs[p].unauthorized
<1>1. procs[p] \in CallStates /\ Holds(procs[p], Len(tokens)) /\ <<>> \in Seq(Extension!Events)
  BY DEF Shape, ClientTyped
<1>0. procs[p].sent \in Nat /\ procs[p].snap \in Seq(Extension!Events) /\ Len(procs[p].snap) \in Nat
  <2>1. procs[p].sent \in Nat /\ procs[p].snap \in Seq(Extension!Events)
    BY <1>1 DEF CallStates
  <2> QED
    BY <2>1
<1>2. d \in CallStates
  <2>1. [procs[p] EXCEPT !.pc = "rest"] \in CallStates
    BY <1>1 DEF CallStates, Extension!Pcs
  <2> QED
    BY <2>1
<1>3. d.pc = "rest"
  BY <1>1 DEF CallStates
<1>4. d.task = procs[p].task /\ d.event = procs[p].event /\ d.token = procs[p].token
      /\ d.snap = procs[p].snap /\ d.sent = procs[p].sent /\ d.unauthorized = procs[p].unauthorized
  BY <1>1 DEF CallStates
<1>5. Holds(d, Len(tokens))
  BY <1>0, <1>1, <1>2, <1>3, <1>4 DEF Holds, Extension!NoToken, Extension!Idle
<1> QED
  BY <1>3, <1>4, <1>5

LEMMA IssuesNext ==
  ASSUME Shape, NEW p \in Procs, procs[p].pc = "bind",
         NEW d, d = [procs[p] EXCEPT !.pc = "issue"]
  PROVE  /\ Holds(d, Len(tokens)) /\ d.pc = "issue"
         /\ d.task = procs[p].task /\ d.event = procs[p].event /\ d.token = procs[p].token
            /\ d.snap = procs[p].snap /\ d.sent = procs[p].sent
               /\ d.unauthorized = procs[p].unauthorized
<1>1. procs[p] \in CallStates /\ Holds(procs[p], Len(tokens)) /\ <<>> \in Seq(Extension!Events)
  BY DEF Shape, ClientTyped
<1>2. d \in CallStates
  <2>1. [procs[p] EXCEPT !.pc = "issue"] \in CallStates
    BY <1>1 DEF CallStates, Extension!Pcs
  <2> QED
    BY <2>1
<1>3. d.pc = "issue"
  BY <1>1 DEF CallStates
<1>4. d.task = procs[p].task /\ d.event = procs[p].event /\ d.token = procs[p].token
      /\ d.snap = procs[p].snap /\ d.sent = procs[p].sent /\ d.unauthorized = procs[p].unauthorized
  BY <1>1 DEF CallStates
<1>5. Holds(d, Len(tokens))
  BY <1>1, <1>2, <1>3, <1>4 DEF Holds, Extension!NoToken, Extension!Idle
<1> QED
  BY <1>3, <1>4, <1>5

LEMMA SendsNext ==
  ASSUME Shape, NEW p \in Procs, procs[p].pc = "save", procs[p].event # Extension!NoEvent,
         NEW d, d = [procs[p] EXCEPT !.pc = "session", !.task = "send", !.token = Extension!NoToken]
  PROVE  /\ Holds(d, Len(tokens)) /\ d.pc = "session" /\ d.task = "send"
            /\ d.token = Extension!NoToken
         /\ d.event = procs[p].event /\ d.snap = procs[p].snap /\ d.sent = procs[p].sent
            /\ d.unauthorized = procs[p].unauthorized
<1>1. procs[p] \in CallStates /\ Holds(procs[p], Len(tokens)) /\ <<>> \in Seq(Extension!Events)
  BY DEF Shape, ClientTyped
<1>2. d \in CallStates
  <2>1. [procs[p] EXCEPT !.pc = "session", !.task = "send",
          !.token = Extension!NoToken] \in CallStates
    BY <1>1 DEF CallStates, Extension!Pcs, Extension!NoToken
  <2> QED
    BY <2>1
<1>3. d.pc = "session" /\ d.task = "send" /\ d.token = Extension!NoToken
  BY <1>1 DEF CallStates
<1>4. d.event = procs[p].event /\ d.snap = procs[p].snap /\ d.sent = procs[p].sent
      /\ d.unauthorized = procs[p].unauthorized
  BY <1>1 DEF CallStates
<1>5. Holds(d, Len(tokens))
  BY <1>1, <1>2, <1>3, <1>4 DEF Holds, Extension!NoToken, Extension!Idle
<1> QED
  BY <1>3, <1>4, <1>5

LEMMA RefreshStarts ==
  ASSUME NEW n \in Nat,
         NEW d, d = [Extension!Idle EXCEPT !.pc = "session", !.task = "refresh", !.retried = TRUE]
  PROVE  Holds(d, n) /\ d.pc = "session" /\ d.task = "refresh" /\ d.snap = <<>>
         /\ d.event = Extension!NoEvent
<1>1. Extension!Idle \in CallStates /\ Extension!NoEvent \in Extension!Events
      /\ Extension!NoEvent.id = 0 /\ Extension!NoEvent.kind = "usage"
  BY IdleHolds, ExtensionAssumption
     DEF Holds, Extension!NoEvent, Extension!Event, Extension!Events, Extension!Kinds
<1>2. d \in CallStates
  <2>1. [Extension!Idle EXCEPT !.pc = "session", !.task = "refresh",
          !.retried = TRUE] \in CallStates
    BY <1>1 DEF CallStates, Extension!Pcs
  <2> QED
    BY <2>1
<1>3. d.pc = "session" /\ d.task = "refresh"
  BY <1>1 DEF CallStates
<1>4. d.token = Extension!Idle.token /\ d.sent = Extension!Idle.sent /\ d.snap = Extension!Idle.snap
      /\ d.unauthorized = Extension!Idle.unauthorized /\ d.event = Extension!Idle.event
  BY <1>1 DEF CallStates
<1>5. Extension!Idle.token = 0 /\ Extension!Idle.event = Extension!NoEvent
      /\ Extension!Idle.sent = 0 /\ Extension!Idle.snap = <<>>
  BY DEF Extension!Idle, Extension!NoToken
<1>6. Holds(d, n)
  BY EmptyFits, <1>1, <1>2, <1>3, <1>4, <1>5 DEF Holds, Extension!NoToken
<1> QED
  BY <1>3, <1>4, <1>5, <1>6

\* Of the moves of a call: the others stay.
LEMMA OthersStay ==
  ASSUME Shape, NEW p \in Procs, NEW c, Extension!Goto(p, c)
  PROVE  procs'[p] = c /\ \A q \in Procs \ {p} : procs'[q] = procs[q]
  BY DEF Shape, ClientTyped, Extension!Goto

LEMMA StayingGoesOn == ASSUME NEW c PROVE GoesOn(c, c)
  BY DEF GoesOn, TellsNone, LeavesBuffer

LEMMA AllGoOn ==
  ASSUME Shape, NEW p \in Procs, NEW c, Extension!Goto(p, c), GoesOn(procs[p], c)
  PROVE  \A q \in Procs : GoesOn(procs[q], procs'[q])
  BY OthersStay, StayingGoesOn

LEMMA StartSendStep ==
  ASSUME Shape, NEW p \in Procs, Extension!StartSend(p)
  PROVE  /\ Shape' /\ \A q \in Procs : LeavesBuffer(procs[q], procs'[q])
         /\ procs'[p].event.id = used.calls + 1 /\ procs'[p].pc = "session"
<1>0. Len(tokens) \in Nat /\ used \in UsedBounds /\ used.calls <= MaxCalls
  BY DEF Shape, ClientTyped
<1>1. PICK e : e = Extension!Event(used.calls + 1, "usage")
  OBVIOUS
<1>2. used' \in UsedBounds /\ used'.calls <= MaxCalls /\ used'.calls = used.calls + 1
  BY <1>0, UseTyped DEF Extension!StartSend
<1>3. e \in Extension!Events /\ e.id = used.calls + 1 /\ e.id # 0 /\ e.kind = "usage"
  <2>1. used.calls \in Nat /\ used.calls + 1 <= MaxCalls
    BY <1>0, <1>2 DEF UsedBounds
  <2> QED
    BY <1>1, <2>1, ExtensionAssumption DEF Extension!Event, Extension!Events, Extension!Kinds
<1>4. PICK d : d = [Extension!Idle EXCEPT !.pc = "session", !.task = "send", !.event = e]
  OBVIOUS
<1>5. Holds(d, Len(tokens)) /\ d.pc = "session" /\ d.task = "send" /\ d.event = e /\ d.snap = <<>>
  <2>1. Extension!Idle \in CallStates
    BY <1>0, IdleHolds DEF Holds
  <2>2. d \in CallStates
    <3>1. [Extension!Idle EXCEPT !.pc = "session", !.task = "send", !.event = e] \in CallStates
      BY <1>3, <2>1 DEF CallStates, Extension!Pcs
    <3> QED
      BY <1>4, <3>1
  <2>3. d.pc = "session" /\ d.task = "send" /\ d.event = e
    BY <1>4, <2>1 DEF CallStates
  <2>4. d.token = 0 /\ d.sent = 0 /\ d.snap = <<>>
    BY <1>4 DEF Extension!Idle, Extension!NoToken
  <2> QED
    BY EmptyFits, <1>0, <1>3, <2>2, <2>3, <2>4 DEF Holds, Extension!NoToken
<1>6. Extension!Goto(p, d)
  BY <1>1, <1>4 DEF Extension!StartSend
<1>7. UNCHANGED <<tokens, handlers, site, stored, cached, refreshing, buffer, appended, overlap,
                  upset>>
  BY DEF Extension!StartSend, Extension!SameServer, Extension!SameStore, Extension!SameHistory,
     Extension!server, Extension!history
<1>8. Shape'
  BY <1>2, <1>5, <1>6, <1>7, CallShape DEF Shape, ClientTyped
<1>9. procs'[p] = d /\ \A q \in Procs \ {p} : procs'[q] = procs[q]
  BY <1>6, OthersStay
<1>10. LeavesBuffer(procs[p], d)
  BY <1>5 DEF LeavesBuffer, At
<1> QED
  BY <1>3, <1>5, <1>8, <1>9, <1>10, StayingGoesOn DEF GoesOn

LEMMA StartConnectStep ==
  ASSUME Shape, NEW p \in Procs, Extension!StartConnect(p)
  PROVE  /\ Shape' /\ \A q \in Procs : LeavesBuffer(procs[q], procs'[q])
         /\ procs'[p].event.id \in {0, used.calls + 1} /\ procs'[p].pc = "bind"
         /\ procs'[p].event.kind # "reconnect_requested"
<1>0. Len(tokens) \in Nat /\ used \in UsedBounds /\ used.calls <= MaxCalls
  BY DEF Shape, ClientTyped
<1>1. PICK e : e \in {Extension!Event(used.calls + 1, "reconnected"), Extension!NoEvent} /\
         Extension!Goto(p,
           [Extension!Idle EXCEPT !.pc = "bind", !.task = "connect", !.connects = TRUE,
             !.event = e])
  BY DEF Extension!StartConnect
<1>2. used' \in UsedBounds /\ used'.calls <= MaxCalls /\ used'.calls = used.calls + 1
  BY <1>0, UseTyped DEF Extension!StartConnect
<1>3. /\ e \in Extension!Events /\ e.id \in {0, used.calls + 1} /\ e.kind # "reconnect_requested"
      /\ e.id = 0 => e = Extension!NoEvent
  <2>1. used.calls \in Nat /\ used.calls + 1 <= MaxCalls
    BY <1>0, <1>2 DEF UsedBounds
  <2> QED
    BY <1>1, <2>1, ExtensionAssumption
       DEF Extension!NoEvent, Extension!Event, Extension!Events, Extension!Kinds
<1>4. PICK d : d = [Extension!Idle EXCEPT !.pc = "bind", !.task = "connect", !.connects = TRUE,
        !.event = e]
  OBVIOUS
<1>5. Holds(d, Len(tokens)) /\ d.pc = "bind" /\ d.task = "connect" /\ d.event = e /\ d.snap = <<>>
  <2>1. Extension!Idle \in CallStates
    BY <1>0, IdleHolds DEF Holds
  <2>2. d \in CallStates
    <3>1. [Extension!Idle EXCEPT !.pc = "bind", !.task = "connect", !.connects = TRUE,
            !.event = e] \in CallStates
      BY <1>3, <2>1 DEF CallStates, Extension!Pcs
    <3> QED
      BY <1>4, <3>1
  <2>3. d.pc = "bind" /\ d.task = "connect" /\ d.event = e
    BY <1>4, <2>1 DEF CallStates
  <2>4. d.token = 0 /\ d.sent = 0 /\ d.snap = <<>>
    BY <1>4 DEF Extension!Idle, Extension!NoToken
  <2> QED
    BY EmptyFits, <1>0, <1>3, <2>2, <2>3, <2>4 DEF Holds, Extension!NoToken
<1>6. Extension!Goto(p, d)
  BY <1>1, <1>4
<1>7. UNCHANGED <<tokens, handlers, site, stored, cached, refreshing, buffer, appended, overlap,
                  upset>>
  BY DEF Extension!StartConnect, Extension!SameServer, Extension!SameStore, Extension!SameHistory,
     Extension!server, Extension!history
<1>8. Shape'
  BY <1>2, <1>5, <1>6, <1>7, CallShape DEF Shape, ClientTyped
<1>9. procs'[p] = d /\ \A q \in Procs \ {p} : procs'[q] = procs[q]
  BY <1>6, OthersStay
<1>10. LeavesBuffer(procs[p], d)
  BY <1>5 DEF LeavesBuffer, At
<1> QED
  BY <1>3, <1>5, <1>8, <1>9, <1>10, StayingGoesOn DEF GoesOn

\* A call that goes on, and touches nothing of the API and of the store.
LEMMA CallGoesOn ==
  ASSUME Shape, NEW p \in Procs, NEW c, Extension!Goto(p, c), Holds(c, Len(tokens)),
         GoesOn(procs[p], c),
         UNCHANGED <<tokens, handlers, site, stored, cached, buffer, refreshing, appended,
                     overlap>>,
         used' \in UsedBounds, used'.calls <= MaxCalls, upset' \in BOOLEAN
  PROVE  Shape' /\ \A q \in Procs : GoesOn(procs[q], procs'[q])
<1>1. Shape'
  BY CallShape DEF Shape, ClientTyped
<1> QED
  BY <1>1, AllGoOn

LEMMA StartFlushStep ==
  ASSUME Shape, NEW p \in Procs, Extension!StartFlush(p)
  PROVE  Shape' /\ \A q \in Procs : GoesOn(procs[q], procs'[q])
<1>0. /\ Len(tokens) \in Nat /\ used \in UsedBounds /\ used.calls <= MaxCalls
      /\ upset \in BOOLEAN /\ Holds(procs[p], Len(tokens))
  BY DEF Shape, ClientTyped
<1>1. upset' \in BOOLEAN
  BY <1>0 DEF Extension!StartFlush, Extension!SameHistory, Extension!history
<1>2. used' \in UsedBounds /\ used'.calls <= MaxCalls
  BY <1>0, UseTyped DEF Extension!StartFlush
<1>3. PICK c : c = [Extension!Idle EXCEPT !.pc = "flush", !.task = "flush"]
  OBVIOUS
<1>4. Extension!Goto(p, c)
  BY <1>3 DEF Extension!StartFlush
<1>5. Holds(c, Len(tokens)) /\ GoesOn(procs[p], c)
  BY <1>0, <1>3, ToFlushHolds DEF GoesOn, TellsNone, LeavesBuffer, At
<1>6. UNCHANGED <<tokens, handlers, site, stored, cached, buffer, refreshing, appended, overlap>>
  BY DEF Extension!StartFlush, Extension!SameServer, Extension!SameStore, Extension!SameHistory,
     Extension!server, Extension!history
<1> QED
  BY <1>0, <1>1, <1>2, <1>3, <1>4, <1>5, <1>6, CallGoesOn

LEMMA StartRefreshStep ==
  ASSUME Shape, NEW p \in Procs, Extension!StartRefresh(p)
  PROVE  Shape' /\ \A q \in Procs : GoesOn(procs[q], procs'[q])
<1>0. /\ Len(tokens) \in Nat /\ used \in UsedBounds /\ used.calls <= MaxCalls
      /\ upset \in BOOLEAN /\ Holds(procs[p], Len(tokens))
  BY DEF Shape, ClientTyped
<1>1. upset' \in BOOLEAN
  BY <1>0 DEF Extension!StartRefresh, Extension!SameHistory, Extension!history
<1>2. used' \in UsedBounds /\ used'.calls <= MaxCalls
  BY <1>0, UseTyped DEF Extension!StartRefresh
<1>3. PICK c : c = [Extension!Idle EXCEPT !.pc = "session", !.task = "refresh", !.retried = TRUE]
  OBVIOUS
<1>4. Extension!Goto(p, c)
  BY <1>3 DEF Extension!StartRefresh
<1>5. Holds(c, Len(tokens)) /\ GoesOn(procs[p], c)
  <2>1. /\ Holds(c, Len(tokens)) /\ c.pc = "session" /\ c.task = "refresh"
        /\ c.snap = <<>> /\ c.event = Extension!NoEvent
    BY <1>0, <1>3, RefreshStarts
  <2>2. Extension!NoEvent.id = 0
    BY DEF Extension!NoEvent, Extension!Event
  <2> QED
    BY <2>1, <2>2 DEF GoesOn, TellsNone, LeavesBuffer, At
<1>6. UNCHANGED <<tokens, handlers, site, stored, cached, buffer, refreshing, appended, overlap>>
  BY DEF Extension!StartRefresh, Extension!SameServer, Extension!SameStore, Extension!SameHistory,
     Extension!server, Extension!history
<1> QED
  BY <1>0, <1>1, <1>2, <1>3, <1>4, <1>5, <1>6, CallGoesOn

LEMMA SendAcceptedStep ==
  ASSUME Shape, NEW p \in Procs, Extension!SendAccepted(p)
  PROVE  Shape' /\ \A q \in Procs : GoesOn(procs[q], procs'[q])
<1>0. /\ Len(tokens) \in Nat /\ used \in UsedBounds /\ used.calls <= MaxCalls
      /\ upset \in BOOLEAN /\ Holds(procs[p], Len(tokens))
  BY DEF Shape, ClientTyped
<1>1. used' = used /\ upset' = upset
  BY DEF Extension!SendAccepted, Extension!SameHistory, Extension!history
<1>2. used' \in UsedBounds /\ used'.calls <= MaxCalls /\ upset' \in BOOLEAN
  BY <1>0, <1>1
<1>3. PICK c : c = Extension!Over(p)
  OBVIOUS
<1>4. Extension!Goto(p, c)
  BY <1>3 DEF Extension!SendAccepted
<1>5. Holds(c, Len(tokens)) /\ GoesOn(procs[p], c)
  BY <1>0, <1>3, OverHolds
<1>6. UNCHANGED <<tokens, handlers, site, stored, cached, buffer, refreshing, appended, overlap>>
  BY DEF Extension!SendAccepted, Extension!SameServer, Extension!SameStore, Extension!SameHistory,
     Extension!server, Extension!history
<1> QED
  BY <1>0, <1>1, <1>2, <1>3, <1>4, <1>5, <1>6, CallGoesOn

LEMMA SendRefusedStep ==
  ASSUME Shape, NEW p \in Procs, Extension!SendRefused(p)
  PROVE  Shape' /\ \A q \in Procs : GoesOn(procs[q], procs'[q])
<1>0. /\ Len(tokens) \in Nat /\ used \in UsedBounds /\ used.calls <= MaxCalls
      /\ upset \in BOOLEAN /\ Holds(procs[p], Len(tokens))
  BY DEF Shape, ClientTyped
<1>1. upset' \in BOOLEAN
  BY <1>0 DEF Extension!SendRefused, Extension!SameHistory, Extension!history
<1>2. used' \in UsedBounds /\ used'.calls <= MaxCalls
  BY <1>0, UseTyped DEF Extension!SendRefused
<1>3. PICK c : c = Extension!Over(p)
  OBVIOUS
<1>4. Extension!Goto(p, c)
  BY <1>3 DEF Extension!SendRefused
<1>5. Holds(c, Len(tokens)) /\ GoesOn(procs[p], c)
  BY <1>0, <1>3, OverHolds
<1>6. UNCHANGED <<tokens, handlers, site, stored, cached, buffer, refreshing, appended, overlap>>
  BY DEF Extension!SendRefused, Extension!SameServer, Extension!SameStore, Extension!SameHistory,
     Extension!server, Extension!history
<1> QED
  BY <1>0, <1>1, <1>2, <1>3, <1>4, <1>5, <1>6, CallGoesOn

LEMMA SendFailsStep ==
  ASSUME Shape, NEW p \in Procs, Extension!SendFails(p)
  PROVE  Shape' /\ \A q \in Procs : GoesOn(procs[q], procs'[q])
<1>0. /\ Len(tokens) \in Nat /\ used \in UsedBounds /\ used.calls <= MaxCalls
      /\ upset \in BOOLEAN /\ Holds(procs[p], Len(tokens))
  BY DEF Shape, ClientTyped
<1>1. upset' \in BOOLEAN
  BY <1>0 DEF Extension!SendFails, Extension!SameHistory, Extension!history
<1>2. used' \in UsedBounds /\ used'.calls <= MaxCalls
  BY <1>0, UseTyped DEF Extension!SendFails
<1>3. PICK c : c = Extension!Without(p, FALSE)
  OBVIOUS
<1>4. Extension!Goto(p, c)
  BY <1>3 DEF Extension!SendFails
<1>5. Holds(c, Len(tokens)) /\ GoesOn(procs[p], c)
  BY <1>0, <1>3, WithoutHolds DEF Extension!SendFails
<1>6. UNCHANGED <<tokens, handlers, site, stored, cached, buffer, refreshing, appended, overlap>>
  BY DEF Extension!SendFails, Extension!SameServer, Extension!SameStore, Extension!SameHistory,
     Extension!server, Extension!history
<1> QED
  BY <1>0, <1>1, <1>2, <1>3, <1>4, <1>5, <1>6, CallGoesOn

LEMMA SendUnauthorizedStep ==
  ASSUME Shape, NEW p \in Procs, Extension!SendUnauthorized(p)
  PROVE  Shape' /\ \A q \in Procs : GoesOn(procs[q], procs'[q])
<1>0. /\ Len(tokens) \in Nat /\ used \in UsedBounds /\ used.calls <= MaxCalls
      /\ upset \in BOOLEAN /\ Holds(procs[p], Len(tokens))
  BY DEF Shape, ClientTyped
<1>1. used' = used /\ upset' = upset
  BY DEF Extension!SendUnauthorized, Extension!SameHistory, Extension!history
<1>2. used' \in UsedBounds /\ used'.calls <= MaxCalls /\ upset' \in BOOLEAN
  BY <1>0, <1>1
<1>3. procs[p].pc = "request"
  BY DEF Extension!SendUnauthorized
<1>4. PICK c : c = IF procs[p].retried THEN Extension!Without(p, TRUE)
                   ELSE [procs[p] EXCEPT !.pc = "session", !.token = Extension!NoToken,
                     !.retried = TRUE]
  OBVIOUS
<1>5. Holds(c, Len(tokens)) /\ GoesOn(procs[p], c)
  <2>1. CASE procs[p].retried
    BY <1>0, <1>3, <1>4, <2>1, WithoutHolds
  <2>2. CASE ~procs[p].retried
    <3>1. c = [procs[p] EXCEPT !.pc = "session", !.token = Extension!NoToken, !.retried = TRUE]
      BY <1>4, <2>2
    <3> QED
      BY <1>0, <1>3, <3>1, Retries
  <2> QED
    BY <2>1, <2>2
<1>6. Extension!Goto(p, c)
  BY <1>4 DEF Extension!SendUnauthorized
<1>7. UNCHANGED <<tokens, handlers, site, stored, cached, buffer, refreshing, appended, overlap>>
  BY DEF Extension!SendUnauthorized, Extension!SameServer, Extension!SameStore,
     Extension!SameHistory, Extension!server, Extension!history
<1> QED
  BY <1>0, <1>1, <1>2, <1>3, <1>4, <1>5, <1>6, <1>7, CallGoesOn

LEMMA FlushStopsStep ==
  ASSUME Shape, NEW p \in Procs, Extension!FlushStops(p)
  PROVE  Shape' /\ \A q \in Procs : GoesOn(procs[q], procs'[q])
<1>0. /\ Len(tokens) \in Nat /\ used \in UsedBounds /\ used.calls <= MaxCalls
      /\ upset \in BOOLEAN /\ Holds(procs[p], Len(tokens))
  BY DEF Shape, ClientTyped
<1>1. upset' = upset
  BY DEF Extension!FlushStops
<1>2. used' \in UsedBounds /\ used'.calls <= MaxCalls /\ upset' \in BOOLEAN
  BY <1>0, <1>1, UseTyped DEF Extension!FlushStops
<1>3. PICK c : c = [procs[p] EXCEPT !.pc = "rest"]
  OBVIOUS
<1>4. Extension!Goto(p, c)
  BY <1>3 DEF Extension!FlushStops
<1>5. Holds(c, Len(tokens)) /\ GoesOn(procs[p], c)
  <2>1. procs[p].pc = "deliver" /\ procs[p].task = "flush"
    BY <1>0 DEF Extension!FlushStops, Holds
  <2>2. /\ Holds(c, Len(tokens)) /\ c.pc = "rest" /\ c.task = procs[p].task
        /\ c.event = procs[p].event /\ c.snap = procs[p].snap /\ c.sent = procs[p].sent
    BY <1>3, <2>1, RestsNext
  <2> QED
    BY <2>1, <2>2 DEF GoesOn, TellsNone, LeavesBuffer, At
<1>6. UNCHANGED <<tokens, handlers, site, stored, cached, buffer, refreshing, appended, overlap>>
  BY DEF Extension!FlushStops, Extension!SameServer, Extension!SameStore, Extension!SameHistory,
     Extension!server, Extension!history
<1> QED
  BY <1>0, <1>1, <1>2, <1>3, <1>4, <1>5, <1>6, CallGoesOn

LEMMA BindFailsStep ==
  ASSUME Shape, NEW p \in Procs, Extension!BindFails(p)
  PROVE  Shape' /\ \A q \in Procs : GoesOn(procs[q], procs'[q])
<1>0. /\ Len(tokens) \in Nat /\ used \in UsedBounds /\ used.calls <= MaxCalls
      /\ upset \in BOOLEAN /\ Holds(procs[p], Len(tokens))
  BY DEF Shape, ClientTyped
<1>1. upset' \in BOOLEAN
  BY <1>0 DEF Extension!BindFails, Extension!SameHistory, Extension!history
<1>2. used' \in UsedBounds /\ used'.calls <= MaxCalls
  BY <1>0, UseTyped DEF Extension!BindFails
<1>3. PICK c : c = Extension!Idle
  OBVIOUS
<1>4. Extension!Goto(p, c)
  BY <1>3 DEF Extension!BindFails
<1>5. Holds(c, Len(tokens)) /\ GoesOn(procs[p], c)
  BY <1>0, <1>3, IdleHolds, IdleGoesOn
<1>6. UNCHANGED <<tokens, handlers, site, stored, cached, buffer, refreshing, appended, overlap>>
  BY DEF Extension!BindFails, Extension!SameServer, Extension!SameStore, Extension!SameHistory,
     Extension!server, Extension!history
<1> QED
  BY <1>0, <1>1, <1>2, <1>3, <1>4, <1>5, <1>6, CallGoesOn

\* What a call does to the buffer.
LEMMA SnapTyped ==
  ASSUME Shape, NEW p \in Procs
  PROVE  /\ procs[p].snap \in Seq(Extension!Events) /\ procs[p].event \in Extension!Events
            /\ procs[p].sent \in Nat
         /\ Append(procs[p].snap, procs[p].event) \in Seq(Extension!Events)
<1>1. procs[p].snap \in Seq(Extension!Events) /\ procs[p].event \in Extension!Events
      /\ procs[p].sent \in Nat
  BY DEF Shape, ClientTyped, CallStates
<1> QED
  BY <1>1

LEMMA TrimmedTyped ==
  ASSUME NEW s \in Seq(Extension!Events)
  PROVE  Extension!Trimmed(s) \in Seq(Extension!Events) /\ Len(Extension!Trimmed(s)) <= MaxItems
<1>1. Len(s) \in Nat
  OBVIOUS
<1>2. CASE Len(s) > MaxItems
  <2>1. Extension!Trimmed(s) = SubSeq(s, Len(s) - MaxItems + 1, Len(s))
    BY <1>2 DEF Extension!Trimmed
  <2>2. Len(s) - MaxItems + 1 \in 1..Len(s) /\ Len(s) <= Len(s)
    BY <1>1, <1>2, ExtensionAssumption
  <2>3. /\ SubSeq(s, Len(s) - MaxItems + 1, Len(s)) \in Seq(Extension!Events)
        /\ Len(SubSeq(s, Len(s) - MaxItems + 1, Len(s))) = MaxItems
    BY <1>1, <2>2, ExtensionAssumption
  <2> QED
    BY <2>1, <2>3, ExtensionAssumption
<1>3. CASE Len(s) <= MaxItems
  BY <1>1, <1>3, ExtensionAssumption DEF Extension!Trimmed
<1> QED
  BY <1>1, <1>2, <1>3, ExtensionAssumption

LEMMA AppendReadsStep ==
  ASSUME Shape, NEW p \in Procs, Extension!AppendReads(p)
  PROVE  /\ Shape' /\ \A q \in Procs : TellsNone(procs[q], procs'[q])
         /\ \A q \in Procs \ {p} : procs'[q] = procs[q]
         /\ procs'[p].pc = "store" /\ procs'[p].task = "send" /\ procs'[p].snap = buffer
<1>0. /\ Len(tokens) \in Nat /\ used \in UsedBounds /\ used.calls <= MaxCalls
      /\ upset \in BOOLEAN /\ overlap \in BOOLEAN /\ Holds(procs[p], Len(tokens))
      /\ buffer \in Seq(Extension!Events) /\ Len(buffer) <= MaxItems
         /\ appended \in Seq(Extension!Events)
      /\ procs[p] \in CallStates
  BY DEF Shape, ClientTyped
<1>1. PICK c : c = [procs[p] EXCEPT !.pc = "store", !.snap = buffer]
  OBVIOUS
<1>2. procs[p].pc = "append" /\ Extension!Goto(p, c)
  BY <1>1 DEF Extension!AppendReads
<1>3. /\ Holds(c, Len(tokens)) /\ c.pc = "store" /\ c.snap = buffer
      /\ c.task = procs[p].task /\ c.event = procs[p].event
  BY <1>1, <1>2, StoresNext
<1>4. UNCHANGED <<tokens, handlers, site, stored, cached, buffer, refreshing, appended, used,
                  upset>>
  BY DEF Extension!AppendReads, Extension!SameServer, Extension!SameStore, Extension!server
<1>5. overlap' \in BOOLEAN
  BY <1>0 DEF Extension!AppendReads, Extension!Meets
<1>6. Shape'
  BY <1>0, <1>2, <1>3, <1>4, <1>5, CallShape
<1>7. procs'[p] = c /\ \A q \in Procs \ {p} : procs'[q] = procs[q]
  BY <1>2, OthersStay
<1>8. procs[p].task = "send"
  BY <1>0, <1>2 DEF Holds
<1> QED
  BY <1>2, <1>3, <1>6, <1>7, <1>8 DEF TellsNone

LEMMA AppendWritesStep ==
  ASSUME Shape, NEW p \in Procs, Extension!AppendWrites(p)
  PROVE  /\ Shape' /\ \A q \in Procs : LeavesBuffer(procs[q], procs'[q])
         /\ \A q \in Procs \ {p} : procs'[q] = procs[q]
         /\ ~At(procs'[p])
         /\ \/ procs'[p].event.id = 0
            \/ procs[p].unauthorized /\ procs'[p].pc = "check" /\ procs'[p].event = procs[p].event
<1>0. /\ Len(tokens) \in Nat /\ used \in UsedBounds /\ used.calls <= MaxCalls
      /\ upset \in BOOLEAN /\ overlap \in BOOLEAN /\ Holds(procs[p], Len(tokens))
      /\ buffer \in Seq(Extension!Events) /\ Len(buffer) <= MaxItems
         /\ appended \in Seq(Extension!Events)
      /\ procs[p] \in CallStates
  BY DEF Shape, ClientTyped
<1>1. PICK c : c = IF procs[p].unauthorized
                   THEN [procs[p] EXCEPT !.pc = "check", !.snap = <<>>] ELSE Extension!Over(p)
  OBVIOUS
<1>2. procs[p].pc = "store" /\ Extension!Goto(p, c)
  BY <1>1 DEF Extension!AppendWrites
<1>3. /\ Holds(c, Len(tokens)) /\ ~At(c) /\ c.snap = <<>>
      /\ c.event.id = 0 \/ (procs[p].unauthorized /\ c.pc = "check" /\ c.event = procs[p].event)
  <2>1. CASE procs[p].unauthorized
    <3>1. c = [procs[p] EXCEPT !.pc = "check", !.snap = <<>>]
      BY <1>1, <2>1
    <3>2. /\ Holds(c, Len(tokens)) /\ c.pc = "check" /\ c.snap = <<>>
          /\ c.task = procs[p].task /\ c.event = procs[p].event
      BY <1>2, <2>1, <3>1, ChecksNext
    <3>3. procs[p].task = "send"
      BY <1>0, <1>2 DEF Holds
    <3> QED
      BY <2>1, <3>2, <3>3 DEF At
  <2>2. CASE ~procs[p].unauthorized
    <3>1. c = Extension!Over(p)
      BY <1>1, <2>2
    <3> QED
      BY <1>0, <3>1, OverHolds, OverState
  <2> QED
    BY <2>1, <2>2
<1>4. UNCHANGED <<tokens, handlers, site, stored, cached, refreshing, used, overlap, upset>>
  BY DEF Extension!AppendWrites, Extension!SameServer, Extension!server
<1>5. PICK next : next = Append(procs[p].snap, procs[p].event)
  OBVIOUS
<1>6. buffer' \in Seq(Extension!Events) /\ Len(buffer') <= MaxItems
      /\ appended' \in Seq(Extension!Events)
  <2>1. next \in Seq(Extension!Events) /\ procs[p].event \in Extension!Events
    BY <1>5, SnapTyped
  <2>2. buffer' = Extension!Trimmed(next) /\ appended' = Append(appended, procs[p].event)
    BY <1>5 DEF Extension!AppendWrites
  <2> QED
    BY <1>0, <2>1, <2>2, TrimmedTyped
<1>7. procs'[p] = c /\ \A q \in Procs \ {p} : procs'[q] = procs[q]
  BY <1>2, OthersStay
<1>8. Shape'
  BY <1>0, <1>2, <1>3, <1>4, <1>6, CallShape
<1>9. LeavesBuffer(procs[p], c)
  BY <1>3 DEF LeavesBuffer
<1> QED
  BY <1>3, <1>7, <1>8, <1>9, StayingGoesOn DEF GoesOn

LEMMA CheckReconnectStep ==
  ASSUME Shape, NEW p \in Procs, Extension!CheckReconnect(p)
  PROVE  /\ Shape' /\ \A q \in Procs : LeavesBuffer(procs[q], procs'[q])
         /\ \A q \in Procs \ {p} : procs'[q] = procs[q]
         /\ procs'[p].pc # "check"
         /\ \/ procs'[p].event.id = 0
            \/ procs'[p].event = Extension!Event(procs[p].event.id, "reconnect_requested")
<1>0. /\ Len(tokens) \in Nat /\ used \in UsedBounds /\ used.calls <= MaxCalls
      /\ upset \in BOOLEAN /\ overlap \in BOOLEAN /\ Holds(procs[p], Len(tokens))
      /\ buffer \in Seq(Extension!Events) /\ Len(buffer) <= MaxItems
         /\ appended \in Seq(Extension!Events)
      /\ procs[p] \in CallStates
  BY DEF Shape, ClientTyped
<1>1. PICK c : c = IF \E e \in Extension!EventsIn(buffer) : e.kind = "reconnect_requested"
        THEN Extension!Over(p)
                   ELSE [procs[p] EXCEPT !.pc = "append", !.unauthorized = FALSE,
                                         !.event.kind = "reconnect_requested"]
  OBVIOUS
<1>2. procs[p].pc = "check" /\ Extension!Goto(p, c)
  BY <1>1 DEF Extension!CheckReconnect
<1>3. /\ Holds(c, Len(tokens)) /\ LeavesBuffer(procs[p], c) /\ c.pc # "check"
      /\ c.event.id = 0 \/ c.event = Extension!Event(procs[p].event.id, "reconnect_requested")
  <2>1. CASE c = Extension!Over(p)
    <3>1. Extension!Over(p).pc # "check"
      BY <1>0, OverHolds
    <3> QED
      BY <1>0, <2>1, <3>1, OverHolds, OverState DEF GoesOn
  <2>2. CASE c = [procs[p] EXCEPT !.pc = "append", !.unauthorized = FALSE,
                                  !.event.kind = "reconnect_requested"]
    <3>1. procs[p].event \in [id : 0..MaxCalls, kind : Extension!Kinds]
      BY SnapTyped DEF Extension!Events
    <3>2. PICK e : e = [procs[p].event EXCEPT !.kind = "reconnect_requested"]
      OBVIOUS
    <3>3. e = Extension!Event(procs[p].event.id, "reconnect_requested") /\ e \in Extension!Events
      BY <3>1, <3>2 DEF Extension!Event, Extension!Events, Extension!Kinds
    <3>4. c = [procs[p] EXCEPT !.pc = "append", !.unauthorized = FALSE, !.event = e]
      BY <2>2, <3>2
    <3>5. c \in CallStates
      <4>1. [procs[p] EXCEPT !.pc = "append", !.unauthorized = FALSE, !.event = e] \in CallStates
        BY <1>0, <3>3 DEF CallStates, Extension!Pcs
      <4> QED
        BY <3>4, <4>1
    <3>6. c.pc = "append" /\ c.unauthorized = FALSE /\ c.event = e
      BY <1>0, <3>4 DEF CallStates
    <3>7. c.task = procs[p].task /\ c.token = procs[p].token /\ c.snap = procs[p].snap
          /\ c.sent = procs[p].sent
      BY <1>0, <3>4 DEF CallStates
    <3>8. e.id = procs[p].event.id /\ e.kind = "reconnect_requested"
      BY <3>3 DEF Extension!Event
    <3>9. procs[p].task = "send"
      BY <1>0, <1>2 DEF Holds
    <3>10. Holds(c, Len(tokens))
      BY <1>0, <3>5, <3>6, <3>7, <3>8, <3>9 DEF Holds
    <3>11. LeavesBuffer(procs[p], c)
      BY <3>6, <3>7, <3>9 DEF LeavesBuffer, At
    <3> QED
      BY <3>3, <3>6, <3>10, <3>11
  <2> QED
    BY <1>1, <2>1, <2>2
<1>4. UNCHANGED <<tokens, handlers, site, stored, cached, refreshing, used, overlap, upset, buffer,
                  appended>>
  BY DEF Extension!CheckReconnect, Extension!SameServer, Extension!SameStore, Extension!server
<1>7. procs'[p] = c /\ \A q \in Procs \ {p} : procs'[q] = procs[q]
  BY <1>2, OthersStay
<1>8. Shape'
  BY <1>0, <1>2, <1>3, <1>4, CallShape
<1> QED
  BY <1>3, <1>7, <1>8, StayingGoesOn DEF GoesOn

LEMMA FlushReadsStep ==
  ASSUME Shape, NEW p \in Procs, Extension!FlushReads(p)
  PROVE  /\ Shape' /\ \A q \in Procs : TellsNone(procs[q], procs'[q])
         /\ \A q \in Procs \ {p} : procs'[q] = procs[q]
         /\ procs'[p] = Extension!Idle
            \/ (procs'[p].pc = "session" /\ procs'[p].snap = buffer /\ procs'[p].sent = 0)
<1>0. /\ Len(tokens) \in Nat /\ used \in UsedBounds /\ used.calls <= MaxCalls
      /\ upset \in BOOLEAN /\ overlap \in BOOLEAN /\ Holds(procs[p], Len(tokens))
      /\ buffer \in Seq(Extension!Events) /\ Len(buffer) <= MaxItems
         /\ appended \in Seq(Extension!Events)
      /\ procs[p] \in CallStates
  BY DEF Shape, ClientTyped
<1>1. PICK c : c = IF buffer = <<>> THEN Extension!Idle
                   ELSE [procs[p] EXCEPT !.pc = "session", !.snap = buffer, !.connects = FALSE]
  OBVIOUS
<1>2. procs[p].pc = "flush" /\ Extension!Goto(p, c)
  BY <1>1 DEF Extension!FlushReads
<1>3. /\ Holds(c, Len(tokens)) /\ TellsNone(procs[p], c)
      /\ c = Extension!Idle \/ (c.pc = "session" /\ c.snap = buffer /\ c.sent = 0)
  <2>1. CASE buffer = <<>>
    <3>1. c = Extension!Idle
      BY <1>1, <2>1
    <3> QED
      BY <1>0, <3>1, IdleHolds, IdleGoesOn DEF GoesOn
  <2>2. CASE buffer # <<>>
    <3>1. c = [procs[p] EXCEPT !.pc = "session", !.snap = buffer, !.connects = FALSE]
      BY <1>1, <2>2
    <3>2. /\ Holds(c, Len(tokens)) /\ c.pc = "session" /\ c.snap = buffer
          /\ c.task = procs[p].task /\ c.event = procs[p].event /\ c.sent = procs[p].sent
      BY <1>2, <2>2, <3>1, ReadsNext
    <3>3. procs[p].sent = 0
      BY <1>0, <1>2 DEF Holds
    <3> QED
      BY <1>2, <3>2, <3>3 DEF TellsNone
  <2> QED
    BY <2>1, <2>2
<1>4. UNCHANGED <<tokens, handlers, site, stored, cached, refreshing, used, upset, buffer,
                  appended>>
  BY DEF Extension!FlushReads, Extension!SameServer, Extension!SameStore, Extension!server
<1>5. overlap' \in BOOLEAN
  BY <1>0 DEF Extension!FlushReads, Extension!Meets
<1>7. procs'[p] = c /\ \A q \in Procs \ {p} : procs'[q] = procs[q]
  BY <1>2, OthersStay
<1>8. Shape'
  BY <1>0, <1>2, <1>3, <1>4, <1>5, CallShape
<1> QED
  BY <1>3, <1>7, <1>8, StayingGoesOn DEF GoesOn

LEMMA FlushAcceptedStep ==
  ASSUME Shape, NEW p \in Procs, Extension!FlushAccepted(p)
  PROVE  /\ Shape' /\ \A q \in Procs : TellsNone(procs[q], procs'[q])
         /\ \A q \in Procs \ {p} : procs'[q] = procs[q]
         /\ procs'[p].task = "flush" /\ procs'[p].snap = procs[p].snap
         /\ procs'[p].sent = procs[p].sent + 1 /\ procs[p].sent < Len(procs[p].snap)
<1>0. /\ Len(tokens) \in Nat /\ used \in UsedBounds /\ used.calls <= MaxCalls
      /\ upset \in BOOLEAN /\ overlap \in BOOLEAN /\ Holds(procs[p], Len(tokens))
      /\ buffer \in Seq(Extension!Events) /\ Len(buffer) <= MaxItems
         /\ appended \in Seq(Extension!Events)
      /\ procs[p] \in CallStates
  BY DEF Shape, ClientTyped
<1>1. PICK x : x = IF procs[p].sent + 1 = Len(procs[p].snap) THEN "rest" ELSE "deliver"
  OBVIOUS
<1>2. PICK c : c = [procs[p] EXCEPT !.sent = @ + 1, !.pc = x]
  OBVIOUS
<1>3. procs[p].pc = "deliver" /\ Extension!Goto(p, c)
  BY <1>1, <1>2 DEF Extension!FlushAccepted
<1>4. /\ Holds(c, Len(tokens)) /\ c.sent = procs[p].sent + 1 /\ c.pc = x
      /\ c.task = procs[p].task /\ c.event = procs[p].event /\ c.snap = procs[p].snap
  <2>1. procs[p].sent \in Nat /\ procs[p].snap \in Seq(Extension!Events)
        /\ Len(procs[p].snap) \in Nat
    BY SnapTyped
  <2>2. x \in Extension!Pcs /\ x \in {"rest", "deliver"} /\ procs[p].sent + 1 \in Nat
    BY <1>1, <2>1 DEF Extension!Pcs
  <2>3. [procs[p] EXCEPT !.sent = @ + 1, !.pc = x] \in CallStates
    BY <1>0, <2>2 DEF CallStates
  <2>4. c \in CallStates
    BY <1>2, <2>3
  <2>5. c.sent = procs[p].sent + 1 /\ c.pc = x
    BY <1>0, <1>2 DEF CallStates
  <2>6. /\ c.task = procs[p].task /\ c.event = procs[p].event /\ c.token = procs[p].token
        /\ c.snap = procs[p].snap /\ c.unauthorized = procs[p].unauthorized
    BY <1>0, <1>2 DEF CallStates
  <2>7. procs[p].sent < Len(procs[p].snap) /\ procs[p].task = "flush"
    BY <1>0, <1>3 DEF Holds
  <2>8. x = "deliver" => procs[p].sent + 1 < Len(procs[p].snap)
    BY <1>1, <2>1, <2>7
  <2>9. Holds(c, Len(tokens))
    BY <1>0, <1>3, <2>1, <2>2, <2>4, <2>5, <2>6, <2>7, <2>8 DEF Holds
  <2> QED
    BY <2>5, <2>6, <2>9
<1>5. procs[p].task = "flush" /\ procs[p].sent < Len(procs[p].snap)
  BY <1>0, <1>3 DEF Holds
<1>6. UNCHANGED <<tokens, handlers, site, stored, cached, refreshing, used, overlap, upset, buffer,
                  appended>>
  BY DEF Extension!FlushAccepted, Extension!SameServer, Extension!SameStore, Extension!server
<1>7. procs'[p] = c /\ \A q \in Procs \ {p} : procs'[q] = procs[q]
  BY <1>3, OthersStay
<1>8. Shape'
  BY <1>0, <1>3, <1>4, <1>6, CallShape
<1>9. TellsNone(procs[p], c)
  BY <1>1, <1>3, <1>4 DEF TellsNone
<1> QED
  BY <1>4, <1>5, <1>7, <1>8, <1>9, StayingGoesOn DEF GoesOn

LEMMA FlushWritesStep ==
  ASSUME Shape, NEW p \in Procs, Extension!FlushWrites(p)
  PROVE  /\ Shape' /\ \A q \in Procs : GoesOn(procs[q], procs'[q])
         /\ \A q \in Procs \ {p} : procs'[q] = procs[q]
         /\ procs'[p] = Extension!Idle /\ procs[p].sent <= Len(procs[p].snap)
<1>0. /\ Len(tokens) \in Nat /\ used \in UsedBounds /\ used.calls <= MaxCalls
      /\ upset \in BOOLEAN /\ overlap \in BOOLEAN /\ Holds(procs[p], Len(tokens))
      /\ buffer \in Seq(Extension!Events) /\ Len(buffer) <= MaxItems
         /\ appended \in Seq(Extension!Events)
      /\ procs[p] \in CallStates
  BY DEF Shape, ClientTyped
<1>2. procs[p].pc = "rest" /\ Extension!Goto(p, Extension!Idle)
  BY DEF Extension!FlushWrites
<1>3. procs[p].sent <= Len(procs[p].snap)
  BY <1>0, <1>2 DEF Holds
<1>4. UNCHANGED <<tokens, handlers, site, stored, cached, refreshing, used, overlap, upset,
                  appended>>
  BY DEF Extension!FlushWrites, Extension!SameServer, Extension!SameHistory, Extension!server,
     Extension!history
<1>5. buffer' = SubSeq(procs[p].snap, procs[p].sent + 1, Len(procs[p].snap))
  BY DEF Extension!FlushWrites
<1>6. buffer' \in Seq(Extension!Events) /\ Len(buffer') <= MaxItems
  <2>1. /\ procs[p].snap \in Seq(Extension!Events) /\ procs[p].sent \in Nat
           /\ Len(procs[p].snap) \in Nat
        /\ Len(procs[p].snap) <= MaxItems
    BY <1>0, SnapTyped DEF Holds
  <2> DEFINE s == procs[p].snap
             m == procs[p].sent
  <2>2. /\ s \in Seq(Extension!Events) /\ m \in Nat /\ Len(s) \in Nat
        /\ m <= Len(s) /\ Len(s) <= MaxItems /\ MaxItems \in Nat
        /\ buffer' = SubSeq(s, m + 1, Len(s))
    BY <1>3, <1>5, <2>1, ExtensionAssumption
  <2> HIDE DEF s, m
  <2>3. buffer' \in Seq(Extension!Events)
    BY <2>2
  <2>4. Len(buffer') = Len(s) - m
    BY <2>2
  <2> QED
    BY <2>2, <2>3, <2>4
<1>7. procs'[p] = Extension!Idle /\ \A q \in Procs \ {p} : procs'[q] = procs[q]
  BY <1>2, OthersStay
<1>8. Shape'
  BY <1>0, <1>2, <1>4, <1>5, <1>6, IdleHolds, CallShape
<1> QED
  BY <1>2, <1>3, <1>7, <1>8, IdleGoesOn, AllGoOn

-----------------------------------------------------------------------------
\* Steps of the API, and of the client with it.
LEMMA ServerShape ==
  ASSUME Shape, tokens' \in Seq(SessionRecords), handlers' \in Seq(HandlerRecords),
         \A r \in DOMAIN handlers' : HandlerFits(handlers'[r], Len(tokens')),
         site' \in {"idle", "revoked"}, stored' \in Nat, stored' <= Len(tokens'),
           cached' \in BOOLEAN,
         refreshing' \in Nat, refreshing' <= Len(handlers'),
           UNCHANGED <<buffer, appended, overlap>>,
         used' \in UsedBounds, used'.calls <= MaxCalls, upset' \in BOOLEAN,
         procs' \in [Procs -> CallStates], \A q \in Procs : Holds(procs'[q], Len(tokens'))
  PROVE  Shape'
  BY DEF Shape, ClientTyped

\* More sessions take nothing from what calls and handlers hold.
LEMMA MoreSessions ==
  ASSUME Shape, NEW n \in Nat, Len(tokens) <= n
  PROVE  /\ \A q \in Procs : Holds(procs[q], n)
         /\ \A r \in DOMAIN handlers : HandlerFits(handlers[r], n) /\ handlers[r] \in HandlerRecords
<1>1. Len(tokens) \in Nat
  BY DEF Shape, ClientTyped
<1>2. ASSUME NEW q \in Procs PROVE Holds(procs[q], n)
  BY <1>1, HoldsMore DEF Shape
<1>3. ASSUME NEW r \in DOMAIN handlers
      PROVE  HandlerFits(handlers[r], n) /\ handlers[r] \in HandlerRecords
  <2>1. handlers[r] \in HandlerRecords
    BY DEF Shape, ClientTyped
  <2> QED
    BY <1>1, <2>1, HandlerFitsMore DEF Shape
<1> QED
  BY <1>2, <1>3

LEMMA RevokedAll ==
  ASSUME Shape
  PROVE  /\ Extension!RevokeAll \in Seq(SessionRecords) /\ Len(Extension!RevokeAll) = Len(tokens)
         /\ \A t \in DOMAIN tokens : Extension!RevokeAll[t].age = tokens[t].age
<1>1. tokens \in Seq(SessionRecords) /\ Len(tokens) \in Nat /\ DOMAIN tokens = 1..Len(tokens)
  BY DEF Shape, ClientTyped
<1>2. \A t \in 1..Len(tokens) : tokens[t] \in SessionRecords
  BY <1>1
<1>3. \A t \in 1..Len(tokens) : /\ [tokens[t] EXCEPT !.revoked = TRUE] \in SessionRecords
                                  /\ [tokens[t] EXCEPT !.revoked = TRUE].age = tokens[t].age
  BY <1>2 DEF SessionRecords
<1>4. Extension!RevokeAll \in [1..Len(tokens) -> SessionRecords]
  BY <1>1, <1>3 DEF Extension!RevokeAll
<1>5. Extension!RevokeAll \in Seq(SessionRecords) /\ Len(Extension!RevokeAll) = Len(tokens)
  BY <1>1, <1>4
<1>6. \A t \in 1..Len(tokens) : Extension!RevokeAll[t] = [tokens[t] EXCEPT !.revoked = TRUE]
  BY <1>1 DEF Extension!RevokeAll
<1> QED
  BY <1>1, <1>3, <1>5, <1>6

LEMMA IssuedOne ==
  ASSUME Shape
  PROVE  /\ Append(tokens, Extension!Fresh) \in Seq(SessionRecords)
         /\ Len(Append(tokens, Extension!Fresh)) = Len(tokens) + 1
         /\ \A t \in DOMAIN tokens : Append(tokens, Extension!Fresh)[t] = tokens[t]
         /\ Append(tokens, Extension!Fresh)[Len(tokens) + 1] = Extension!Fresh
<1>1. tokens \in Seq(SessionRecords) /\ Extension!Fresh \in SessionRecords
  BY DEF Shape, ClientTyped, Extension!Fresh, SessionRecords
<1> QED
  BY <1>1

LEMMA HandlersTyped ==
  ASSUME Shape, NEW r \in DOMAIN handlers, NEW h, h \in HandlerRecords
  PROVE  /\ [handlers EXCEPT ![r] = h] \in Seq(HandlerRecords)
         /\ Len([handlers EXCEPT ![r] = h]) = Len(handlers)
         /\ [handlers EXCEPT ![r] = h][r] = h
         /\ \A s \in DOMAIN handlers \ {r} : [handlers EXCEPT ![r] = h][s] = handlers[s]
<1>1. handlers \in Seq(HandlerRecords)
  BY DEF Shape, ClientTyped
<1> QED
  BY <1>1

LEMMA ReadSessionStep ==
  ASSUME Shape, NEW p \in Procs, Extension!ReadSession(p)
  PROVE  Shape' /\ \A q \in Procs : GoesOn(procs[q], procs'[q])
<1>0. /\ Len(tokens) \in Nat /\ used \in UsedBounds /\ used.calls <= MaxCalls
      /\ tokens \in Seq(SessionRecords) /\ handlers \in Seq(HandlerRecords)
      /\ Len(handlers) \in Nat /\ site \in {"idle", "revoked"} /\ cached \in BOOLEAN
      /\ stored \in Nat /\ stored <= Len(tokens) /\ refreshing \in Nat
      /\ refreshing <= Len(handlers) /\ upset \in BOOLEAN
      /\ procs \in [Procs -> CallStates]
  BY DEF Shape, ClientTyped
<1>1. /\ procs[p].pc = "session" /\ Holds(procs[p], Len(tokens)) /\ procs[p] \in CallStates
      /\ UNCHANGED <<tokens, site, stored, cached, buffer, used, appended, overlap>>
  BY DEF Extension!ReadSession, Shape, ClientTyped, Extension!SameStore
<1>2. CASE UNCHANGED <<handlers, refreshing, upset>>
           /\ Extension!Goto(p, Extension!Without(p, TRUE))
  BY <1>0, <1>1, <1>2, WithoutHolds, CallGoesOn
<1>3. CASE UNCHANGED <<handlers, refreshing, upset>> /\ Extension!Goto(p, Extension!With(p, stored))
           /\ stored # Extension!NoToken
  <2>1. stored \in 1..Len(tokens)
    BY <1>0, <1>3 DEF Extension!NoToken
  <2>2. Holds(Extension!With(p, stored), Len(tokens)) /\ GoesOn(procs[p], Extension!With(p, stored))
    BY <1>0, <1>1, <2>1, WithHolds
  <2> QED
    BY <1>0, <1>1, <1>3, <2>2, CallGoesOn
<1>4. CASE Extension!JoinOrStart(p, stored) /\ stored # Extension!NoToken
  <2>1. PICK h : h = [step |-> "asked", token |-> stored, new |-> Extension!NoToken,
          awaited |-> TRUE]
    OBVIOUS
  <2>2. h \in HandlerRecords /\ HandlerFits(h, Len(tokens))
    BY <1>0, <1>4, <2>1 DEF HandlerRecords, HandlerFits, Extension!NoToken
  <2>3. /\ handlers' \in Seq(HandlerRecords) /\ refreshing' \in Nat /\ refreshing' <= Len(handlers')
        /\ upset' \in BOOLEAN /\ \A r \in DOMAIN handlers' : HandlerFits(handlers'[r], Len(tokens))
    <3>1. CASE refreshing # 0
      BY <1>0, <1>4, <3>1 DEF Extension!JoinOrStart, Shape
    <3>2. CASE refreshing = 0
      <4>1. handlers' = Append(handlers, h) /\ refreshing' = Len(handlers')
            /\ upset' = (upset \/ Extension!Binding)
        BY <1>4, <2>1, <3>2 DEF Extension!JoinOrStart
      <4>2. \A r \in DOMAIN handlers : HandlerFits(handlers[r], Len(tokens))
        BY DEF Shape
      <4> QED
        BY <1>0, <2>2, <4>1, <4>2
    <3> QED
      BY <3>1, <3>2
  <2>4. PICK v \in BOOLEAN : v = (tokens[stored].age # "expired")
    OBVIOUS
  <2>5. PICK w \in Nat : w = refreshing'
    BY <2>3
  <2>6. PICK c : c = [procs[p] EXCEPT !.pc = "refreshing", !.token = stored, !.waits = w,
          !.usable = v]
    OBVIOUS
  <2>7. Extension!Goto(p, c)
    BY <1>4, <2>4, <2>5, <2>6 DEF Extension!JoinOrStart
  <2>8. Holds(c, Len(tokens)) /\ GoesOn(procs[p], c)
    <3>1. [procs[p] EXCEPT !.pc = "refreshing", !.token = stored, !.waits = w,
            !.usable = v] \in CallStates
      BY <1>0, <1>1 DEF CallStates, Extension!Pcs
    <3>2. c \in CallStates
      BY <2>6, <3>1
    <3>3. c.pc = "refreshing" /\ c.token = stored
      BY <1>1, <2>6 DEF CallStates
    <3>4. /\ c.task = procs[p].task /\ c.event = procs[p].event /\ c.snap = procs[p].snap
          /\ c.sent = procs[p].sent /\ c.unauthorized = procs[p].unauthorized
      BY <1>1, <2>6 DEF CallStates
    <3>5. Holds(c, Len(tokens))
      BY <1>0, <1>1, <1>4, <3>2, <3>3, <3>4 DEF Holds, Extension!NoToken
    <3> QED
      BY <1>1, <3>3, <3>4, <3>5 DEF GoesOn, TellsNone, LeavesBuffer, At, Holds
  <2>9. procs' \in [Procs -> CallStates] /\ \A q \in Procs : Holds(procs'[q], Len(tokens'))
    <3>1. procs' = [procs EXCEPT ![p] = c] /\ c \in CallStates
      BY <2>7, <2>8 DEF Extension!Goto, Holds
    <3>2. \A q \in Procs : Holds(procs[q], Len(tokens))
      BY DEF Shape
    <3> QED
      BY <1>0, <1>1, <2>8, <3>1, <3>2
  <2>10. Shape'
    BY <1>0, <1>1, <2>3, <2>9, ServerShape
  <2> QED
    BY <2>7, <2>8, <2>10, AllGoOn
<1> QED
  BY <1>2, <1>3, <1>4 DEF Extension!ReadSession

LEMMA RefreshReplyStep ==
  ASSUME Shape, NEW r \in DOMAIN handlers, Extension!RefreshReply(r)
  PROVE  Shape' /\ \A q \in Procs : GoesOn(procs[q], procs'[q])
<1>0. /\ Len(tokens) \in Nat /\ used \in UsedBounds /\ used.calls <= MaxCalls
      /\ tokens \in Seq(SessionRecords) /\ handlers \in Seq(HandlerRecords)
      /\ Len(handlers) \in Nat /\ site \in {"idle", "revoked"} /\ cached \in BOOLEAN
      /\ stored \in Nat /\ stored <= Len(tokens) /\ refreshing \in Nat
      /\ refreshing <= Len(handlers) /\ upset \in BOOLEAN
      /\ procs \in [Procs -> CallStates]
  BY DEF Shape, ClientTyped
<1>1. /\ UNCHANGED <<tokens, site, cached, buffer, used, appended, overlap, upset>>
      /\ handlers' = [handlers EXCEPT ![r] = Extension!Closed] /\ stored' = handlers[r].new
         /\ refreshing' = 0
  BY DEF Extension!RefreshReply, Extension!Settle, Extension!history
<1>2. /\ handlers[r].step \in {"done", "denied"} /\ handlers[r].new \in Nat
      /\ handlers[r].new <= Len(tokens)
         /\ (handlers[r].step = "done" => handlers[r].new # Extension!NoToken)
  <2>1. handlers[r] \in HandlerRecords /\ HandlerFits(handlers[r], Len(tokens))
    BY <1>0 DEF Shape
  <2> QED
    BY <2>1 DEF Extension!RefreshReply, HandlerFits, HandlerRecords
<1>3. PICK f : f = [p \in Procs |-> IF handlers[r].step = "done"
        THEN Extension!With(p, handlers[r].new)
                                                                ELSE Extension!Without(p, TRUE)]
  OBVIOUS
<1>4. procs' = [p \in Procs |-> IF procs[p].pc = "refreshing" /\ procs[p].waits = r
                                THEN f[p] ELSE procs[p]]
  BY <1>3 DEF Extension!RefreshReply, Extension!Settle
<1>5. ASSUME NEW p \in Procs, procs[p].pc = "refreshing"
      PROVE  Holds(f[p], Len(tokens)) /\ GoesOn(procs[p], f[p])
  <2>1. Holds(procs[p], Len(tokens))
    BY DEF Shape
  <2>2. CASE handlers[r].step = "done"
    <3>1. handlers[r].new \in 1..Len(tokens)
      BY <1>0, <1>2, <2>2 DEF Extension!NoToken
    <3>2. f[p] = Extension!With(p, handlers[r].new)
      BY <1>3, <2>2
    <3> QED
      BY <1>0, <1>5, <2>1, <3>1, <3>2, WithHolds
  <2>3. CASE handlers[r].step # "done"
    <3>1. f[p] = Extension!Without(p, TRUE)
      BY <1>3, <2>3
    <3> QED
      BY <1>0, <1>5, <2>1, <3>1, WithoutHolds
  <2> QED
    BY <2>2, <2>3
<1>6. /\ procs' \in [Procs -> CallStates]
      /\ \A p \in Procs : Holds(procs'[p], Len(tokens)) /\ GoesOn(procs[p], procs'[p])
  <2>1. ASSUME NEW p \in Procs
        PROVE  Holds(procs'[p], Len(tokens)) /\ GoesOn(procs[p], procs'[p])
    <3>1. Holds(procs[p], Len(tokens))
      BY DEF Shape
    <3> QED
      BY <1>4, <1>5, <3>1, StayingGoesOn
  <2>2. \A p \in Procs : procs'[p] \in CallStates
    BY <2>1 DEF Holds
  <2> QED
    BY <1>4, <2>1, <2>2
<1>7. Extension!Closed \in HandlerRecords /\ HandlerFits(Extension!Closed, Len(tokens))
  BY <1>0 DEF Extension!Closed, HandlerRecords, HandlerFits, Extension!NoToken
<1>8. /\ handlers' \in Seq(HandlerRecords) /\ Len(handlers') = Len(handlers)
      /\ \A s \in DOMAIN handlers' : HandlerFits(handlers'[s], Len(tokens'))
  BY <1>0, <1>1, <1>7, HandlersTyped DEF Shape
<1>9. Shape'
  BY <1>0, <1>1, <1>2, <1>6, <1>8, ServerShape
<1> QED
  BY <1>6, <1>9

LEMMA RefreshFailsStep ==
  ASSUME Shape, NEW r \in DOMAIN handlers, Extension!RefreshFails(r)
  PROVE  Shape' /\ \A q \in Procs : GoesOn(procs[q], procs'[q])
<1>0. /\ Len(tokens) \in Nat /\ used \in UsedBounds /\ used.calls <= MaxCalls
      /\ tokens \in Seq(SessionRecords) /\ handlers \in Seq(HandlerRecords)
      /\ Len(handlers) \in Nat /\ site \in {"idle", "revoked"} /\ cached \in BOOLEAN
      /\ stored \in Nat /\ stored <= Len(tokens) /\ refreshing \in Nat
      /\ refreshing <= Len(handlers) /\ upset \in BOOLEAN
      /\ procs \in [Procs -> CallStates]
  BY DEF Shape, ClientTyped
<1>1. /\ UNCHANGED <<tokens, site, stored, cached, buffer, appended, overlap>>
      /\ refreshing' = 0 /\ upset' = TRUE
  BY DEF Extension!RefreshFails, Extension!Settle
<1>2. used' \in UsedBounds /\ used'.calls <= MaxCalls
  BY <1>0, UseTyped DEF Extension!RefreshFails
<1>3. PICK f : f = [p \in Procs |-> IF procs[p].usable THEN Extension!With(p, procs[p].token)
                                                     ELSE Extension!Without(p, FALSE)]
  OBVIOUS
<1>4. procs' = [p \in Procs |-> IF procs[p].pc = "refreshing" /\ procs[p].waits = r
                                THEN f[p] ELSE procs[p]]
  BY <1>3 DEF Extension!RefreshFails, Extension!Settle
<1>5. ASSUME NEW p \in Procs, procs[p].pc = "refreshing"
      PROVE  Holds(f[p], Len(tokens)) /\ GoesOn(procs[p], f[p])
  <2>1. Holds(procs[p], Len(tokens)) /\ procs[p].token \in 1..Len(tokens)
    <3>1. Holds(procs[p], Len(tokens))
      BY DEF Shape
    <3>2. procs[p].token \in Nat /\ procs[p].token <= Len(tokens) /\ procs[p].token # 0
      BY <1>5, <3>1 DEF Holds, CallStates, Extension!NoToken
    <3> QED
      BY <1>0, <3>1, <3>2
  <2>2. CASE procs[p].usable
    <3>1. f[p] = Extension!With(p, procs[p].token)
      BY <1>3, <2>2
    <3> QED
      BY <1>0, <1>5, <2>1, <3>1, WithHolds
  <2>3. CASE ~procs[p].usable
    <3>1. f[p] = Extension!Without(p, FALSE)
      BY <1>3, <2>3
    <3> QED
      BY <1>0, <1>5, <2>1, <3>1, WithoutHolds
  <2> QED
    BY <2>2, <2>3
<1>6. /\ procs' \in [Procs -> CallStates]
      /\ \A p \in Procs : Holds(procs'[p], Len(tokens)) /\ GoesOn(procs[p], procs'[p])
  <2>1. ASSUME NEW p \in Procs
        PROVE  Holds(procs'[p], Len(tokens)) /\ GoesOn(procs[p], procs'[p])
    <3>1. Holds(procs[p], Len(tokens))
      BY DEF Shape
    <3> QED
      BY <1>4, <1>5, <3>1, StayingGoesOn
  <2>2. \A p \in Procs : procs'[p] \in CallStates
    BY <2>1 DEF Holds
  <2> QED
    BY <1>4, <2>1, <2>2
<1>7. PICK h : h = IF handlers[r].step \in {"done", "denied"} THEN Extension!Closed
                   ELSE [handlers[r] EXCEPT !.awaited = FALSE]
  OBVIOUS
<1>8. h \in HandlerRecords /\ HandlerFits(h, Len(tokens))
  <2>1. handlers[r] \in HandlerRecords /\ HandlerFits(handlers[r], Len(tokens))
    BY <1>0 DEF Shape
  <2>2. Extension!Closed \in HandlerRecords /\ HandlerFits(Extension!Closed, Len(tokens))
    BY <1>0 DEF Extension!Closed, HandlerRecords, HandlerFits, Extension!NoToken
  <2>3. CASE handlers[r].step \in {"done", "denied"}
    BY <1>7, <2>2, <2>3
  <2>4. CASE handlers[r].step \notin {"done", "denied"}
    <3>1. h = [handlers[r] EXCEPT !.awaited = FALSE]
      BY <1>7, <2>4
    <3>2. h \in HandlerRecords
      BY <2>1, <3>1 DEF HandlerRecords
    <3>3. h.step = handlers[r].step /\ h.token = handlers[r].token /\ h.new = handlers[r].new
      BY <2>1, <3>1 DEF HandlerRecords
    <3> QED
      BY <2>1, <2>4, <3>2, <3>3 DEF HandlerFits
  <2> QED
    BY <2>3, <2>4
<1>9. handlers' = [handlers EXCEPT ![r] = h]
  BY <1>7 DEF Extension!RefreshFails
<1>10. /\ handlers' \in Seq(HandlerRecords) /\ Len(handlers') = Len(handlers)
       /\ \A s \in DOMAIN handlers' : HandlerFits(handlers'[s], Len(tokens'))
  BY <1>0, <1>1, <1>8, <1>9, HandlersTyped DEF Shape
<1>11. Shape'
  BY <1>0, <1>1, <1>2, <1>6, <1>10, ServerShape
<1> QED
  BY <1>6, <1>11

LEMMA HandlerResolvesStep ==
  ASSUME Shape, NEW r \in DOMAIN handlers, Extension!HandlerResolves(r)
  PROVE  Shape' /\ procs' = procs
<1>0. /\ Len(tokens) \in Nat /\ used \in UsedBounds /\ used.calls <= MaxCalls
      /\ tokens \in Seq(SessionRecords) /\ handlers \in Seq(HandlerRecords)
      /\ Len(handlers) \in Nat /\ site \in {"idle", "revoked"} /\ cached \in BOOLEAN
      /\ stored \in Nat /\ stored <= Len(tokens) /\ refreshing \in Nat
      /\ refreshing <= Len(handlers) /\ upset \in BOOLEAN
      /\ procs \in [Procs -> CallStates]
      /\ \A q \in Procs : Holds(procs[q], Len(tokens))
      /\ \A s \in DOMAIN handlers : HandlerFits(handlers[s], Len(tokens))
  BY DEF Shape, ClientTyped
<1>1. UNCHANGED <<tokens, site, stored, cached, refreshing, procs, buffer, used, appended, overlap,
                  upset>>
  BY DEF Extension!HandlerResolves, Extension!client, Extension!history
<1>2. PICK h : h = IF Extension!Active(handlers[r].token)
        THEN [handlers[r] EXCEPT !.step = "resolved"]
                   ELSE IF handlers[r].awaited  THEN [handlers[r] EXCEPT !.step = "denied"]
                     ELSE Extension!Closed
  OBVIOUS
<1>3. handlers[r].step = "asked" /\ handlers' = [handlers EXCEPT ![r] = h]
  BY <1>2 DEF Extension!HandlerResolves
<1>4. handlers[r] \in HandlerRecords /\ HandlerFits(handlers[r], Len(tokens))
  BY <1>0
<1>5. h \in HandlerRecords /\ HandlerFits(h, Len(tokens))
  <2>1. CASE h = [handlers[r] EXCEPT !.step = "resolved"]
    BY <1>3, <1>4, <2>1 DEF HandlerRecords, HandlerFits
  <2>2. CASE h = [handlers[r] EXCEPT !.step = "denied"] /\ handlers[r].awaited
    BY <1>3, <1>4, <2>2 DEF HandlerRecords, HandlerFits
  <2>3. CASE h = Extension!Closed
    BY <1>0, <2>3 DEF Extension!Closed, HandlerRecords, HandlerFits, Extension!NoToken
  <2> QED
    BY <1>2, <2>1, <2>2, <2>3
<1>6. /\ handlers' \in Seq(HandlerRecords) /\ Len(handlers') = Len(handlers)
      /\ \A s \in DOMAIN handlers' : HandlerFits(handlers'[s], Len(tokens'))
  BY <1>0, <1>1, <1>3, <1>5, HandlersTyped
<1> QED
  BY <1>0, <1>1, <1>6, ServerShape

LEMMA RevokedIsSession ==
  ASSUME Shape, NEW t \in DOMAIN tokens
  PROVE  /\ [tokens EXCEPT ![t].revoked = TRUE] \in Seq(SessionRecords)
         /\ Len([tokens EXCEPT ![t].revoked = TRUE]) = Len(tokens)
         /\ \A u \in DOMAIN tokens \ {t} : [tokens EXCEPT ![t].revoked = TRUE][u] = tokens[u]
         /\ [tokens EXCEPT ![t].revoked = TRUE][t].age = tokens[t].age
<1>1. tokens \in Seq(SessionRecords) /\ tokens[t] \in SessionRecords
  BY DEF Shape, ClientTyped
<1>2. PICK s : s = [tokens[t] EXCEPT !.revoked = TRUE]
  OBVIOUS
<1>3. s \in SessionRecords /\ s.age = tokens[t].age
  BY <1>1, <1>2 DEF SessionRecords
<1>4. PICK all : all = [tokens EXCEPT ![t] = s]
  OBVIOUS
<1>5. /\ all \in Seq(SessionRecords) /\ Len(all) = Len(tokens) /\ all[t] = s
      /\ \A u \in DOMAIN tokens \ {t} : all[u] = tokens[u]
  BY <1>1, <1>3, <1>4
<1>6. [tokens EXCEPT ![t].revoked = TRUE] = all
  BY <1>2, <1>4
<1> QED
  BY <1>3, <1>5, <1>6

LEMMA HandlerRevokesStep ==
  ASSUME Shape, NEW r \in DOMAIN handlers, Extension!HandlerRevokes(r)
  PROVE  Shape' /\ procs' = procs
<1>0. /\ Len(tokens) \in Nat /\ used \in UsedBounds /\ used.calls <= MaxCalls
      /\ tokens \in Seq(SessionRecords) /\ handlers \in Seq(HandlerRecords)
      /\ Len(handlers) \in Nat /\ site \in {"idle", "revoked"} /\ cached \in BOOLEAN
      /\ stored \in Nat /\ stored <= Len(tokens) /\ refreshing \in Nat
      /\ refreshing <= Len(handlers) /\ upset \in BOOLEAN
      /\ procs \in [Procs -> CallStates]
      /\ \A q \in Procs : Holds(procs[q], Len(tokens))
      /\ \A s \in DOMAIN handlers : HandlerFits(handlers[s], Len(tokens))
  BY DEF Shape, ClientTyped
<1>1. UNCHANGED <<site, stored, cached, refreshing, procs, buffer, used, appended, overlap, upset>>
  BY DEF Extension!HandlerRevokes, Extension!client, Extension!history
<1>2. PICK h : h = [handlers[r] EXCEPT !.step = "revoked"]
  OBVIOUS
<1>3. handlers[r].step = "resolved" /\ handlers' = [handlers EXCEPT ![r] = h]
  BY <1>2 DEF Extension!HandlerRevokes
<1>4. handlers[r] \in HandlerRecords /\ HandlerFits(handlers[r], Len(tokens))
  BY <1>0
<1>5. h \in HandlerRecords /\ HandlerFits(h, Len(tokens))
  BY <1>2, <1>3, <1>4 DEF HandlerRecords, HandlerFits
<1>6. handlers[r].token \in DOMAIN tokens
  BY <1>0, <1>3, <1>4 DEF HandlerRecords, HandlerFits, Extension!NoToken
<1>7. tokens' \in Seq(SessionRecords) /\ Len(tokens') = Len(tokens)
  BY <1>6, RevokedIsSession DEF Extension!HandlerRevokes
<1>8. /\ handlers' \in Seq(HandlerRecords) /\ Len(handlers') = Len(handlers)
      /\ \A s \in DOMAIN handlers' : HandlerFits(handlers'[s], Len(tokens'))
  BY <1>0, <1>3, <1>5, <1>7, HandlersTyped
<1> QED
  BY <1>0, <1>1, <1>7, <1>8, ServerShape

LEMMA HandlerIssuesStep ==
  ASSUME Shape, NEW r \in DOMAIN handlers, Extension!HandlerIssues(r)
  PROVE  Shape' /\ procs' = procs
<1>0. /\ Len(tokens) \in Nat /\ used \in UsedBounds /\ used.calls <= MaxCalls
      /\ tokens \in Seq(SessionRecords) /\ handlers \in Seq(HandlerRecords)
      /\ Len(handlers) \in Nat /\ site \in {"idle", "revoked"} /\ cached \in BOOLEAN
      /\ stored \in Nat /\ stored <= Len(tokens) /\ refreshing \in Nat
      /\ refreshing <= Len(handlers) /\ upset \in BOOLEAN
      /\ procs \in [Procs -> CallStates]
      /\ \A q \in Procs : Holds(procs[q], Len(tokens))
      /\ \A s \in DOMAIN handlers : HandlerFits(handlers[s], Len(tokens))
  BY DEF Shape, ClientTyped
<1>1. UNCHANGED <<site, stored, cached, refreshing, procs, buffer, used, appended, overlap, upset>>
  BY DEF Extension!HandlerIssues, Extension!client, Extension!history
<1>2. tokens' \in Seq(SessionRecords) /\ Len(tokens') = Len(tokens) + 1
  BY IssuedOne DEF Extension!HandlerIssues
<1>3. PICK n \in Nat : n = Len(tokens') /\ Len(tokens) <= n /\ n # 0
  BY <1>0, <1>2
<1>4. PICK h : h = IF handlers[r].awaited THEN [handlers[r] EXCEPT !.step = "done", !.new = n]
        ELSE Extension!Closed
  OBVIOUS
<1>5. handlers[r].step = "revoked" /\ handlers' = [handlers EXCEPT ![r] = h]
  BY <1>3, <1>4 DEF Extension!HandlerIssues
<1>6. handlers[r] \in HandlerRecords /\ HandlerFits(handlers[r], n)
  BY <1>0, <1>3, MoreSessions
<1>7. h \in HandlerRecords /\ HandlerFits(h, n)
  <2>1. CASE handlers[r].awaited
    <3>1. h = [handlers[r] EXCEPT !.step = "done", !.new = n]
      BY <1>4, <2>1
    <3>2. h \in HandlerRecords
      <4>1. [handlers[r] EXCEPT !.step = "done", !.new = n] \in HandlerRecords
        BY <1>6 DEF HandlerRecords
      <4> QED
        BY <3>1, <4>1
    <3>3. /\ h.step = "done" /\ h.new = n /\ h.token = handlers[r].token
          /\ h.awaited = handlers[r].awaited
      BY <1>6, <3>1 DEF HandlerRecords
    <3> QED
      BY <1>3, <1>5, <1>6, <2>1, <3>2, <3>3 DEF HandlerFits, Extension!NoToken
  <2>2. CASE ~handlers[r].awaited
    BY <1>3, <1>4, <2>2 DEF Extension!Closed, HandlerRecords, HandlerFits, Extension!NoToken
  <2> QED
    BY <2>1, <2>2
<1>8. \A q \in Procs : Holds(procs[q], n)
  BY <1>3, MoreSessions
<1>9. \A s \in DOMAIN handlers : HandlerFits(handlers[s], n)
  BY <1>3, MoreSessions
<1>10. /\ handlers' \in Seq(HandlerRecords) /\ Len(handlers') = Len(handlers)
       /\ \A s \in DOMAIN handlers' : HandlerFits(handlers'[s], n)
  BY <1>0, <1>5, <1>7, <1>9, HandlersTyped
<1> QED
  BY <1>0, <1>1, <1>2, <1>3, <1>8, <1>10, ServerShape

LEMMA BindRevokesStep ==
  ASSUME Shape, NEW p \in Procs, Extension!BindRevokes(p)
  PROVE  Shape' /\ \A q \in Procs : GoesOn(procs[q], procs'[q])
<1>0. /\ Len(tokens) \in Nat /\ used \in UsedBounds /\ used.calls <= MaxCalls
      /\ tokens \in Seq(SessionRecords) /\ handlers \in Seq(HandlerRecords)
      /\ Len(handlers) \in Nat /\ site \in {"idle", "revoked"} /\ cached \in BOOLEAN
      /\ stored \in Nat /\ stored <= Len(tokens) /\ refreshing \in Nat
      /\ refreshing <= Len(handlers) /\ upset \in BOOLEAN
      /\ procs \in [Procs -> CallStates]
      /\ \A q \in Procs : Holds(procs[q], Len(tokens))
      /\ \A s \in DOMAIN handlers : HandlerFits(handlers[s], Len(tokens))
  BY DEF Shape, ClientTyped
<1>1. /\ UNCHANGED <<handlers, site, stored, cached, refreshing, buffer, used, appended, overlap>>
      /\ procs[p].pc = "bind" /\ upset' \in BOOLEAN
  BY <1>0 DEF Extension!BindRevokes, Extension!SameStore
<1>2. tokens' \in Seq(SessionRecords) /\ Len(tokens') = Len(tokens)
  BY RevokedAll DEF Extension!BindRevokes
<1>3. PICK c : c = [procs[p] EXCEPT !.pc = "issue"]
  OBVIOUS
<1>4. Extension!Goto(p, c)
  BY <1>3 DEF Extension!BindRevokes
<1>5. /\ Holds(c, Len(tokens)) /\ c.pc = "issue" /\ c.task = procs[p].task
      /\ c.event = procs[p].event /\ c.snap = procs[p].snap /\ c.sent = procs[p].sent
  BY <1>1, <1>3, IssuesNext
<1>6. GoesOn(procs[p], c)
  BY <1>0, <1>1, <1>5 DEF GoesOn, TellsNone, LeavesBuffer, At, Holds
<1>7. procs' \in [Procs -> CallStates] /\ \A q \in Procs : Holds(procs'[q], Len(tokens'))
  <2>1. procs' = [procs EXCEPT ![p] = c] /\ c \in CallStates
    BY <1>4, <1>5 DEF Extension!Goto, Holds
  <2> QED
    BY <1>0, <1>2, <1>5, <2>1
<1>8. Shape'
  BY <1>0, <1>1, <1>2, <1>7, ServerShape
<1> QED
  BY <1>4, <1>6, <1>8, AllGoOn

LEMMA BindIssuesStep ==
  ASSUME Shape, NEW p \in Procs, Extension!BindIssues(p)
  PROVE  /\ Shape' /\ \A q \in Procs : GoesOn(procs[q], procs'[q])
         /\ procs'[p].pc = "save" /\ procs'[p].token = Len(tokens')
<1>0. /\ Len(tokens) \in Nat /\ used \in UsedBounds /\ used.calls <= MaxCalls
      /\ tokens \in Seq(SessionRecords) /\ handlers \in Seq(HandlerRecords)
      /\ Len(handlers) \in Nat /\ site \in {"idle", "revoked"} /\ cached \in BOOLEAN
      /\ stored \in Nat /\ stored <= Len(tokens) /\ refreshing \in Nat
      /\ refreshing <= Len(handlers) /\ upset \in BOOLEAN
      /\ procs \in [Procs -> CallStates]
      /\ \A q \in Procs : Holds(procs[q], Len(tokens))
      /\ \A s \in DOMAIN handlers : HandlerFits(handlers[s], Len(tokens))
  BY DEF Shape, ClientTyped
<1>1. /\ UNCHANGED <<handlers, site, stored, cached, refreshing, buffer, used, appended, overlap,
           upset>>
      /\ procs[p].pc = "issue" /\ procs[p] \in CallStates
  BY <1>0 DEF Extension!BindIssues, Extension!SameStore, Extension!SameHistory, Extension!history
<1>2. tokens' \in Seq(SessionRecords) /\ Len(tokens') = Len(tokens) + 1
  BY IssuedOne DEF Extension!BindIssues
<1>3. PICK n \in Nat : n = Len(tokens') /\ Len(tokens) <= n /\ n # 0
  BY <1>0, <1>2
<1>4. PICK c : c = [procs[p] EXCEPT !.pc = "save", !.token = n]
  OBVIOUS
<1>5. Extension!Goto(p, c)
  BY <1>3, <1>4 DEF Extension!BindIssues
<1>6. \A q \in Procs : Holds(procs[q], n)
  BY <1>3, MoreSessions
<1>7. \A s \in DOMAIN handlers : HandlerFits(handlers[s], n)
  BY <1>3, MoreSessions
<1>8. c \in CallStates /\ c.pc = "save" /\ c.token = n
  <2>1. [procs[p] EXCEPT !.pc = "save", !.token = n] \in CallStates
    BY <1>1 DEF CallStates, Extension!Pcs
  <2>2. c.pc = "save" /\ c.token = n
    BY <1>1, <1>4 DEF CallStates
  <2> QED
    BY <1>4, <2>1, <2>2
<1>9. /\ c.task = procs[p].task /\ c.event = procs[p].event /\ c.snap = procs[p].snap
      /\ c.sent = procs[p].sent /\ c.unauthorized = procs[p].unauthorized
  BY <1>1, <1>4 DEF CallStates
<1>10. Holds(c, n)
  BY <1>1, <1>3, <1>6, <1>8, <1>9 DEF Holds, Extension!NoToken
<1>11. GoesOn(procs[p], c)
  BY <1>1, <1>6, <1>8, <1>9 DEF GoesOn, TellsNone, LeavesBuffer, At, Holds
<1>12. procs' \in [Procs -> CallStates] /\ (\A q \in Procs : Holds(procs'[q], n)) /\ procs'[p] = c
  <2>1. procs' = [procs EXCEPT ![p] = c]
    BY <1>5 DEF Extension!Goto
  <2> QED
    BY <1>0, <1>6, <1>8, <1>10, <2>1
<1>13. Shape'
  BY <1>0, <1>1, <1>2, <1>3, <1>7, <1>12, ServerShape
<1> QED
  BY <1>3, <1>5, <1>8, <1>11, <1>12, <1>13, AllGoOn

LEMMA BindSavedStep ==
  ASSUME Shape, NEW p \in Procs, Extension!BindSaved(p)
  PROVE  /\ Shape' /\ \A q \in Procs : GoesOn(procs[q], procs'[q])
         /\ procs'[p].pc \in {"idle", "flush", "session"}
<1>0. /\ Len(tokens) \in Nat /\ used \in UsedBounds /\ used.calls <= MaxCalls
      /\ tokens \in Seq(SessionRecords) /\ handlers \in Seq(HandlerRecords)
      /\ Len(handlers) \in Nat /\ site \in {"idle", "revoked"} /\ cached \in BOOLEAN
      /\ stored \in Nat /\ stored <= Len(tokens) /\ refreshing \in Nat
      /\ refreshing <= Len(handlers) /\ upset \in BOOLEAN
      /\ procs \in [Procs -> CallStates]
      /\ \A q \in Procs : Holds(procs[q], Len(tokens))
      /\ \A s \in DOMAIN handlers : HandlerFits(handlers[s], Len(tokens))
  BY DEF Shape, ClientTyped
<1>1. /\ UNCHANGED <<tokens, handlers, site, refreshing, buffer, used, appended, overlap, upset>>
      /\ procs[p].pc = "save" /\ stored' = procs[p].token /\ cached' = TRUE
  BY <1>0
     DEF Extension!BindSaved, Extension!SameServer, Extension!SameHistory, Extension!server,
       Extension!history
<1>2. stored' \in Nat /\ stored' <= Len(tokens)
  BY <1>0, <1>1 DEF Holds, CallStates
<1>3. PICK c : c = IF procs[p].event = Extension!NoEvent THEN Extension!Over(p)
                   ELSE [procs[p] EXCEPT !.pc = "session", !.task = "send",
                     !.token = Extension!NoToken]
  OBVIOUS
<1>4. Extension!Goto(p, c)
  BY <1>3 DEF Extension!BindSaved
<1>5. Holds(c, Len(tokens)) /\ GoesOn(procs[p], c) /\ c.pc \in {"idle", "flush", "session"}
  <2>1. CASE procs[p].event = Extension!NoEvent
    <3>1. c = Extension!Over(p)
      BY <1>3, <2>1
    <3> QED
      BY <1>0, <3>1, OverHolds
  <2>2. CASE procs[p].event # Extension!NoEvent
    <3>1. c = [procs[p] EXCEPT !.pc = "session", !.task = "send", !.token = Extension!NoToken]
      BY <1>3, <2>2
    <3>2. /\ Holds(c, Len(tokens)) /\ c.pc = "session" /\ c.task = "send"
          /\ c.event = procs[p].event /\ c.snap = procs[p].snap
      BY <1>1, <2>2, <3>1, SendsNext
    <3> QED
      BY <1>1, <3>2 DEF GoesOn, TellsNone, LeavesBuffer, At
  <2> QED
    BY <2>1, <2>2
<1>6. procs' \in [Procs -> CallStates] /\ (\A q \in Procs : Holds(procs'[q], Len(tokens')))
      /\ procs'[p] = c
  <2>1. procs' = [procs EXCEPT ![p] = c] /\ c \in CallStates
    BY <1>4, <1>5 DEF Extension!Goto, Holds
  <2> QED
    BY <1>0, <1>1, <1>5, <2>1
<1>7. Shape'
  BY <1>0, <1>1, <1>2, <1>6, ServerShape
<1> QED
  BY <1>4, <1>5, <1>6, <1>7, AllGoOn

LEMMA SiteStep ==
  ASSUME Shape, Extension!SiteRevokes \/ Extension!SiteIssues
  PROVE  Shape' /\ procs' = procs
<1>0. /\ Len(tokens) \in Nat /\ used \in UsedBounds /\ used.calls <= MaxCalls
      /\ tokens \in Seq(SessionRecords) /\ handlers \in Seq(HandlerRecords)
      /\ Len(handlers) \in Nat /\ site \in {"idle", "revoked"} /\ cached \in BOOLEAN
      /\ stored \in Nat /\ stored <= Len(tokens) /\ refreshing \in Nat
      /\ refreshing <= Len(handlers) /\ upset \in BOOLEAN
      /\ procs \in [Procs -> CallStates]
      /\ \A q \in Procs : Holds(procs[q], Len(tokens))
      /\ \A s \in DOMAIN handlers : HandlerFits(handlers[s], Len(tokens))
  BY DEF Shape, ClientTyped
<1>1. UNCHANGED <<handlers, stored, cached, refreshing, procs, buffer, appended, overlap>>
  BY DEF Extension!SiteRevokes, Extension!SiteIssues, Extension!client, Extension!history
<1>2. CASE Extension!SiteRevokes
  <2>1. used' \in UsedBounds /\ used'.calls <= MaxCalls
    BY <1>0, <1>2, UseTyped DEF Extension!SiteRevokes
  <2>2. tokens' \in Seq(SessionRecords) /\ Len(tokens') = Len(tokens)
    BY <1>2, RevokedAll DEF Extension!SiteRevokes
  <2>3. site' \in {"idle", "revoked"} /\ upset' = TRUE
    BY <1>2 DEF Extension!SiteRevokes
  <2> QED
    BY <1>0, <1>1, <2>1, <2>2, <2>3, ServerShape
<1>3. CASE Extension!SiteIssues
  <2>1. used' = used /\ upset' = upset /\ site' = "idle"
    BY <1>3 DEF Extension!SiteIssues, Extension!history
  <2>2. tokens' \in Seq(SessionRecords) /\ Len(tokens') = Len(tokens) + 1
    BY <1>3, IssuedOne DEF Extension!SiteIssues
  <2>3. PICK n \in Nat : n = Len(tokens') /\ Len(tokens) <= n
    BY <1>0, <2>2
  <2>4. \A q \in Procs : Holds(procs[q], n)
    BY <2>3, MoreSessions
  <2>5. \A s \in DOMAIN handlers : HandlerFits(handlers[s], n)
    BY <2>3, MoreSessions
  <2> QED
    BY <1>0, <1>1, <2>1, <2>2, <2>3, <2>4, <2>5, ServerShape
<1> QED
  BY <1>2, <1>3

LEMMA SessionAgesStep ==
  ASSUME Shape, NEW t \in DOMAIN tokens, Extension!SessionAges(t)
  PROVE  /\ Shape' /\ procs' = procs /\ DOMAIN tokens' = DOMAIN tokens
         /\ tokens[t].age # "expired"
         /\ \A u \in DOMAIN tokens \ {t} : tokens'[u] = tokens[u]
         /\ tokens'[t].revoked = tokens[t].revoked
<1>0. /\ Len(tokens) \in Nat /\ used \in UsedBounds /\ used.calls <= MaxCalls
      /\ tokens \in Seq(SessionRecords) /\ handlers \in Seq(HandlerRecords)
      /\ Len(handlers) \in Nat /\ site \in {"idle", "revoked"} /\ cached \in BOOLEAN
      /\ stored \in Nat /\ stored <= Len(tokens) /\ refreshing \in Nat
      /\ refreshing <= Len(handlers) /\ upset \in BOOLEAN
      /\ procs \in [Procs -> CallStates]
      /\ \A q \in Procs : Holds(procs[q], Len(tokens))
      /\ \A s \in DOMAIN handlers : HandlerFits(handlers[s], Len(tokens))
  BY DEF Shape, ClientTyped
<1>1. UNCHANGED <<handlers, site, stored, cached, refreshing, procs, buffer, appended, overlap,
                  upset>>
  BY DEF Extension!SessionAges, Extension!client, Extension!history
<1>2. used' \in UsedBounds /\ used'.calls <= MaxCalls
  BY <1>0, UseTyped DEF Extension!SessionAges
<1>3. tokens[t] \in SessionRecords /\ tokens[t].age \in {"fresh", "closing"}
  <2>1. tokens[t] \in SessionRecords
    BY <1>0
  <2> QED
    BY <2>1 DEF Extension!SessionAges, SessionRecords
<1>4. PICK age \in {"closing", "expired"} : tokens' = [tokens EXCEPT ![t].age = age]
  <2>1. Extension!Older[tokens[t].age] \subseteq {"closing", "expired"}
    <3>1. CASE tokens[t].age = "fresh"
      BY <3>1 DEF Extension!Older
    <3>2. CASE tokens[t].age = "closing"
      BY <3>2 DEF Extension!Older
    <3> QED
      BY <1>3, <3>1, <3>2
  <2> QED
    BY <2>1 DEF Extension!SessionAges
<1>5. PICK s : s = [tokens[t] EXCEPT !.age = age]
  OBVIOUS
<1>6. s \in SessionRecords /\ s.revoked = tokens[t].revoked
  BY <1>3, <1>5 DEF SessionRecords
<1>7. tokens' = [tokens EXCEPT ![t] = s]
  BY <1>4, <1>5
<1>8. tokens' \in Seq(SessionRecords) /\ Len(tokens') = Len(tokens)
  BY <1>0, <1>6, <1>7
<1>9. Shape'
  BY <1>0, <1>1, <1>2, <1>8, ServerShape
<1> QED
  BY <1>0, <1>1, <1>3, <1>6, <1>7, <1>8, <1>9

LEMMA RestartStep ==
  ASSUME Shape, Extension!Restart
  PROVE  Shape' /\ \A q \in Procs : GoesOn(procs[q], procs'[q])
<1>0. /\ Len(tokens) \in Nat /\ used \in UsedBounds /\ used.calls <= MaxCalls
      /\ tokens \in Seq(SessionRecords) /\ handlers \in Seq(HandlerRecords)
      /\ Len(handlers) \in Nat /\ site \in {"idle", "revoked"} /\ cached \in BOOLEAN
      /\ stored \in Nat /\ stored <= Len(tokens) /\ refreshing \in Nat
      /\ refreshing <= Len(handlers) /\ upset \in BOOLEAN
      /\ procs \in [Procs -> CallStates]
      /\ \A q \in Procs : Holds(procs[q], Len(tokens))
      /\ \A s \in DOMAIN handlers : HandlerFits(handlers[s], Len(tokens))
  BY DEF Shape, ClientTyped
<1>1. /\ UNCHANGED <<tokens, site, stored, cached, buffer, appended, overlap>>
      /\ refreshing' = 0 /\ upset' \in BOOLEAN /\ procs' = [p \in Procs |-> Extension!Idle]
  BY <1>0 DEF Extension!Restart, Extension!SameStore
<1>2. used' \in UsedBounds /\ used'.calls <= MaxCalls
  BY <1>0, UseTyped DEF Extension!Restart
<1>3. ASSUME NEW s \in DOMAIN handlers
      PROVE  handlers'[s] \in HandlerRecords /\ HandlerFits(handlers'[s], Len(tokens))
  <2>1. handlers[s] \in HandlerRecords /\ HandlerFits(handlers[s], Len(tokens))
    BY <1>0
  <2>2. Extension!Closed \in HandlerRecords /\ HandlerFits(Extension!Closed, Len(tokens))
    BY <1>0 DEF Extension!Closed, HandlerRecords, HandlerFits, Extension!NoToken
  <2>3. CASE handlers[s].step \in {"done", "denied"}
    <3>1. handlers'[s] = Extension!Closed
      BY <2>3 DEF Extension!Restart
    <3> QED
      BY <2>2, <3>1
  <2>4. CASE handlers[s].step \notin {"done", "denied"}
    <3>1. PICK h : h = [handlers[s] EXCEPT !.awaited = FALSE]
      OBVIOUS
    <3>2. handlers'[s] = h
      BY <2>4, <3>1 DEF Extension!Restart
    <3>3. h \in HandlerRecords
      BY <2>1, <3>1 DEF HandlerRecords
    <3>4. h.step = handlers[s].step /\ h.token = handlers[s].token /\ h.new = handlers[s].new
      BY <2>1, <3>1 DEF HandlerRecords
    <3> QED
      BY <2>1, <2>4, <3>2, <3>3, <3>4 DEF HandlerFits
  <2> QED
    BY <2>3, <2>4
<1>4. DOMAIN handlers' = 1..Len(handlers)
  BY <1>0 DEF Extension!Restart
<1>5. handlers' \in [1..Len(handlers) -> HandlerRecords]
  BY <1>0, <1>3 DEF Extension!Restart
<1>6. handlers' \in Seq(HandlerRecords)
  BY <1>0, <1>5
<1>7. Len(handlers') \in Nat
  BY <1>6
<1>8. \A p \in Procs : procs'[p] = Extension!Idle /\ Holds(Extension!Idle, Len(tokens))
  BY <1>0, <1>1, IdleHolds
<1>9. procs' \in [Procs -> CallStates]
  BY <1>1, <1>8 DEF Holds
<1>10. Shape'
  BY <1>0, <1>1, <1>2, <1>3, <1>4, <1>6, <1>7, <1>8, <1>9, ServerShape
<1> QED
  BY <1>8, <1>10, IdleGoesOn

LEMMA ShapeInit == ASSUME Extension!Init PROVE Shape
<1>1. PICK bound \in BOOLEAN : /\ tokens = IF bound THEN <<Extension!Fresh>> ELSE <<>>
                               /\ stored = IF bound THEN 1 ELSE Extension!NoToken
                               /\ cached = bound
  BY DEF Extension!Init
<1>2. Extension!Fresh \in SessionRecords
  BY DEF Extension!Fresh, SessionRecords
<1>3. /\ tokens \in Seq(SessionRecords) /\ stored \in Nat /\ stored <= Len(tokens)
      /\ Len(tokens) \in Nat /\ cached \in BOOLEAN
  BY <1>1, <1>2 DEF Extension!NoToken
<1>4. used \in UsedBounds /\ used.calls <= MaxCalls
  BY ExtensionAssumption DEF Extension!Init, Extension!Bounds, UsedBounds
<1>5. \A p \in Procs : procs[p] = Extension!Idle /\ Holds(Extension!Idle, Len(tokens))
  BY <1>3, IdleHolds DEF Extension!Init
<1>6. procs \in [Procs -> CallStates]
  BY <1>5 DEF Extension!Init, Holds
<1>7. handlers = <<>> /\ buffer = <<>> /\ appended = <<>> /\ refreshing = 0 /\ site = "idle"
  BY DEF Extension!Init
<1>8. /\ handlers \in Seq(HandlerRecords) /\ buffer \in Seq(Extension!Events)
         /\ appended \in Seq(Extension!Events)
      /\ Len(handlers) = 0 /\ Len(buffer) <= MaxItems
  BY <1>7, ExtensionAssumption
<1>9. overlap \in BOOLEAN /\ upset \in BOOLEAN
  BY DEF Extension!Init
<1>10. ClientTyped
  BY <1>3, <1>4, <1>6, <1>7, <1>8, <1>9 DEF ClientTyped
<1> QED
  BY <1>5, <1>7, <1>10 DEF Shape

-----------------------------------------------------------------------------
\* Each event has its call and is put into the buffer once.
Told(e) == e \in Extension!EventsIn(appended)

OwnEvents ==
  /\ \A p \in Procs : procs[p].event.id <= used.calls
  /\ \A p, q \in Procs : procs[p].event.id # 0 /\ procs[p].event.id = procs[q].event.id => p = q
  /\ \A i \in DOMAIN appended : appended[i].id # 0 /\ appended[i].id <= used.calls
  /\ \A i, j \in DOMAIN appended : appended[i] = appended[j] => i = j
  /\ \A p \in Procs : procs[p].event.id # 0 =>
       /\ ~Told(Extension!Event(procs[p].event.id, "reconnect_requested"))
       /\ procs[p].pc = "check" <=> Told(procs[p].event)

\* Where events are that were put into the buffer, and what a flush has delivered.
Accounted ==
  /\ Extension!EventsIn(buffer) \subseteq Extension!EventsIn(appended)
  /\ \A p \in Procs : Extension!EventsIn(procs[p].snap) \subseteq Extension!EventsIn(appended)
  /\ flushed \subseteq Extension!EventsIn(appended) /\ flushed \subseteq received
  /\ ended \subseteq received \cup Extension!EventsIn(appended) \cup excused
  /\ \A p \in Procs : procs[p].task = "flush" =>
       \A i \in DOMAIN procs[p].snap : i <= procs[p].sent => procs[p].snap[i] \in flushed

\* The buffer is what was put into it last; what came before has been delivered or trimmed.
Dropped == Len(appended) - Len(buffer)

LastOnes ==
  /\ Len(buffer) <= Len(appended)
  /\ \A i \in DOMAIN buffer : buffer[i] = appended[Dropped + i]
  /\ \A i \in DOMAIN appended : i <= Dropped => appended[i] \in flushed \cup excused

BufferCalm ==
  ~overlap =>
    /\ \A p, q \in Procs : Extension!AtBuffer(p) /\ Extension!AtBuffer(q) => p = q
    /\ \A p \in Procs : Extension!AtBuffer(p) => procs[p].snap = buffer
    /\ LastOnes
    /\ Extension!FlushedInOrder

EventsInv == OwnEvents /\ Accounted /\ BufferCalm

LEMMA IdsTyped ==
  ASSUME Shape
  PROVE  /\ used.calls \in Nat
         /\ \A p \in Procs : procs[p].event \in Extension!Events /\ procs[p].event.id \in Nat
         /\ \A i \in DOMAIN appended : appended[i] \in Extension!Events /\ appended[i].id \in Nat
<1>1. \A e \in Extension!Events : e.id \in Nat
  BY ExtensionAssumption DEF Extension!Events
<1>2. used.calls \in Nat /\ appended \in Seq(Extension!Events)
  BY DEF Shape, ClientTyped, UsedBounds
<1>3. \A p \in Procs : procs[p].event \in Extension!Events
  BY SnapTyped
<1> QED
  BY <1>1, <1>2, <1>3

LEMMA OwnEventsRest ==
  ASSUME Shape, Shape', OwnEvents, \A q \in Procs : TellsNone(procs[q], procs'[q]),
         appended' = appended, used.calls <= used'.calls
  PROVE  OwnEvents'
<1>1. /\ used.calls \in Nat /\ used'.calls \in Nat /\ \A p \in Procs : procs[p].event.id \in Nat
      /\ \A i \in DOMAIN appended : appended[i].id \in Nat
  <2>1. used.calls \in Nat /\ used'.calls \in Nat
    BY DEF Shape, ClientTyped, UsedBounds
  <2> QED
    BY <2>1, IdsTyped
<1>2. \A p \in Procs : procs'[p].event.id # 0 =>
        procs'[p].event = procs[p].event /\ (procs'[p].pc = "check" <=> procs[p].pc = "check")
  BY DEF TellsNone
<1>3. Extension!EventsIn(appended)' = Extension!EventsIn(appended)
  BY DEF Extension!EventsIn
<1>4. \A p \in Procs : procs'[p].event.id <= used'.calls
  BY <1>1, <1>2 DEF OwnEvents
<1>5. \A p, q \in Procs : procs'[p].event.id # 0 /\ procs'[p].event.id = procs'[q].event.id => p = q
  BY <1>2 DEF OwnEvents
<1>6. \A i \in DOMAIN appended : appended[i].id # 0 /\ appended[i].id <= used'.calls
  BY <1>1 DEF OwnEvents
<1>7. ASSUME NEW p \in Procs, procs'[p].event.id # 0
      PROVE  /\ Extension!Event(procs'[p].event.id,
                  "reconnect_requested") \notin Extension!EventsIn(appended)
             /\ procs'[p].pc = "check" <=> procs'[p].event \in Extension!EventsIn(appended)
  <2>1. procs[p].event.id # 0 /\ procs'[p].event = procs[p].event
    BY <1>2, <1>7
  <2>2. /\ ~Told(Extension!Event(procs[p].event.id, "reconnect_requested"))
        /\ procs[p].pc = "check" <=> Told(procs[p].event)
    BY <2>1 DEF OwnEvents
  <2> QED
    BY <1>2, <1>7, <2>1, <2>2 DEF Told
<1> QED
  BY <1>3, <1>4, <1>5, <1>6, <1>7 DEF OwnEvents, Told

LEMMA EmptyIn == Extension!EventsIn(<<>>) = {}
  BY DEF Extension!EventsIn

LEMMA AccountedRest ==
  ASSUME Shape, Accounted, \A q \in Procs : LeavesBuffer(procs[q], procs'[q]),
         UNCHANGED <<appended, buffer>>,
         flushed \subseteq flushed', flushed' \subseteq Extension!EventsIn(appended),
           flushed' \subseteq received',
         received \subseteq received', excused \subseteq excused',
         ended' \subseteq ended \cup received' \cup Extension!EventsIn(appended) \cup excused'
  PROVE  Accounted'
<1>1. \A p \in Procs : Extension!EventsIn(procs'[p].snap) \subseteq Extension!EventsIn(appended)
  BY EmptyIn DEF Accounted, LeavesBuffer
<1>2. \A p \in Procs : procs'[p].task = "flush" =>
        \A i \in DOMAIN procs'[p].snap : i <= procs'[p].sent => procs'[p].snap[i] \in flushed'
  BY DEF Accounted, LeavesBuffer
<1>3. Extension!EventsIn(appended)' = Extension!EventsIn(appended)
      /\ Extension!EventsIn(buffer)' = Extension!EventsIn(buffer)
  BY DEF Extension!EventsIn
<1> QED
  BY <1>1, <1>2, <1>3 DEF Accounted

LEMMA CalmRest ==
  ASSUME Shape, BufferCalm, \A q \in Procs : LeavesBuffer(procs[q], procs'[q]),
         UNCHANGED <<appended, buffer, overlap>>,
         flushed \subseteq flushed', excused \subseteq excused', Extension!FlushedInOrder'
  PROVE  BufferCalm'
<1>1. \A q \in Procs : At(procs'[q]) => At(procs[q]) /\ procs'[q].snap = procs[q].snap
  BY DEF LeavesBuffer
<1>2. \A q \in Procs : (Extension!AtBuffer(q) <=> At(procs[q]))
      /\ (Extension!AtBuffer(q)' <=> At(procs'[q]))
  BY DEF Extension!AtBuffer, At
<1>3. LastOnes => LastOnes'
  BY DEF LastOnes, Dropped
<1> QED
  BY <1>1, <1>2, <1>3 DEF BufferCalm

\* A step of the client that leaves the buffer and tells no event.
LEMMA EventsRest ==
  ASSUME Shape, Shape', EventsInv, \A q \in Procs : GoesOn(procs[q], procs'[q]),
         UNCHANGED <<appended, buffer, overlap, flushed>>, used.calls <= used'.calls,
         received \subseteq received', excused \subseteq excused',
         ended' \subseteq ended \cup received' \cup Extension!EventsIn(appended) \cup excused'
  PROVE  EventsInv'
<1>1. OwnEvents'
  BY OwnEventsRest DEF EventsInv, GoesOn
<1>2. Accounted'
  <2>1. flushed' \subseteq Extension!EventsIn(appended) /\ flushed' \subseteq received'
    BY DEF EventsInv, Accounted
  <2> QED
    BY <2>1, AccountedRest DEF EventsInv, GoesOn
<1>3. Extension!FlushedInOrder'
  BY DEF EventsInv, BufferCalm, Extension!FlushedInOrder
<1>4. BufferCalm'
  BY <1>3, CalmRest DEF EventsInv, GoesOn
<1> QED
  BY <1>1, <1>2, <1>4 DEF EventsInv

LEMMA EventsInit == ASSUME Extension!Init PROVE EventsInv
<1>1. /\ appended = <<>> /\ buffer = <<>> /\ flushed = {} /\ ended = {}
      /\ \A p \in Procs : procs[p] = Extension!Idle
  BY DEF Extension!Init
<1>2. Extension!EventsIn(appended) = {} /\ Extension!EventsIn(buffer) = {}
  BY <1>1, EmptyIn
<1>3. Extension!Idle.event.id = 0 /\ Extension!Idle.snap = <<>> /\ Extension!Idle.task = "none"
      /\ Extension!Idle.pc = "idle"
  BY DEF Extension!Idle, Extension!NoEvent, Extension!Event
<1>4. used.calls = 0
  BY DEF Extension!Init, Extension!Bounds
<1>5. OwnEvents
  BY <1>1, <1>3, <1>4 DEF OwnEvents
<1>6. Accounted
  BY <1>1, <1>2, <1>3, EmptyIn DEF Accounted
<1>7. BufferCalm
  BY <1>1, <1>3 DEF BufferCalm, Extension!AtBuffer, LastOnes, Dropped, Extension!FlushedInOrder
<1> QED
  BY <1>5, <1>6, <1>7 DEF EventsInv

LEMMA UseMore ==
  ASSUME Shape, NEW b \in {"calls", "agings", "faults"}, Extension!CanUse(b), Extension!Use(b)
  PROVE  used.calls <= used'.calls
<1>1. used \in UsedBounds /\ used.calls <= MaxCalls /\ used.calls \in Nat
  BY DEF Shape, ClientTyped, UsedBounds
<1>2. used'.calls = IF b = "calls" THEN used.calls + 1 ELSE used.calls
  BY <1>1, UseTyped
<1> QED
  BY <1>1, <1>2

LEMMA SameUse == ASSUME Shape, used' = used PROVE used.calls <= used'.calls
  BY DEF Shape, ClientTyped, UsedBounds

LEMMA StartFlushEvents ==
  ASSUME Shape, EventsInv, NEW p \in Procs, Extension!StartFlush(p)
  PROVE  Shape' /\ EventsInv'
<1>1. Shape' /\ \A q \in Procs : GoesOn(procs[q], procs'[q])
  BY StartFlushStep
<1>2. used.calls <= used'.calls
  BY UseMore DEF Extension!StartFlush
<1>3. /\ UNCHANGED <<appended, buffer, overlap, flushed>> /\ received \subseteq received'
      /\ excused \subseteq excused'
      /\ ended' \subseteq ended \cup received' \cup Extension!EventsIn(appended) \cup excused'
  BY DEF Extension!StartFlush, Extension!SameHistory, Extension!SameStore, Extension!history,
     Extension!client, Extension!HasEnded
<1> QED
  BY <1>1, <1>2, <1>3, EventsRest

LEMMA StartRefreshEvents ==
  ASSUME Shape, EventsInv, NEW p \in Procs, Extension!StartRefresh(p)
  PROVE  Shape' /\ EventsInv'
<1>1. Shape' /\ \A q \in Procs : GoesOn(procs[q], procs'[q])
  BY StartRefreshStep
<1>2. used.calls <= used'.calls
  BY UseMore DEF Extension!StartRefresh
<1>3. /\ UNCHANGED <<appended, buffer, overlap, flushed>> /\ received \subseteq received'
      /\ excused \subseteq excused'
      /\ ended' \subseteq ended \cup received' \cup Extension!EventsIn(appended) \cup excused'
  BY DEF Extension!StartRefresh, Extension!SameHistory, Extension!SameStore, Extension!history,
     Extension!client, Extension!HasEnded
<1> QED
  BY <1>1, <1>2, <1>3, EventsRest

LEMMA ReadSessionEvents ==
  ASSUME Shape, EventsInv, NEW p \in Procs, Extension!ReadSession(p)
  PROVE  Shape' /\ EventsInv'
<1>1. Shape' /\ \A q \in Procs : GoesOn(procs[q], procs'[q])
  BY ReadSessionStep
<1>2. used.calls <= used'.calls
  BY SameUse DEF Extension!ReadSession, Extension!SameHistory, Extension!history, Extension!client
<1>3. /\ UNCHANGED <<appended, buffer, overlap, flushed>> /\ received \subseteq received'
      /\ excused \subseteq excused'
      /\ ended' \subseteq ended \cup received' \cup Extension!EventsIn(appended) \cup excused'
  BY DEF Extension!ReadSession, Extension!SameHistory, Extension!SameStore, Extension!history,
     Extension!client, Extension!HasEnded
<1> QED
  BY <1>1, <1>2, <1>3, EventsRest

LEMMA SendAcceptedEvents ==
  ASSUME Shape, EventsInv, NEW p \in Procs, Extension!SendAccepted(p)
  PROVE  Shape' /\ EventsInv'
<1>1. Shape' /\ \A q \in Procs : GoesOn(procs[q], procs'[q])
  BY SendAcceptedStep
<1>2. used.calls <= used'.calls
  BY SameUse DEF Extension!SendAccepted, Extension!SameHistory, Extension!history, Extension!client
<1>3. /\ UNCHANGED <<appended, buffer, overlap, flushed>> /\ received \subseteq received'
      /\ excused \subseteq excused'
      /\ ended' \subseteq ended \cup received' \cup Extension!EventsIn(appended) \cup excused'
  BY DEF Extension!SendAccepted, Extension!SameHistory, Extension!SameStore, Extension!history,
     Extension!client, Extension!HasEnded
<1> QED
  BY <1>1, <1>2, <1>3, EventsRest

LEMMA SendRefusedEvents ==
  ASSUME Shape, EventsInv, NEW p \in Procs, Extension!SendRefused(p)
  PROVE  Shape' /\ EventsInv'
<1>1. Shape' /\ \A q \in Procs : GoesOn(procs[q], procs'[q])
  BY SendRefusedStep
<1>2. used.calls <= used'.calls
  BY UseMore DEF Extension!SendRefused
<1>3. /\ UNCHANGED <<appended, buffer, overlap, flushed>> /\ received \subseteq received'
      /\ excused \subseteq excused'
      /\ ended' \subseteq ended \cup received' \cup Extension!EventsIn(appended) \cup excused'
  BY DEF Extension!SendRefused, Extension!SameHistory, Extension!SameStore, Extension!history,
     Extension!client, Extension!HasEnded
<1> QED
  BY <1>1, <1>2, <1>3, EventsRest

LEMMA SendFailsEvents ==
  ASSUME Shape, EventsInv, NEW p \in Procs, Extension!SendFails(p)
  PROVE  Shape' /\ EventsInv'
<1>1. Shape' /\ \A q \in Procs : GoesOn(procs[q], procs'[q])
  BY SendFailsStep
<1>2. used.calls <= used'.calls
  BY UseMore DEF Extension!SendFails
<1>3. /\ UNCHANGED <<appended, buffer, overlap, flushed>> /\ received \subseteq received'
      /\ excused \subseteq excused'
      /\ ended' \subseteq ended \cup received' \cup Extension!EventsIn(appended) \cup excused'
  BY DEF Extension!SendFails, Extension!SameHistory, Extension!SameStore, Extension!history,
     Extension!client, Extension!HasEnded
<1> QED
  BY <1>1, <1>2, <1>3, EventsRest

LEMMA SendUnauthorizedEvents ==
  ASSUME Shape, EventsInv, NEW p \in Procs, Extension!SendUnauthorized(p)
  PROVE  Shape' /\ EventsInv'
<1>1. Shape' /\ \A q \in Procs : GoesOn(procs[q], procs'[q])
  BY SendUnauthorizedStep
<1>2. used.calls <= used'.calls
  BY SameUse
     DEF Extension!SendUnauthorized, Extension!SameHistory, Extension!history, Extension!client
<1>3. /\ UNCHANGED <<appended, buffer, overlap, flushed>> /\ received \subseteq received'
      /\ excused \subseteq excused'
      /\ ended' \subseteq ended \cup received' \cup Extension!EventsIn(appended) \cup excused'
  BY DEF Extension!SendUnauthorized, Extension!SameHistory, Extension!SameStore, Extension!history,
     Extension!client, Extension!HasEnded
<1> QED
  BY <1>1, <1>2, <1>3, EventsRest

LEMMA BindRevokesEvents ==
  ASSUME Shape, EventsInv, NEW p \in Procs, Extension!BindRevokes(p)
  PROVE  Shape' /\ EventsInv'
<1>1. Shape' /\ \A q \in Procs : GoesOn(procs[q], procs'[q])
  BY BindRevokesStep
<1>2. used.calls <= used'.calls
  BY SameUse DEF Extension!BindRevokes, Extension!SameHistory, Extension!history, Extension!client
<1>3. /\ UNCHANGED <<appended, buffer, overlap, flushed>> /\ received \subseteq received'
      /\ excused \subseteq excused'
      /\ ended' \subseteq ended \cup received' \cup Extension!EventsIn(appended) \cup excused'
  BY DEF Extension!BindRevokes, Extension!SameHistory, Extension!SameStore, Extension!history,
     Extension!client, Extension!HasEnded
<1> QED
  BY <1>1, <1>2, <1>3, EventsRest

LEMMA BindIssuesEvents ==
  ASSUME Shape, EventsInv, NEW p \in Procs, Extension!BindIssues(p)
  PROVE  Shape' /\ EventsInv'
<1>1. Shape' /\ \A q \in Procs : GoesOn(procs[q], procs'[q])
  BY BindIssuesStep
<1>2. used.calls <= used'.calls
  BY SameUse DEF Extension!BindIssues, Extension!SameHistory, Extension!history, Extension!client
<1>3. /\ UNCHANGED <<appended, buffer, overlap, flushed>> /\ received \subseteq received'
      /\ excused \subseteq excused'
      /\ ended' \subseteq ended \cup received' \cup Extension!EventsIn(appended) \cup excused'
  BY DEF Extension!BindIssues, Extension!SameHistory, Extension!SameStore, Extension!history,
     Extension!client, Extension!HasEnded
<1> QED
  BY <1>1, <1>2, <1>3, EventsRest

LEMMA BindSavedEvents ==
  ASSUME Shape, EventsInv, NEW p \in Procs, Extension!BindSaved(p)
  PROVE  Shape' /\ EventsInv'
<1>1. Shape' /\ \A q \in Procs : GoesOn(procs[q], procs'[q])
  BY BindSavedStep
<1>2. used.calls <= used'.calls
  BY SameUse DEF Extension!BindSaved, Extension!SameHistory, Extension!history, Extension!client
<1>3. /\ UNCHANGED <<appended, buffer, overlap, flushed>> /\ received \subseteq received'
      /\ excused \subseteq excused'
      /\ ended' \subseteq ended \cup received' \cup Extension!EventsIn(appended) \cup excused'
  BY DEF Extension!BindSaved, Extension!SameHistory, Extension!SameStore, Extension!history,
     Extension!client, Extension!HasEnded
<1> QED
  BY <1>1, <1>2, <1>3, EventsRest

LEMMA BindFailsEvents ==
  ASSUME Shape, EventsInv, NEW p \in Procs, Extension!BindFails(p)
  PROVE  Shape' /\ EventsInv'
<1>1. Shape' /\ \A q \in Procs : GoesOn(procs[q], procs'[q])
  BY BindFailsStep
<1>2. used.calls <= used'.calls
  BY UseMore DEF Extension!BindFails
<1>3. /\ UNCHANGED <<appended, buffer, overlap, flushed>> /\ received \subseteq received'
      /\ excused \subseteq excused'
      /\ ended' \subseteq ended \cup received' \cup Extension!EventsIn(appended) \cup excused'
  BY DEF Extension!BindFails, Extension!SameHistory, Extension!SameStore, Extension!history,
     Extension!client, Extension!HasEnded
<1> QED
  BY <1>1, <1>2, <1>3, EventsRest

LEMMA RefreshReplyEvents ==
  ASSUME Shape, EventsInv, NEW r \in DOMAIN handlers, Extension!RefreshReply(r)
  PROVE  Shape' /\ EventsInv'
<1>1. Shape' /\ \A q \in Procs : GoesOn(procs[q], procs'[q])
  BY RefreshReplyStep
<1>2. used.calls <= used'.calls
  BY SameUse DEF Extension!RefreshReply, Extension!SameHistory, Extension!history, Extension!client
<1>3. /\ UNCHANGED <<appended, buffer, overlap, flushed>> /\ received \subseteq received'
      /\ excused \subseteq excused'
      /\ ended' \subseteq ended \cup received' \cup Extension!EventsIn(appended) \cup excused'
  BY DEF Extension!RefreshReply, Extension!SameHistory, Extension!SameStore, Extension!history,
     Extension!client, Extension!HasEnded
<1> QED
  BY <1>1, <1>2, <1>3, EventsRest

LEMMA RefreshFailsEvents ==
  ASSUME Shape, EventsInv, NEW r \in DOMAIN handlers, Extension!RefreshFails(r)
  PROVE  Shape' /\ EventsInv'
<1>1. Shape' /\ \A q \in Procs : GoesOn(procs[q], procs'[q])
  BY RefreshFailsStep
<1>2. used.calls <= used'.calls
  BY UseMore DEF Extension!RefreshFails
<1>3. /\ UNCHANGED <<appended, buffer, overlap, flushed>> /\ received \subseteq received'
      /\ excused \subseteq excused'
      /\ ended' \subseteq ended \cup received' \cup Extension!EventsIn(appended) \cup excused'
  BY DEF Extension!RefreshFails, Extension!SameHistory, Extension!SameStore, Extension!history,
     Extension!client, Extension!HasEnded
<1> QED
  BY <1>1, <1>2, <1>3, EventsRest

LEMMA HandlerResolvesEvents ==
  ASSUME Shape, EventsInv, NEW r \in DOMAIN handlers, Extension!HandlerResolves(r)
  PROVE  Shape' /\ EventsInv'
<1>1. Shape' /\ \A q \in Procs : GoesOn(procs[q], procs'[q])
  BY HandlerResolvesStep, StayingGoesOn
<1>2. used.calls <= used'.calls
  BY SameUse
     DEF Extension!HandlerResolves, Extension!SameHistory, Extension!history, Extension!client
<1>3. /\ UNCHANGED <<appended, buffer, overlap, flushed>> /\ received \subseteq received'
      /\ excused \subseteq excused'
      /\ ended' \subseteq ended \cup received' \cup Extension!EventsIn(appended) \cup excused'
  BY DEF Extension!HandlerResolves, Extension!SameHistory, Extension!SameStore, Extension!history,
     Extension!client, Extension!HasEnded
<1> QED
  BY <1>1, <1>2, <1>3, EventsRest

LEMMA HandlerRevokesEvents ==
  ASSUME Shape, EventsInv, NEW r \in DOMAIN handlers, Extension!HandlerRevokes(r)
  PROVE  Shape' /\ EventsInv'
<1>1. Shape' /\ \A q \in Procs : GoesOn(procs[q], procs'[q])
  BY HandlerRevokesStep, StayingGoesOn
<1>2. used.calls <= used'.calls
  BY SameUse
     DEF Extension!HandlerRevokes, Extension!SameHistory, Extension!history, Extension!client
<1>3. /\ UNCHANGED <<appended, buffer, overlap, flushed>> /\ received \subseteq received'
      /\ excused \subseteq excused'
      /\ ended' \subseteq ended \cup received' \cup Extension!EventsIn(appended) \cup excused'
  BY DEF Extension!HandlerRevokes, Extension!SameHistory, Extension!SameStore, Extension!history,
     Extension!client, Extension!HasEnded
<1> QED
  BY <1>1, <1>2, <1>3, EventsRest

LEMMA HandlerIssuesEvents ==
  ASSUME Shape, EventsInv, NEW r \in DOMAIN handlers, Extension!HandlerIssues(r)
  PROVE  Shape' /\ EventsInv'
<1>1. Shape' /\ \A q \in Procs : GoesOn(procs[q], procs'[q])
  BY HandlerIssuesStep, StayingGoesOn
<1>2. used.calls <= used'.calls
  BY SameUse DEF Extension!HandlerIssues, Extension!SameHistory, Extension!history, Extension!client
<1>3. /\ UNCHANGED <<appended, buffer, overlap, flushed>> /\ received \subseteq received'
      /\ excused \subseteq excused'
      /\ ended' \subseteq ended \cup received' \cup Extension!EventsIn(appended) \cup excused'
  BY DEF Extension!HandlerIssues, Extension!SameHistory, Extension!SameStore, Extension!history,
     Extension!client, Extension!HasEnded
<1> QED
  BY <1>1, <1>2, <1>3, EventsRest

LEMMA RestartEvents ==
  ASSUME Shape, EventsInv, Extension!Restart
  PROVE  Shape' /\ EventsInv'
<1>1. Shape' /\ \A q \in Procs : GoesOn(procs[q], procs'[q])
  BY RestartStep
<1>2. used.calls <= used'.calls
  BY UseMore DEF Extension!Restart
<1>3. /\ UNCHANGED <<appended, buffer, overlap, flushed>> /\ received \subseteq received'
      /\ excused \subseteq excused'
      /\ ended' \subseteq ended \cup received' \cup Extension!EventsIn(appended) \cup excused'
  BY DEF Extension!Restart, Extension!SameHistory, Extension!SameStore, Extension!history,
     Extension!client, Extension!HasEnded
<1> QED
  BY <1>1, <1>2, <1>3, EventsRest

LEMMA OtherEvents ==
  ASSUME Shape, EventsInv, Extension!SiteRevokes \/ Extension!SiteIssues
         \/ \E t \in DOMAIN tokens : Extension!SessionAges(t)
  PROVE  Shape' /\ EventsInv'
<1>1. Shape' /\ procs' = procs
  BY SiteStep, SessionAgesStep
<1>2. \A q \in Procs : GoesOn(procs[q], procs'[q])
  BY <1>1, StayingGoesOn
<1>3. used.calls <= used'.calls
  <2>1. CASE Extension!SiteRevokes
    BY <2>1, UseMore DEF Extension!SiteRevokes
  <2>2. CASE Extension!SiteIssues
    BY <2>2, SameUse DEF Extension!SiteIssues
  <2>3. CASE \E t \in DOMAIN tokens : Extension!SessionAges(t)
    BY <2>3, UseMore DEF Extension!SessionAges
  <2> QED
    BY <2>1, <2>2, <2>3
<1>4. UNCHANGED <<appended, buffer, overlap, flushed, received, excused, ended>>
  BY DEF Extension!SiteRevokes, Extension!SiteIssues, Extension!SessionAges, Extension!client,
     Extension!history
<1> QED
  BY <1>1, <1>2, <1>3, <1>4, EventsRest

\* A call that starts has an event of its own, or none.
LEMMA OneStarts ==
  ASSUME Shape, Shape', OwnEvents, NEW p \in Procs, \A q \in Procs \ {p} : procs'[q] = procs[q],
         procs'[p].event.id \in {0, used.calls + 1}, procs'[p].pc # "check",
         appended' = appended, used'.calls = used.calls + 1
  PROVE  OwnEvents'
<1>1. /\ used.calls \in Nat /\ \A q \in Procs : procs[q].event.id \in Nat
      /\ \A i \in DOMAIN appended : appended[i].id \in Nat
  BY IdsTyped
<1>2. Extension!EventsIn(appended)' = Extension!EventsIn(appended)
  BY DEF Extension!EventsIn
<1>3. \A q \in Procs : procs'[q].event.id <= used'.calls
  BY <1>1 DEF OwnEvents
<1>4. \A q, r \in Procs : procs'[q].event.id # 0 /\ procs'[q].event.id = procs'[r].event.id => q = r
  <2>1. ASSUME NEW q \in Procs, NEW r \in Procs, procs'[q].event.id # 0,
               procs'[q].event.id = procs'[r].event.id, q # r
        PROVE  FALSE
    <3>1. CASE q # p /\ r # p
      BY <2>1, <3>1 DEF OwnEvents
    <3>2. CASE q = p
      <4>1. procs'[q].event.id = used.calls + 1 /\ procs'[r] = procs[r]
            /\ procs[r].event.id <= used.calls
        BY <2>1, <3>2 DEF OwnEvents
      <4>2. procs[r].event.id \in Nat /\ used.calls \in Nat
        BY <1>1
      <4>3. procs[r].event.id = used.calls + 1
        BY <2>1, <4>1
      <4> QED
        BY <4>1, <4>2, <4>3
    <3>3. CASE r = p
      <4>1. procs'[r].event.id = used.calls + 1 /\ procs'[q] = procs[q]
            /\ procs[q].event.id <= used.calls
        BY <2>1, <3>3 DEF OwnEvents
      <4>2. procs[q].event.id \in Nat /\ used.calls \in Nat
        BY <1>1
      <4>3. procs[q].event.id = used.calls + 1
        BY <2>1, <4>1
      <4> QED
        BY <4>1, <4>2, <4>3
    <3> QED
      BY <3>1, <3>2, <3>3
  <2> QED
    BY <2>1
<1>5. \A i \in DOMAIN appended : appended[i].id # 0 /\ appended[i].id <= used'.calls
  BY <1>1 DEF OwnEvents
<1>6. ASSUME NEW q \in Procs, procs'[q].event.id # 0
      PROVE  /\ Extension!Event(procs'[q].event.id,
                  "reconnect_requested") \notin Extension!EventsIn(appended)
             /\ procs'[q].pc = "check" <=> procs'[q].event \in Extension!EventsIn(appended)
  <2>1. CASE q # p
    BY <1>6, <2>1 DEF OwnEvents, Told
  <2>2. CASE q = p
    <3>1. \A e \in Extension!EventsIn(appended) : e.id # used.calls + 1
      BY <1>1 DEF OwnEvents, Extension!EventsIn
    <3>2. Extension!Event(used.calls + 1, "reconnect_requested").id = used.calls + 1
      BY DEF Extension!Event
    <3> QED
      BY <1>6, <2>2, <3>1, <3>2
  <2> QED
    BY <2>1, <2>2
<1> QED
  BY <1>2, <1>3, <1>4, <1>5, <1>6 DEF OwnEvents, Told

LEMMA StartSendEvents ==
  ASSUME Shape, EventsInv, NEW p \in Procs, Extension!StartSend(p)
  PROVE  Shape' /\ EventsInv'
<1>1. /\ Shape' /\ \A q \in Procs : LeavesBuffer(procs[q], procs'[q])
      /\ procs'[p].event.id \in {0, used.calls + 1} /\ procs'[p].pc # "check"
  BY StartSendStep
<1>2. \A q \in Procs \ {p} : procs'[q] = procs[q]
  BY OthersStay DEF Extension!StartSend
<1>3. /\ UNCHANGED <<appended, buffer, overlap, flushed, received, excused, ended>>
      /\ used'.calls = used.calls + 1
  BY UseTyped
     DEF Extension!StartSend, Extension!SameHistory, Extension!SameStore, Extension!history, Shape,
       ClientTyped
<1>4. OwnEvents'
  BY <1>1, <1>2, <1>3, OneStarts DEF EventsInv
<1>5. Accounted'
  <2>1. flushed' \subseteq Extension!EventsIn(appended) /\ flushed' \subseteq received'
    BY <1>3 DEF EventsInv, Accounted
  <2>2. ended' \subseteq ended \cup received' \cup Extension!EventsIn(appended) \cup excused'
    BY <1>3
  <2> QED
    BY <1>1, <1>3, <2>1, <2>2, AccountedRest DEF EventsInv
<1>6. Extension!FlushedInOrder'
  BY <1>3 DEF EventsInv, BufferCalm, Extension!FlushedInOrder
<1>7. BufferCalm'
  BY <1>1, <1>3, <1>6, CalmRest DEF EventsInv
<1> QED
  BY <1>1, <1>4, <1>5, <1>7 DEF EventsInv

LEMMA StartConnectEvents ==
  ASSUME Shape, EventsInv, NEW p \in Procs, Extension!StartConnect(p)
  PROVE  Shape' /\ EventsInv'
<1>1. /\ Shape' /\ \A q \in Procs : LeavesBuffer(procs[q], procs'[q])
      /\ procs'[p].event.id \in {0, used.calls + 1} /\ procs'[p].pc # "check"
  BY StartConnectStep
<1>2. \A q \in Procs \ {p} : procs'[q] = procs[q]
  BY OthersStay DEF Extension!StartConnect
<1>3. /\ UNCHANGED <<appended, buffer, overlap, flushed, received, excused, ended>>
      /\ used'.calls = used.calls + 1
  BY UseTyped
     DEF Extension!StartConnect, Extension!SameHistory, Extension!SameStore, Extension!history,
       Shape, ClientTyped
<1>4. OwnEvents'
  BY <1>1, <1>2, <1>3, OneStarts DEF EventsInv
<1>5. Accounted'
  <2>1. flushed' \subseteq Extension!EventsIn(appended) /\ flushed' \subseteq received'
    BY <1>3 DEF EventsInv, Accounted
  <2>2. ended' \subseteq ended \cup received' \cup Extension!EventsIn(appended) \cup excused'
    BY <1>3
  <2> QED
    BY <1>1, <1>3, <2>1, <2>2, AccountedRest DEF EventsInv
<1>6. Extension!FlushedInOrder'
  BY <1>3 DEF EventsInv, BufferCalm, Extension!FlushedInOrder
<1>7. BufferCalm'
  BY <1>1, <1>3, <1>6, CalmRest DEF EventsInv
<1> QED
  BY <1>1, <1>4, <1>5, <1>7 DEF EventsInv

\* A call reads the buffer.
LEMMA SnapTaken ==
  ASSUME Shape, Shape', EventsInv, NEW p \in Procs, \A q \in Procs \ {p} : procs'[q] = procs[q],
         \/ procs'[p] = Extension!Idle
         \/ procs'[p].snap = buffer /\ (procs'[p].task = "flush" => procs'[p].sent = 0),
         UNCHANGED <<appended, buffer, flushed, received, excused, ended>>,
         overlap' = (overlap \/ \E q \in Procs \ {p} : Extension!AtBuffer(q))
  PROVE  Accounted' /\ BufferCalm'
<1>1. Extension!EventsIn(appended)' = Extension!EventsIn(appended)
      /\ Extension!EventsIn(buffer)' = Extension!EventsIn(buffer)
  BY DEF Extension!EventsIn
<1>2. Extension!Idle.snap = <<>> /\ Extension!Idle.task = "none" /\ Extension!Idle.pc = "idle"
  BY DEF Extension!Idle
<1>3. procs'[p].snap = <<>> \/ procs'[p].snap = buffer
  BY <1>2
<1>4. \A q \in Procs : Extension!EventsIn(procs'[q].snap) \subseteq Extension!EventsIn(appended)
  BY <1>3, EmptyIn DEF EventsInv, Accounted
<1>5. ASSUME NEW q \in Procs, procs'[q].task = "flush", NEW i \in DOMAIN procs'[q].snap,
             i <= procs'[q].sent
      PROVE  procs'[q].snap[i] \in flushed
  <2>1. CASE q = p
    <3>1. procs'[q].snap = buffer /\ procs'[q].sent = 0
      BY <1>2, <1>5, <2>1
    <3>2. i \in 1..Len(buffer)
      BY <1>5, <3>1 DEF Shape, ClientTyped
    <3> QED
      BY <1>5, <3>1, <3>2
  <2>2. CASE q # p
    BY <1>5, <2>2 DEF EventsInv, Accounted
  <2> QED
    BY <2>1, <2>2
<1>6. Accounted'
  BY <1>1, <1>4, <1>5 DEF EventsInv, Accounted
<1>7. ASSUME ~overlap' PROVE BufferCalm'
  <2>1. ~overlap /\ \A q \in Procs \ {p} : ~Extension!AtBuffer(q)
    BY <1>7 DEF Shape, ClientTyped
  <2>2. \A q \in Procs \ {p} : ~Extension!AtBuffer(q)'
    BY <2>1 DEF Extension!AtBuffer
  <2>3. Extension!AtBuffer(p)' => procs'[p].snap = buffer
    BY <1>2 DEF Extension!AtBuffer
  <2>4. LastOnes' /\ Extension!FlushedInOrder'
    BY <2>1 DEF EventsInv, BufferCalm, LastOnes, Dropped, Extension!FlushedInOrder
  <2> QED
    BY <2>2, <2>3, <2>4 DEF BufferCalm
<1>8. BufferCalm'
  BY <1>7 DEF BufferCalm
<1> QED
  BY <1>6, <1>8

LEMMA AppendReadsEvents ==
  ASSUME Shape, EventsInv, NEW p \in Procs, Extension!AppendReads(p)
  PROVE  Shape' /\ EventsInv'
<1>1. /\ Shape' /\ \A q \in Procs : TellsNone(procs[q], procs'[q])
      /\ \A q \in Procs \ {p} : procs'[q] = procs[q]
      /\ procs'[p].pc = "store" /\ procs'[p].task = "send" /\ procs'[p].snap = buffer
  BY AppendReadsStep
<1>2. /\ UNCHANGED <<appended, buffer, flushed, received, excused, ended, used>>
      /\ overlap' = (overlap \/ \E q \in Procs \ {p} : Extension!AtBuffer(q))
  BY DEF Extension!AppendReads, Extension!SameStore, Extension!Meets
<1>3. OwnEvents'
  BY <1>1, <1>2, SameUse, OwnEventsRest DEF EventsInv
<1>4. Accounted' /\ BufferCalm'
  BY <1>1, <1>2, SnapTaken
<1> QED
  BY <1>1, <1>3, <1>4 DEF EventsInv

LEMMA FlushReadsEvents ==
  ASSUME Shape, EventsInv, NEW p \in Procs, Extension!FlushReads(p)
  PROVE  Shape' /\ EventsInv'
<1>1. /\ Shape' /\ \A q \in Procs : TellsNone(procs[q], procs'[q])
      /\ \A q \in Procs \ {p} : procs'[q] = procs[q]
      /\ procs'[p] = Extension!Idle
         \/ (procs'[p].pc = "session" /\ procs'[p].snap = buffer /\ procs'[p].sent = 0)
  BY FlushReadsStep
<1>2. /\ UNCHANGED <<appended, buffer, flushed, received, excused, ended, used>>
      /\ overlap' = (overlap \/ \E q \in Procs \ {p} : Extension!AtBuffer(q))
  BY DEF Extension!FlushReads, Extension!SameStore, Extension!Meets
<1>3. OwnEvents'
  BY <1>1, <1>2, SameUse, OwnEventsRest DEF EventsInv
<1>4. Accounted' /\ BufferCalm'
  BY <1>1, <1>2, SnapTaken
<1> QED
  BY <1>1, <1>3, <1>4 DEF EventsInv

\* What is left of a sequence after its first m elements.
LEMMA SubSeqTail ==
  ASSUME NEW S, NEW s \in Seq(S), NEW m \in Nat, m <= Len(s), NEW t, t = SubSeq(s, m + 1, Len(s))
  PROVE  /\ t \in Seq(S) /\ Len(t) = Len(s) - m /\ DOMAIN t = 1..(Len(s) - m)
         /\ \A i \in 1..(Len(s) - m) : t[i] = s[m + i]
<1>1. SubSeq(s, m + 1, Len(s)) \in Seq(S)
  OBVIOUS
<1>2. Len(SubSeq(s, m + 1, Len(s))) = Len(s) - m
  OBVIOUS
<1>3. ASSUME NEW i \in 1..(Len(s) - m) PROVE SubSeq(s, m + 1, Len(s))[i] = s[m + 1 + i - 1]
  OBVIOUS
<1>4. \A i \in 1..(Len(s) - m) : t[i] = s[m + i]
  BY <1>3
<1> QED
  BY <1>1, <1>2, <1>4

LEMMA FlushWritesEvents ==
  ASSUME Shape, EventsInv, NEW p \in Procs, Extension!FlushWrites(p)
  PROVE  Shape' /\ EventsInv'
<1>1. /\ Shape' /\ \A q \in Procs : GoesOn(procs[q], procs'[q])
      /\ \A q \in Procs \ {p} : procs'[q] = procs[q]
      /\ procs'[p] = Extension!Idle /\ procs[p].sent <= Len(procs[p].snap)
  BY FlushWritesStep
<1>2. /\ UNCHANGED <<appended, flushed, received, excused, ended, used, overlap>>
      /\ buffer' = SubSeq(procs[p].snap, procs[p].sent + 1, Len(procs[p].snap))
      /\ procs[p].pc = "rest"
  BY DEF Extension!FlushWrites, Extension!SameHistory, Extension!history
<1>3. OwnEvents'
  BY <1>1, <1>2, SameUse, OwnEventsRest DEF EventsInv, GoesOn
<1>4. PICK snap : snap = procs[p].snap
  OBVIOUS
<1>5. PICK taken : taken = procs[p].sent
  OBVIOUS
<1>6. snap \in Seq(Extension!Events) /\ taken \in Nat /\ taken <= Len(snap) /\ Len(snap) \in Nat
  BY <1>1, <1>4, <1>5, SnapTyped
<1>7. /\ Len(buffer') = Len(snap) - taken /\ DOMAIN buffer' = 1..(Len(snap) - taken)
      /\ \A i \in 1..(Len(snap) - taken) : buffer'[i] = snap[taken + i]
  <2>1. PICK tail : tail = buffer'
    OBVIOUS
  <2>2. tail = SubSeq(snap, taken + 1, Len(snap))
    BY <1>2, <1>4, <1>5, <2>1
  <2>3. /\ Len(tail) = Len(snap) - taken /\ DOMAIN tail = 1..(Len(snap) - taken)
        /\ \A i \in 1..(Len(snap) - taken) : tail[i] = snap[taken + i]
    BY <1>6, <2>2, SubSeqTail
  <2> QED
    BY <2>1, <2>3
<1>8. Extension!EventsIn(buffer') \subseteq Extension!EventsIn(snap)
  BY <1>6, <1>7 DEF Extension!EventsIn
<1>9. Extension!EventsIn(appended)' = Extension!EventsIn(appended)
  BY <1>2 DEF Extension!EventsIn
<1>10. Accounted'
  <2>1. Extension!EventsIn(buffer') \subseteq Extension!EventsIn(appended)
    BY <1>4, <1>8 DEF EventsInv, Accounted
  <2>2. \A q \in Procs : Extension!EventsIn(procs'[q].snap) \subseteq Extension!EventsIn(appended)
    BY <1>1, EmptyIn DEF EventsInv, Accounted, GoesOn, LeavesBuffer
  <2>3. \A q \in Procs : procs'[q].task = "flush" =>
          \A i \in DOMAIN procs'[q].snap : i <= procs'[q].sent => procs'[q].snap[i] \in flushed
    BY <1>1 DEF EventsInv, Accounted, GoesOn, LeavesBuffer
  <2> QED
    BY <1>2, <1>9, <2>1, <2>2, <2>3 DEF EventsInv, Accounted
<1>11. ASSUME ~overlap PROVE BufferCalm'
  <2>1. Extension!AtBuffer(p)
    BY <1>2 DEF Extension!AtBuffer, Shape, Holds
  <2>2. snap = buffer /\ LastOnes /\ Extension!FlushedInOrder
    BY <1>4, <1>11, <2>1 DEF EventsInv, BufferCalm
  <2>3. \A q \in Procs : ~Extension!AtBuffer(q)'
    <3>1. ASSUME NEW q \in Procs \ {p} PROVE ~Extension!AtBuffer(q)'
      <4>1. ~Extension!AtBuffer(q)
        BY <1>11, <2>1 DEF EventsInv, BufferCalm
      <4> QED
        BY <1>1, <4>1 DEF Extension!AtBuffer
    <3>2. ~Extension!AtBuffer(p)'
      BY <1>1 DEF Extension!AtBuffer, Extension!Idle
    <3> QED
      BY <3>1, <3>2
  <2>4. /\ Len(appended) \in Nat /\ Len(buffer) \in Nat /\ DOMAIN appended = 1..Len(appended)
        /\ DOMAIN buffer = 1..Len(buffer)
    BY DEF Shape, ClientTyped
  <2>5. LastOnes'
    <3>1. Dropped' = Dropped + taken /\ Dropped \in Int
      <4>1. Len(appended') = Len(appended) /\ Len(buffer') = Len(buffer) - taken
        BY <1>2, <1>7, <2>2
      <4>2. Dropped' = Len(appended) - (Len(buffer) - taken)
        BY <4>1 DEF Dropped
      <4> QED
        BY <1>6, <2>4, <4>2 DEF Dropped
    <3>2. Len(buffer') <= Len(appended)
      BY <1>6, <1>7, <2>2, <2>4 DEF LastOnes
    <3>3. ASSUME NEW i \in DOMAIN buffer' PROVE buffer'[i] = appended[Dropped' + i]
      <4>1. i \in Nat /\ taken + i \in DOMAIN buffer /\ buffer'[i] = buffer[taken + i]
        BY <1>6, <1>7, <2>2, <2>4
      <4>2. buffer[taken + i] = appended[Dropped + (taken + i)]
        BY <2>2, <4>1 DEF LastOnes
      <4>3. Dropped + (taken + i) = Dropped' + i
        BY <1>6, <3>1, <4>1
      <4> QED
        BY <4>1, <4>2, <4>3
    <3>4. ASSUME NEW i \in DOMAIN appended, i <= Dropped' PROVE appended[i] \in flushed \cup excused
      <4>1. CASE i <= Dropped
        BY <2>2, <4>1 DEF LastOnes
      <4>2. CASE i > Dropped
        <5>1. PICK k \in Int : k = i - Dropped
          BY <2>4, <3>1
        <5>2. k \in 1..taken /\ k \in DOMAIN buffer /\ i = Dropped + k
          BY <1>6, <2>2, <2>4, <3>1, <3>4, <4>2, <5>1
        <5>3. appended[i] = buffer[k]
          BY <2>2, <5>2 DEF LastOnes
        <5>4. procs[p].task = "flush"
          BY <1>2 DEF Shape, Holds
        <5>5. procs[p].snap[k] \in flushed
          <6>1. k \in DOMAIN procs[p].snap
            BY <1>4, <2>2, <5>2
          <6>2. k <= procs[p].sent
            BY <1>5, <1>6, <5>2
          <6> QED
            BY <5>4, <6>1, <6>2 DEF EventsInv, Accounted
        <5> QED
          BY <1>4, <2>2, <5>3, <5>5
      <4> QED
        BY <2>4, <3>1, <4>1, <4>2
    <3> QED
      BY <1>2, <3>2, <3>3, <3>4 DEF LastOnes
  <2>6. Extension!FlushedInOrder'
    BY <1>2, <2>2 DEF Extension!FlushedInOrder
  <2> QED
    BY <2>3, <2>5, <2>6 DEF BufferCalm
<1>12. BufferCalm'
  BY <1>2, <1>11 DEF BufferCalm
<1> QED
  BY <1>1, <1>3, <1>10, <1>12 DEF EventsInv

\* The next event of a flush is delivered.
LEMMA Delivered ==
  ASSUME Shape, EventsInv, NEW p \in Procs, procs[p].pc = "deliver",
         UNCHANGED <<overlap, appended>>,
         flushed' = flushed \cup {Extension!NextEvent(p)}, excused \subseteq excused'
  PROVE  Extension!FlushedInOrder' /\ Extension!NextEvent(p) \in Extension!EventsIn(appended)
<1>1. procs[p].task = "flush" /\ procs[p].sent < Len(procs[p].snap)
  BY DEF Shape, Holds
<1>2. PICK snap : snap = procs[p].snap
  OBVIOUS
<1>3. PICK k : k = procs[p].sent + 1
  OBVIOUS
<1>4. snap \in Seq(Extension!Events) /\ k \in DOMAIN snap /\ k \in Nat
      /\ Extension!NextEvent(p) = snap[k]
  BY <1>1, <1>2, <1>3, SnapTyped DEF Extension!NextEvent
<1>5. Extension!NextEvent(p) \in Extension!EventsIn(appended)
  <2>1. snap[k] \in Extension!EventsIn(snap)
    BY <1>4 DEF Extension!EventsIn
  <2> QED
    BY <1>2, <1>4, <2>1 DEF EventsInv, Accounted
<1>6. ASSUME ~overlap, NEW i \in DOMAIN appended, NEW j \in DOMAIN appended, i < j,
             appended[j] \in flushed'
      PROVE  appended[i] \in flushed \cup excused
  <2>1. Extension!AtBuffer(p)
    BY <1>1 DEF Extension!AtBuffer
  <2>2. snap = buffer /\ LastOnes /\ Extension!FlushedInOrder
    BY <1>2, <1>6, <2>1 DEF EventsInv, BufferCalm
  <2>3. CASE appended[j] \in flushed
    BY <1>6, <2>2, <2>3 DEF Extension!FlushedInOrder
  <2>4. CASE appended[j] = snap[k]
    <3>1. /\ Len(appended) \in Nat /\ Len(buffer) \in Nat /\ DOMAIN appended = 1..Len(appended)
          /\ DOMAIN buffer = 1..Len(buffer)
      BY DEF Shape, ClientTyped
    <3>2. PICK d \in Nat : d = Dropped /\ d + Len(buffer) = Len(appended)
      <4>1. Len(buffer) <= Len(appended)
        BY <2>2 DEF LastOnes
      <4>2. Dropped = Len(appended) - Len(buffer)
        BY DEF Dropped
      <4>3. Dropped \in Nat /\ Dropped + Len(buffer) = Len(appended)
        BY <3>1, <4>1, <4>2
      <4> QED
        BY <4>3
    <3>3. appended[j] = appended[d + k] /\ d + k \in DOMAIN appended
      BY <1>4, <2>2, <2>4, <3>1, <3>2 DEF LastOnes
    <3>4. j = d + k
      BY <1>6, <3>3 DEF EventsInv, OwnEvents
    <3>5. CASE i <= d
      BY <1>6, <2>2, <3>2, <3>5 DEF LastOnes
    <3>6. CASE i > d
      <4>1. PICK m \in Int : m = i - d
        BY <3>1, <3>2
      <4>2. m \in DOMAIN buffer /\ m < k /\ i = d + m
        BY <1>4, <1>6, <2>2, <3>1, <3>2, <3>4, <3>6, <4>1
      <4>3. appended[i] = buffer[m]
        BY <2>2, <3>2, <4>2 DEF LastOnes
      <4>4. m \in DOMAIN procs[p].snap /\ m <= procs[p].sent
        BY <1>2, <1>3, <2>2, <4>2, SnapTyped
      <4>5. procs[p].snap[m] \in flushed
        BY <1>1, <4>4 DEF EventsInv, Accounted
      <4> QED
        BY <1>2, <2>2, <4>3, <4>5
    <3> QED
      BY <3>1, <3>2, <3>5, <3>6
  <2> QED
    BY <1>4, <1>6, <2>3, <2>4
<1>7. Extension!FlushedInOrder'
  BY <1>6 DEF Extension!FlushedInOrder
<1> QED
  BY <1>5, <1>7

LEMMA FlushStopsEvents ==
  ASSUME Shape, EventsInv, NEW p \in Procs, Extension!FlushStops(p)
  PROVE  Shape' /\ EventsInv'
<1>1. Shape' /\ \A q \in Procs : GoesOn(procs[q], procs'[q])
  BY FlushStopsStep
<1>2. used.calls <= used'.calls
  BY SameUse, UseMore DEF Extension!FlushStops
<1>3. UNCHANGED <<appended, buffer, overlap, excused, ended>>
  BY DEF Extension!FlushStops, Extension!SameStore
<1>4. CASE UNCHANGED <<received, flushed>>
  BY <1>1, <1>2, <1>3, <1>4, EventsRest
<1>5. CASE received' = received \cup {Extension!NextEvent(p)}
           /\ flushed' = flushed \cup {Extension!NextEvent(p)}
  <2>1. Extension!FlushedInOrder' /\ Extension!NextEvent(p) \in Extension!EventsIn(appended)
    BY <1>3, <1>5, Delivered DEF Extension!FlushStops
  <2>2. OwnEvents'
    BY <1>1, <1>2, <1>3, OwnEventsRest DEF EventsInv, GoesOn
  <2>3. Accounted'
    <3>1. flushed' \subseteq Extension!EventsIn(appended) /\ flushed' \subseteq received'
      BY <1>5, <2>1 DEF EventsInv, Accounted
    <3>2. ended' \subseteq ended \cup received' \cup Extension!EventsIn(appended) \cup excused'
      BY <1>3
    <3> QED
      BY <1>1, <1>3, <1>5, <3>1, <3>2, AccountedRest DEF EventsInv, GoesOn
  <2>4. BufferCalm'
    BY <1>1, <1>3, <1>5, <2>1, CalmRest DEF EventsInv, GoesOn
  <2> QED
    BY <1>1, <2>2, <2>3, <2>4 DEF EventsInv
<1> QED
  BY <1>4, <1>5 DEF Extension!FlushStops

LEMMA FlushAcceptedEvents ==
  ASSUME Shape, EventsInv, NEW p \in Procs, Extension!FlushAccepted(p)
  PROVE  Shape' /\ EventsInv'
<1>1. /\ Shape' /\ \A q \in Procs : TellsNone(procs[q], procs'[q])
      /\ \A q \in Procs \ {p} : procs'[q] = procs[q]
      /\ procs'[p].task = "flush" /\ procs'[p].snap = procs[p].snap
      /\ procs'[p].sent = procs[p].sent + 1 /\ procs[p].sent < Len(procs[p].snap)
  BY FlushAcceptedStep
<1>2. /\ UNCHANGED <<appended, buffer, overlap, excused, ended, used>> /\ procs[p].pc = "deliver"
      /\ received' = received \cup {Extension!NextEvent(p)}
         /\ flushed' = flushed \cup {Extension!NextEvent(p)}
  BY DEF Extension!FlushAccepted, Extension!SameStore
<1>3. Extension!FlushedInOrder' /\ Extension!NextEvent(p) \in Extension!EventsIn(appended)
  BY <1>2, Delivered
<1>4. OwnEvents'
  BY <1>1, <1>2, SameUse, OwnEventsRest DEF EventsInv
<1>5. Extension!EventsIn(appended)' = Extension!EventsIn(appended)
      /\ Extension!EventsIn(buffer)' = Extension!EventsIn(buffer)
  BY <1>2 DEF Extension!EventsIn
<1>6. procs[p].task = "flush"
  BY <1>2 DEF Shape, Holds
<1>7. ASSUME NEW q \in Procs, procs'[q].task = "flush", NEW i \in DOMAIN procs'[q].snap,
             i <= procs'[q].sent
      PROVE  procs'[q].snap[i] \in flushed'
  <2>1. CASE q # p
    BY <1>1, <1>2, <1>7, <2>1 DEF EventsInv, Accounted
  <2>2. CASE q = p /\ i <= procs[p].sent
    BY <1>1, <1>2, <1>6, <1>7, <2>2 DEF EventsInv, Accounted
  <2>3. CASE q = p /\ i = procs[p].sent + 1
    BY <1>1, <1>2, <2>3 DEF Extension!NextEvent
  <2>4. q = p => i \in Int /\ procs[p].sent \in Nat
    BY <1>1, <1>7, SnapTyped
  <2> QED
    BY <1>1, <1>7, <2>1, <2>2, <2>3, <2>4
<1>8. \A q \in Procs : Extension!EventsIn(procs'[q].snap) \subseteq Extension!EventsIn(appended)
  BY <1>1 DEF EventsInv, Accounted
<1>9. Accounted'
  BY <1>2, <1>3, <1>5, <1>7, <1>8 DEF EventsInv, Accounted
<1>10. BufferCalm'
  <2>1. \A q \in Procs : (Extension!AtBuffer(q)' => Extension!AtBuffer(q))
        /\ procs'[q].snap = procs[q].snap
    BY <1>1, <1>2, <1>6 DEF Extension!AtBuffer
  <2>2. LastOnes => LastOnes'
    BY <1>2 DEF LastOnes, Dropped
  <2> QED
    BY <1>2, <1>3, <2>1, <2>2 DEF EventsInv, BufferCalm
<1> QED
  BY <1>1, <1>4, <1>9, <1>10 DEF EventsInv

LEMMA CheckReconnectEvents ==
  ASSUME Shape, EventsInv, NEW p \in Procs, Extension!CheckReconnect(p)
  PROVE  Shape' /\ EventsInv'
<1>1. /\ Shape' /\ \A q \in Procs : LeavesBuffer(procs[q], procs'[q])
      /\ \A q \in Procs \ {p} : procs'[q] = procs[q]
      /\ procs'[p].pc # "check"
      /\ \/ procs'[p].event.id = 0
         \/ procs'[p].event = Extension!Event(procs[p].event.id, "reconnect_requested")
  BY CheckReconnectStep
<1>2. /\ UNCHANGED <<appended, buffer, overlap, flushed, received, excused, used>>
      /\ procs[p].pc = "check" /\ ended' \subseteq ended \cup {procs[p].event}
  BY DEF Extension!CheckReconnect, Extension!SameStore, Extension!HasEnded
<1>3. /\ used.calls \in Nat /\ \A q \in Procs : procs[q].event.id \in Nat
      /\ \A i \in DOMAIN appended : appended[i].id \in Nat
  BY IdsTyped
<1>4. procs[p].event.id # 0
  BY <1>2 DEF Shape, Holds
<1>5. Extension!EventsIn(appended)' = Extension!EventsIn(appended)
  BY <1>2 DEF Extension!EventsIn
<1>6. procs'[p].event.id \in {0, procs[p].event.id}
  BY <1>1 DEF Extension!Event
<1>7. OwnEvents'
  <2>1. \A q \in Procs : procs'[q].event.id <= used'.calls
    BY <1>1, <1>2, <1>3, <1>6 DEF EventsInv, OwnEvents
  <2>2. \A q, r \in Procs : procs'[q].event.id # 0 /\ procs'[q].event.id = procs'[r].event.id
          => q = r
    BY <1>1, <1>6 DEF EventsInv, OwnEvents
  <2>3. ASSUME NEW q \in Procs, procs'[q].event.id # 0
        PROVE  /\ Extension!Event(procs'[q].event.id,
                    "reconnect_requested") \notin Extension!EventsIn(appended)
               /\ procs'[q].pc = "check" <=> procs'[q].event \in Extension!EventsIn(appended)
    <3>1. CASE q # p
      BY <1>1, <2>3, <3>1 DEF EventsInv, OwnEvents, Told
    <3>2. CASE q = p
      <4>1. procs'[p].event = Extension!Event(procs[p].event.id, "reconnect_requested")
            /\ procs'[p].event.id = procs[p].event.id
        BY <1>1, <1>6, <2>3, <3>2
      <4>2. Extension!Event(procs[p].event.id,
              "reconnect_requested") \notin Extension!EventsIn(appended)
        BY <1>4 DEF EventsInv, OwnEvents, Told
      <4> QED
        BY <1>1, <3>2, <4>1, <4>2
    <3> QED
      BY <3>1, <3>2
  <2> QED
    BY <1>2, <1>5, <2>1, <2>2, <2>3 DEF EventsInv, OwnEvents, Told
<1>8. Accounted'
  <2>1. flushed' \subseteq Extension!EventsIn(appended) /\ flushed' \subseteq received'
    BY <1>2 DEF EventsInv, Accounted
  <2>2. procs[p].event \in Extension!EventsIn(appended)
    BY <1>2, <1>4 DEF EventsInv, OwnEvents, Told
  <2>3. ended' \subseteq ended \cup received' \cup Extension!EventsIn(appended) \cup excused'
    BY <1>2, <2>2
  <2> QED
    BY <1>1, <1>2, <2>1, <2>3, AccountedRest DEF EventsInv
<1>9. Extension!FlushedInOrder'
  BY <1>2 DEF EventsInv, BufferCalm, Extension!FlushedInOrder
<1>10. BufferCalm'
  BY <1>1, <1>2, <1>9, CalmRest DEF EventsInv
<1> QED
  BY <1>1, <1>7, <1>8, <1>10 DEF EventsInv

\* What trimming leaves is the end of the buffer.
LEMMA TrimmedTail ==
  ASSUME NEW s \in Seq(Extension!Events)
  PROVE  \E m \in Nat : /\ m <= Len(s) /\ Extension!Trimmed(s) \in Seq(Extension!Events) /\ Len(Extension!Trimmed(s)) = Len(s) - m
                        /\ DOMAIN Extension!Trimmed(s) = 1..(Len(s) - m)
                        /\ \A i \in 1..(Len(s) - m) : Extension!Trimmed(s)[i] = s[m + i]
<1>1. Len(s) \in Nat
  OBVIOUS
<1>2. CASE Len(s) > MaxItems
  <2>1. PICK m \in Nat : m = Len(s) - MaxItems
    BY <1>1, <1>2, ExtensionAssumption
  <2>2. PICK t : t = SubSeq(s, m + 1, Len(s))
    OBVIOUS
  <2>3. Extension!Trimmed(s) = t
    BY <1>2, <2>1, <2>2 DEF Extension!Trimmed
  <2>4. m <= Len(s)
    BY <1>1, <2>1, ExtensionAssumption
  <2>5. /\ t \in Seq(Extension!Events) /\ Len(t) = Len(s) - m /\ DOMAIN t = 1..(Len(s) - m)
        /\ \A i \in 1..(Len(s) - m) : t[i] = s[m + i]
    BY <2>2, <2>4, SubSeqTail
  <2> QED
    BY <2>3, <2>4, <2>5
<1>3. CASE ~(Len(s) > MaxItems)
  <2>1. Extension!Trimmed(s) = s
    BY <1>3 DEF Extension!Trimmed
  <2> QED
    BY <1>1, <2>1
<1> QED
  BY <1>2, <1>3

LEMMA OneMore ==
  ASSUME NEW s \in Seq(Extension!Events), NEW e \in Extension!Events
  PROVE  \E t \in Seq(Extension!Events) :
           /\ t = Append(s, e) /\ Len(t) = Len(s) + 1 /\ DOMAIN t = 1..(Len(s) + 1)
           /\ (\A i \in 1..Len(s) : t[i] = s[i]) /\ t[Len(s) + 1] = e
           /\ Extension!EventsIn(t) = Extension!EventsIn(s) \cup {e}
<1> DEFINE t == Append(s, e)
<1>1. /\ t \in Seq(Extension!Events) /\ Len(t) = Len(s) + 1 /\ DOMAIN t = 1..(Len(s) + 1)
      /\ (\A i \in 1..Len(s) : t[i] = s[i]) /\ t[Len(s) + 1] = e
  OBVIOUS
<1>2. DOMAIN s = 1..Len(s) /\ Len(s) \in Nat
  OBVIOUS
<1>3. \A x \in Extension!EventsIn(t) : x \in Extension!EventsIn(s) \cup {e}
  <2>1. ASSUME NEW i \in 1..(Len(s) + 1) PROVE t[i] \in Extension!EventsIn(s) \cup {e}
    <3>1. CASE i \in 1..Len(s)
      BY <1>1, <1>2, <3>1 DEF Extension!EventsIn
    <3>2. CASE i = Len(s) + 1
      BY <1>1, <3>2
    <3> QED
      BY <1>2, <3>1, <3>2
  <2> QED
    BY <1>1, <2>1 DEF Extension!EventsIn
<1> HIDE DEF t
<1>4. \A x \in Extension!EventsIn(s) : x \in Extension!EventsIn(t)
  <2>1. ASSUME NEW i \in 1..Len(s) PROVE s[i] \in Extension!EventsIn(t)
    BY <1>1, <1>2 DEF Extension!EventsIn
  <2> QED
    BY <1>2, <2>1 DEF Extension!EventsIn
<1>5. e \in Extension!EventsIn(t)
  BY <1>1, <1>2 DEF Extension!EventsIn
<1>6. Extension!EventsIn(t) = Extension!EventsIn(s) \cup {e}
  BY <1>3, <1>4, <1>5
<1>7. t = Append(s, e)
  BY DEF t
<1> QED
  BY <1>1, <1>6, <1>7

LEMMA AppendWritesEvents ==
  ASSUME Shape, EventsInv, NEW p \in Procs, Extension!AppendWrites(p)
  PROVE  Shape' /\ EventsInv'
<1>1. /\ Shape' /\ \A q \in Procs : LeavesBuffer(procs[q], procs'[q])
      /\ \A q \in Procs \ {p} : procs'[q] = procs[q]
      /\ ~At(procs'[p])
      /\ \/ procs'[p].event.id = 0
         \/ procs[p].unauthorized /\ procs'[p].pc = "check" /\ procs'[p].event = procs[p].event
  BY AppendWritesStep
<1>2. PICK e : e = procs[p].event
  OBVIOUS
<1>3. PICK next : next = Append(procs[p].snap, e)
  OBVIOUS
<1>4. PICK events : events = appended'
  OBVIOUS
<1>5. /\ UNCHANGED <<overlap, flushed, received, used>> /\ procs[p].pc = "store"
      /\ buffer' = Extension!Trimmed(next) /\ events = Append(appended, e)
      /\ excused' = excused
           \cup (Extension!EventsIn(next) \ Extension!EventsIn(Extension!Trimmed(next)))
      /\ ended' \subseteq ended \cup {e}
  BY <1>2, <1>3, <1>4 DEF Extension!AppendWrites, Extension!HasEnded
<1>6. /\ used.calls \in Nat /\ \A q \in Procs : procs[q].event.id \in Nat
      /\ \A i \in DOMAIN appended : appended[i].id \in Nat
  BY IdsTyped
<1>7. procs[p].task = "send" /\ e.id # 0
      /\ (procs[p].unauthorized => e.kind # "reconnect_requested")
  BY <1>2, <1>5 DEF Shape, Holds
<1>8. e \in Extension!Events /\ procs[p].snap \in Seq(Extension!Events)
      /\ appended \in Seq(Extension!Events) /\ buffer \in Seq(Extension!Events)
  BY <1>2, SnapTyped DEF Shape, ClientTyped
<1>9. e \notin Extension!EventsIn(appended)
      /\ Extension!Event(e.id, "reconnect_requested") \notin Extension!EventsIn(appended)
  BY <1>2, <1>5, <1>7 DEF EventsInv, OwnEvents, Told
<1>10. /\ Len(events) = Len(appended) + 1 /\ DOMAIN events = 1..(Len(appended) + 1)
       /\ (\A i \in 1..Len(appended) : events[i] = appended[i]) /\ events[Len(appended) + 1] = e
       /\ Extension!EventsIn(events) = Extension!EventsIn(appended) \cup {e}
  <2>1. PICK t \in Seq(Extension!Events) :
          /\ t = Append(appended, e) /\ Len(t) = Len(appended) + 1
             /\ DOMAIN t = 1..(Len(appended) + 1)
          /\ (\A i \in 1..Len(appended) : t[i] = appended[i]) /\ t[Len(appended) + 1] = e
          /\ Extension!EventsIn(t) = Extension!EventsIn(appended) \cup {e}
    BY <1>8, OneMore
  <2>2. events = t
    BY <1>5, <2>1
  <2> QED
    BY <2>1, <2>2
<1>11. DOMAIN appended = 1..Len(appended) /\ Len(appended) \in Nat
  BY <1>8
<1>12. Extension!EventsIn(appended)' = Extension!EventsIn(events)
       /\ Extension!EventsIn(buffer)' = Extension!EventsIn(buffer')
  BY <1>4 DEF Extension!EventsIn
<1>13. OwnEvents'
  <2>1. \A q \in Procs : procs'[q].event.id <= used'.calls
    BY <1>1, <1>5, <1>6 DEF EventsInv, OwnEvents
  <2>2. \A q, r \in Procs : procs'[q].event.id # 0 /\ procs'[q].event.id = procs'[r].event.id
          => q = r
    BY <1>1 DEF EventsInv, OwnEvents
  <2>3. ASSUME NEW i \in DOMAIN events PROVE events[i].id # 0 /\ events[i].id <= used'.calls
    <3>1. CASE i \in DOMAIN appended
      BY <1>5, <1>10, <1>11, <3>1 DEF EventsInv, OwnEvents
    <3>2. CASE i = Len(appended) + 1
      BY <1>2, <1>5, <1>7, <1>10, <3>2 DEF EventsInv, OwnEvents
    <3> QED
      BY <1>10, <1>11, <3>1, <3>2
  <2>4. ASSUME NEW i \in DOMAIN events, NEW j \in DOMAIN events, events[i] = events[j] PROVE i = j
    <3>1. \A k \in DOMAIN appended : appended[k] # e
      BY <1>9 DEF Extension!EventsIn
    <3>2. CASE i \in DOMAIN appended /\ j \in DOMAIN appended
      BY <1>10, <1>11, <2>4, <3>2 DEF EventsInv, OwnEvents
    <3>3. CASE i \in DOMAIN appended /\ j = Len(appended) + 1
      BY <1>10, <1>11, <2>4, <3>1, <3>3
    <3>4. CASE j \in DOMAIN appended /\ i = Len(appended) + 1
      BY <1>10, <1>11, <2>4, <3>1, <3>4
    <3>5. CASE i = Len(appended) + 1 /\ j = Len(appended) + 1
      BY <3>5
    <3> QED
      BY <1>10, <1>11, <3>2, <3>3, <3>4, <3>5
  <2>5. ASSUME NEW q \in Procs, procs'[q].event.id # 0
        PROVE  /\ Extension!Event(procs'[q].event.id,
                    "reconnect_requested") \notin Extension!EventsIn(events)
               /\ procs'[q].pc = "check" <=> procs'[q].event \in Extension!EventsIn(events)
    <3>1. CASE q # p
      <4>1. procs'[q] = procs[q] /\ procs[q].event.id # e.id
        BY <1>1, <1>2, <1>7, <2>5, <3>1 DEF EventsInv, OwnEvents
      <4>2. /\ Extension!Event(procs[q].event.id,
                 "reconnect_requested") \notin Extension!EventsIn(appended)
            /\ procs[q].pc = "check" <=> procs[q].event \in Extension!EventsIn(appended)
        BY <2>5, <4>1 DEF EventsInv, OwnEvents, Told
      <4>3. Extension!Event(procs[q].event.id, "reconnect_requested").id = procs[q].event.id
        BY DEF Extension!Event
      <4> QED
        BY <1>10, <4>1, <4>2, <4>3
    <3>2. CASE q = p
      <4>1. procs[p].unauthorized /\ procs'[p].pc = "check" /\ procs'[p].event = e
        BY <1>1, <1>2, <2>5, <3>2
      <4>2. Extension!Event(e.id, "reconnect_requested") # e
        BY <1>7, <4>1 DEF Extension!Event
      <4> QED
        BY <1>9, <1>10, <3>2, <4>1, <4>2
    <3> QED
      BY <3>1, <3>2
  <2> QED
    BY <1>4, <1>12, <2>1, <2>2, <2>3, <2>4, <2>5 DEF OwnEvents, Told
<1>14. /\ next \in Seq(Extension!Events) /\ Len(next) = Len(procs[p].snap) + 1
       /\ DOMAIN next = 1..(Len(procs[p].snap) + 1)
       /\ \A i \in 1..Len(procs[p].snap) : next[i] = procs[p].snap[i]
       /\ next[Len(procs[p].snap) + 1] = e
       /\ Extension!EventsIn(next) = Extension!EventsIn(procs[p].snap) \cup {e}
  <2>1. PICK snap : snap = procs[p].snap
    OBVIOUS
  <2>2. snap \in Seq(Extension!Events)
    BY <1>8, <2>1
  <2>3. PICK t \in Seq(Extension!Events) :
          /\ t = Append(snap, e) /\ Len(t) = Len(snap) + 1 /\ DOMAIN t = 1..(Len(snap) + 1)
          /\ (\A i \in 1..Len(snap) : t[i] = snap[i]) /\ t[Len(snap) + 1] = e
          /\ Extension!EventsIn(t) = Extension!EventsIn(snap) \cup {e}
    BY <1>8, <2>2, OneMore
  <2>4. next = t
    BY <1>3, <2>1, <2>3
  <2> QED
    BY <2>1, <2>3, <2>4
<1>15. PICK m \in Nat : /\ m <= Len(next) /\ buffer' \in Seq(Extension!Events) /\ Len(buffer') = Len(next) - m
                        /\ DOMAIN buffer' = 1..(Len(next) - m)
                        /\ \A i \in 1..(Len(next) - m) : buffer'[i] = next[m + i]
  BY <1>5, <1>14, TrimmedTail
<1>16. Len(next) \in Nat /\ DOMAIN next = 1..Len(next)
  BY <1>14
<1>17. Accounted'
  <2>1. Extension!EventsIn(buffer') \subseteq Extension!EventsIn(next)
    <3>1. ASSUME NEW i \in DOMAIN buffer' PROVE buffer'[i] \in Extension!EventsIn(next)
      <4>1. m + i \in DOMAIN next /\ buffer'[i] = next[m + i]
        BY <1>15, <1>16
      <4> QED
        BY <4>1 DEF Extension!EventsIn
    <3> QED
      BY <3>1 DEF Extension!EventsIn
  <2>2. Extension!EventsIn(next) \subseteq Extension!EventsIn(events)
    BY <1>10, <1>14 DEF EventsInv, Accounted
  <2>3. \A q \in Procs : Extension!EventsIn(procs'[q].snap) \subseteq Extension!EventsIn(events)
    BY <1>1, <1>10, EmptyIn DEF EventsInv, Accounted, LeavesBuffer
  <2>4. flushed' \subseteq Extension!EventsIn(events) /\ flushed' \subseteq received'
    BY <1>5, <1>10 DEF EventsInv, Accounted
  <2>5. ended' \subseteq received' \cup Extension!EventsIn(events) \cup excused'
    BY <1>5, <1>10 DEF EventsInv, Accounted
  <2>6. \A q \in Procs : procs'[q].task = "flush" =>
          \A i \in DOMAIN procs'[q].snap : i <= procs'[q].sent => procs'[q].snap[i] \in flushed'
    BY <1>1, <1>5 DEF EventsInv, Accounted, LeavesBuffer
  <2> QED
    BY <1>12, <2>1, <2>2, <2>3, <2>4, <2>5, <2>6 DEF Accounted
<1>18. ASSUME ~overlap PROVE BufferCalm'
  <2>1. Extension!AtBuffer(p)
    BY <1>5 DEF Extension!AtBuffer
  <2>2. procs[p].snap = buffer /\ LastOnes /\ Extension!FlushedInOrder
    BY <1>18, <2>1 DEF EventsInv, BufferCalm
  <2>3. \A q \in Procs : ~Extension!AtBuffer(q)'
    <3>1. ASSUME NEW q \in Procs \ {p} PROVE ~Extension!AtBuffer(q)'
      <4>1. ~Extension!AtBuffer(q)
        BY <1>18, <2>1 DEF EventsInv, BufferCalm
      <4> QED
        BY <1>1, <4>1 DEF Extension!AtBuffer
    <3>2. ~Extension!AtBuffer(p)'
      BY <1>1 DEF Extension!AtBuffer, At
    <3> QED
      BY <3>1, <3>2
  <2>4. Len(buffer) \in Nat /\ DOMAIN buffer = 1..Len(buffer) /\ Len(next) = Len(buffer) + 1
    BY <1>8, <1>14, <2>2
  <2>5. PICK d \in Nat : d = Dropped /\ d + Len(buffer) = Len(appended)
    <3>1. Len(buffer) <= Len(appended)
      BY <2>2 DEF LastOnes
    <3>2. Dropped = Len(appended) - Len(buffer)
      BY DEF Dropped
    <3>3. Dropped \in Nat /\ Dropped + Len(buffer) = Len(appended)
      BY <1>11, <2>4, <3>1, <3>2
    <3> QED
      BY <3>3
  <2>6. ASSUME NEW i \in DOMAIN next PROVE next[i] = events[d + i] /\ d + i \in DOMAIN events
    <3>1. CASE i \in 1..Len(buffer)
      <4>1. next[i] = buffer[i] /\ buffer[i] = appended[d + i] /\ d + i \in 1..Len(appended)
        BY <1>14, <2>2, <2>4, <2>5, <3>1 DEF LastOnes
      <4> QED
        BY <1>10, <1>11, <4>1
    <3>2. CASE i = Len(buffer) + 1
      <4>1. d + i = Len(appended) + 1
        BY <1>11, <2>4, <2>5, <3>2
      <4> QED
        BY <1>10, <1>11, <1>14, <2>2, <3>2, <4>1
    <3> QED
      BY <1>16, <2>4, <3>1, <3>2
  <2>7. Dropped' = d + m
    <3>1. Dropped' = Len(events) - Len(buffer')
      BY <1>4 DEF Dropped
    <3>2. Len(events) = Len(appended) + 1 /\ Len(buffer') = (Len(buffer) + 1) - m
      BY <1>10, <1>15, <2>4
    <3>3. Len(appended) = d + Len(buffer) /\ Len(buffer) \in Nat
      BY <2>4, <2>5
    <3>4. Dropped' = (d + Len(buffer) + 1) - ((Len(buffer) + 1) - m)
      BY <3>1, <3>2, <3>3
    <3> QED
      BY <3>3, <3>4
  <2>8. \A i, j \in DOMAIN events : events[i] = events[j] => i = j
    BY <1>4, <1>13 DEF OwnEvents
  <2>9. LastOnes'
    <3>1. Len(buffer') <= Len(events)
      BY <1>10, <1>11, <1>15, <2>4, <2>5
    <3>2. ASSUME NEW i \in DOMAIN buffer' PROVE buffer'[i] = events[(d + m) + i]
      <4>1. i \in Nat /\ m + i \in DOMAIN next /\ buffer'[i] = next[m + i]
        BY <1>15, <1>16
      <4>2. next[m + i] = events[d + (m + i)]
        BY <2>6, <4>1
      <4>3. d + (m + i) = (d + m) + i
        BY <4>1
      <4> QED
        BY <4>1, <4>2, <4>3
    <3>3. ASSUME NEW i \in DOMAIN events, i <= d + m PROVE events[i] \in flushed \cup excused'
      <4>1. CASE i <= d
        <5>1. i \in DOMAIN appended /\ i <= Dropped
          BY <1>10, <1>11, <2>4, <2>5, <4>1
        <5>2. appended[i] \in flushed \cup excused
          BY <2>2, <5>1 DEF LastOnes
        <5> QED
          BY <1>5, <1>10, <1>11, <5>1, <5>2
      <4>2. CASE i > d
        <5>1. PICK k \in Nat : k = i - d
          BY <1>10, <1>11, <4>2
        <5>2. k \in DOMAIN next /\ k <= m /\ d + k = i
          <6>1. i \in Int
            BY <1>10, <1>11
          <6>2. k <= m /\ d + k = i /\ k >= 1
            BY <3>3, <4>2, <5>1, <6>1
          <6>3. k <= Len(next)
            BY <1>15, <1>16, <6>2
          <6> QED
            BY <1>16, <6>2, <6>3
        <5>3. events[i] = next[k]
          BY <2>6, <5>2
        <5>4. next[k] \notin Extension!EventsIn(buffer')
          <6>1. ASSUME NEW j \in DOMAIN buffer' PROVE buffer'[j] # next[k]
            <7>1. j \in Nat /\ j > 0 /\ m + j \in DOMAIN next /\ buffer'[j] = next[m + j]
              BY <1>15, <1>16
            <7>2. next[m + j] = events[d + (m + j)] /\ d + (m + j) \in DOMAIN events
              BY <2>6, <7>1
            <7>3. d + (m + j) # i
              BY <5>1, <5>2, <7>1
            <7> QED
              BY <2>8, <5>3, <7>1, <7>2, <7>3
          <6> QED
            BY <6>1 DEF Extension!EventsIn
        <5>5. next[k] \in Extension!EventsIn(next)
          BY <5>2 DEF Extension!EventsIn
        <5> QED
          BY <1>5, <5>3, <5>4, <5>5
      <4> QED
        BY <1>10, <1>11, <4>1, <4>2
    <3> QED
      BY <1>4, <1>5, <2>7, <3>1, <3>2, <3>3 DEF LastOnes
  <2>10. Extension!FlushedInOrder'
    <3>1. ASSUME NEW i \in DOMAIN events, NEW j \in DOMAIN events, i < j, events[j] \in flushed
          PROVE  events[i] \in flushed \cup excused'
      <4>1. j # Len(appended) + 1
        BY <1>9, <1>10, <3>1 DEF EventsInv, Accounted
      <4>2. i \in DOMAIN appended /\ j \in DOMAIN appended
        BY <1>10, <1>11, <3>1, <4>1
      <4>3. events[i] = appended[i] /\ events[j] = appended[j]
        BY <1>10, <1>11, <4>2
      <4> QED
        BY <1>5, <1>18, <2>2, <3>1, <4>2, <4>3 DEF Extension!FlushedInOrder
    <3> QED
      BY <1>4, <1>5, <3>1 DEF Extension!FlushedInOrder
  <2> QED
    BY <2>3, <2>9, <2>10 DEF BufferCalm
<1>19. BufferCalm'
  BY <1>5, <1>18 DEF BufferCalm
<1> QED
  BY <1>1, <1>13, <1>17, <1>19 DEF EventsInv

-----------------------------------------------------------------------------
\* While nothing interferes, one refresh at most is under way, and it is the stored session's.
Between(c) == c.pc \in {"issue", "save"}

RefreshFits(h) ==
  /\ h.step # "closed" /\ h.awaited /\ h.token = stored
  /\ h.step \in {"asked", "resolved", "denied"} => ~tokens[stored].revoked
  /\ h.step = "denied" => tokens[stored].age = "expired"
  /\ h.step = "done" => ~tokens[h.new].revoked

OneRefresh ==
  /\ site = "idle"
  /\ \A r \in DOMAIN handlers : handlers[r].step # "closed" => r = refreshing
  /\ refreshing # 0 => RefreshFits(handlers[refreshing])

\* One connection at most is past the API's revocation, and no refresh is under way then.
OneConnection ==
  /\ \A p, q \in Procs : Between(procs[p]) /\ Between(procs[q]) => p = q
  /\ \A p \in Procs : Between(procs[p]) => refreshing = 0
  /\ \A p \in Procs : procs[p].pc = "save" => ~tokens[procs[p].token].revoked

StoredKept ==
  /\ refreshing = 0 /\ (\A p \in Procs : ~Between(procs[p])) /\ stored # Extension!NoToken
       => ~tokens[stored].revoked
  /\ cached /\ stored = Extension!NoToken => \E t \in DOMAIN tokens : tokens[t].age = "expired"

SessionKept == ~upset => OneRefresh /\ OneConnection /\ StoredKept

Facts ==
  /\ Len(tokens) \in Nat /\ tokens \in Seq(SessionRecords) /\ DOMAIN tokens = 1..Len(tokens)
  /\ handlers \in Seq(HandlerRecords) /\ Len(handlers) \in Nat /\ DOMAIN handlers = 1..Len(handlers)
  /\ stored \in Nat /\ stored <= Len(tokens) /\ refreshing \in Nat
  /\ refreshing <= Len(handlers) /\ upset \in BOOLEAN
  /\ procs \in [Procs -> CallStates]
  /\ \A q \in Procs : Holds(procs[q], Len(tokens))
  /\ \A s \in DOMAIN handlers : HandlerFits(handlers[s], Len(tokens))
     /\ handlers[s] \in HandlerRecords

LEMMA ShapeFacts == ASSUME Shape PROVE Facts
  BY DEF Shape, ClientTyped, Facts

LEMMA SessionInit == ASSUME Extension!Init PROVE SessionKept
<1>1. /\ site = "idle" /\ handlers = <<>> /\ refreshing = 0 /\ DOMAIN handlers = {}
      /\ \A p \in Procs : procs[p].pc = "idle"
  BY DEF Extension!Init, Extension!Idle
<1>2. OneRefresh /\ OneConnection
  BY <1>1 DEF OneRefresh, OneConnection, Between
<1>3. StoredKept
  <2>1. PICK bound \in BOOLEAN : /\ tokens = IF bound THEN <<Extension!Fresh>> ELSE <<>>
                                 /\ stored = IF bound THEN 1 ELSE Extension!NoToken
                                 /\ cached = bound
    BY DEF Extension!Init
  <2>2. CASE bound
    <3>1. tokens = <<Extension!Fresh>> /\ stored = 1
      BY <2>1, <2>2
    <3>2. ~tokens[stored].revoked
      BY <3>1 DEF Extension!Fresh
    <3> QED
      BY <3>1, <3>2 DEF StoredKept, Extension!NoToken
  <2>3. CASE ~bound
    BY <2>1, <2>3 DEF StoredKept
  <2> QED
    BY <2>2, <2>3
<1> QED
  BY <1>2, <1>3 DEF SessionKept

\* A step of a call that has nothing to do with the sessions.
LEMMA SessionRests ==
  ASSUME Shape, SessionKept, NEW p \in Procs, ~Between(procs[p]), ~Between(procs'[p]),
         \A q \in Procs \ {p} : procs'[q] = procs[q],
         UNCHANGED <<tokens, handlers, site, stored, cached, refreshing>>, ~upset' => ~upset
  PROVE  SessionKept'
<1>1. \A q \in Procs : /\ Between(procs[q])' <=> Between(procs[q])
                       /\ procs'[q].pc = "save" => procs[q].pc = "save"
                          /\ procs'[q].token = procs[q].token
  BY DEF Between
<1>2. OneRefresh => OneRefresh'
  BY DEF OneRefresh, RefreshFits
<1>3. OneConnection => OneConnection'
  BY <1>1 DEF OneConnection
<1>4. StoredKept => StoredKept'
  BY <1>1 DEF StoredKept
<1> QED
  BY <1>2, <1>3, <1>4 DEF SessionKept

LEMMA OverBetween == ASSUME NEW p PROVE ~Between(Extension!Over(p))
  BY OverHolds DEF Between

LEMMA WithBetween ==
  ASSUME Shape, NEW p \in Procs, NEW t PROVE ~Between(Extension!With(p, t))
<1>1. procs[p] \in CallStates
  BY ShapeFacts DEF Facts
<1> QED
  BY <1>1 DEF Extension!With, Between, CallStates, Extension!Idle

LEMMA WithoutBetween ==
  ASSUME Shape, NEW p \in Procs, NEW u PROVE ~Between(Extension!Without(p, u))
<1>1. procs[p] \in CallStates
  BY ShapeFacts DEF Facts
<1> QED
  BY <1>1 DEF Extension!Without, Between, CallStates, Extension!Idle

LEMMA StartsKeep ==
  ASSUME Shape, SessionKept, NEW p \in Procs,
         Extension!StartSend(p) \/ Extension!StartFlush(p) \/ Extension!StartRefresh(p)
         \/ Extension!StartConnect(p)
  PROVE  SessionKept'
<1>1. UNCHANGED <<tokens, handlers, site, stored, cached, refreshing, upset>>
                /\ procs[p].pc = "idle"
  <2>1. /\ procs[p].pc = "idle" /\ UNCHANGED refreshing
        /\ Extension!SameServer /\ Extension!SameStore /\ Extension!SameHistory
    BY DEF Extension!StartSend, Extension!StartFlush, Extension!StartRefresh,
       Extension!StartConnect
  <2>2. UNCHANGED <<tokens, handlers, site>>
    BY <2>1 DEF Extension!SameServer, Extension!server
  <2>3. UNCHANGED <<stored, cached>> /\ UNCHANGED upset
    BY <2>1 DEF Extension!SameStore, Extension!SameHistory, Extension!history
  <2> QED
    BY <2>1, <2>2, <2>3
<1>2. ~Between(procs'[p]) /\ \A q \in Procs \ {p} : procs'[q] = procs[q]
  <2>1. DOMAIN procs = Procs
    BY ShapeFacts DEF Facts
  <2>2. \A q \in Procs \ {p} : procs'[q] = procs[q]
    BY <2>1 DEF Extension!StartSend, Extension!StartFlush, Extension!StartRefresh,
       Extension!StartConnect, Extension!Goto
  <2>3. ~Between(procs'[p])
    <3>1. CASE Extension!StartSend(p)
      BY <2>1, <3>1 DEF Extension!StartSend, Extension!Goto, Between, Extension!Idle
    <3>2. CASE Extension!StartFlush(p)
      BY <2>1, <3>2 DEF Extension!StartFlush, Extension!Goto, Between, Extension!Idle
    <3>3. CASE Extension!StartRefresh(p)
      BY <2>1, <3>3 DEF Extension!StartRefresh, Extension!Goto, Between, Extension!Idle
    <3>4. CASE Extension!StartConnect(p)
      BY <2>1, <3>4 DEF Extension!StartConnect, Extension!Goto, Between, Extension!Idle
    <3> QED
      BY <3>1, <3>2, <3>3, <3>4
  <2> QED
    BY <2>2, <2>3
<1> QED
  BY <1>1, <1>2, SessionRests DEF Between

LEMMA SendsKeep ==
  ASSUME Shape, SessionKept, NEW p \in Procs,
         Extension!SendAccepted(p) \/ Extension!SendRefused(p) \/ Extension!SendFails(p)
         \/ Extension!SendUnauthorized(p)
  PROVE  SessionKept'
<1>1. UNCHANGED <<tokens, handlers, site, stored, cached, refreshing, upset>>
                /\ procs[p].pc = "request"
  BY DEF Extension!SendAccepted, Extension!SendRefused, Extension!SendFails,
     Extension!SendUnauthorized, Extension!SameServer, Extension!SameStore, Extension!SameHistory,
         Extension!server, Extension!history
<1>2. procs[p] \in CallStates
  BY ShapeFacts DEF Facts
<1>3. ~Between(procs'[p]) /\ \A q \in Procs \ {p} : procs'[q] = procs[q]
  <2>1. CASE Extension!SendAccepted(p) \/ Extension!SendRefused(p)
    BY ShapeFacts, <2>1, OverBetween
       DEF Extension!SendAccepted, Extension!SendRefused, Facts, Extension!Goto
  <2>2. CASE Extension!SendFails(p)
    BY ShapeFacts, <2>2, WithoutBetween DEF Extension!SendFails, Facts, Extension!Goto
  <2>3. CASE Extension!SendUnauthorized(p)
    BY ShapeFacts, <1>2, <2>3, WithoutBetween
       DEF Extension!SendUnauthorized, Between, CallStates, Facts, Extension!Goto
  <2> QED
    BY <2>1, <2>2, <2>3
<1> QED
  BY <1>1, <1>3, SessionRests DEF Between

LEMMA BufferKeeps ==
  ASSUME Shape, SessionKept, NEW p \in Procs,
         Extension!AppendReads(p) \/ Extension!AppendWrites(p) \/ Extension!CheckReconnect(p)
         \/ Extension!FlushReads(p)
  PROVE  SessionKept'
<1>1. /\ UNCHANGED <<tokens, handlers, site, stored, cached, refreshing, upset>>
      /\ procs[p].pc \in {"append", "store", "check", "flush"}
  BY DEF Extension!AppendReads, Extension!AppendWrites, Extension!CheckReconnect,
     Extension!FlushReads, Extension!SameServer, Extension!SameStore, Extension!server
<1>2. procs[p] \in CallStates
  BY ShapeFacts DEF Facts
<1>3. ~Between(procs'[p]) /\ \A q \in Procs \ {p} : procs'[q] = procs[q]
  <2>1. CASE Extension!AppendReads(p)
    BY ShapeFacts, <1>2, <2>1 DEF Extension!AppendReads, Between, CallStates, Facts, Extension!Goto
  <2>2. CASE Extension!AppendWrites(p)
    <3>1. CASE procs[p].unauthorized
      BY ShapeFacts, <1>2, <2>2, <3>1
         DEF Extension!AppendWrites, Between, CallStates, Facts, Extension!Goto
    <3>2. CASE ~procs[p].unauthorized
      <4>1. Extension!Goto(p, Extension!Over(p))
        BY <2>2, <3>2 DEF Extension!AppendWrites
      <4> QED
        BY ShapeFacts, <4>1, OverBetween DEF Facts, Extension!Goto
    <3> QED
      BY <3>1, <3>2
  <2>3. CASE Extension!CheckReconnect(p)
    <3>1. CASE \E e \in Extension!EventsIn(buffer) : e.kind = "reconnect_requested"
      <4>1. Extension!Goto(p, Extension!Over(p))
        BY <2>3, <3>1 DEF Extension!CheckReconnect
      <4> QED
        BY ShapeFacts, <4>1, OverBetween DEF Facts, Extension!Goto
    <3>2. CASE ~\E e \in Extension!EventsIn(buffer) : e.kind = "reconnect_requested"
      <4>1. Extension!Goto(p, [procs[p] EXCEPT !.pc = "append", !.unauthorized = FALSE,
                                     !.event.kind = "reconnect_requested"])
        BY <2>3, <3>2 DEF Extension!CheckReconnect
      <4> QED
        BY ShapeFacts, <1>2, <4>1 DEF Facts, Extension!Goto, Between, CallStates
    <3> QED
      BY <3>1, <3>2
  <2>4. CASE Extension!FlushReads(p)
    BY ShapeFacts, <1>2, <2>4
       DEF Extension!FlushReads, Between, CallStates, Extension!Idle, Facts, Extension!Goto
  <2> QED
    BY <2>1, <2>2, <2>3, <2>4
<1> QED
  BY <1>1, <1>3, SessionRests DEF Between

LEMMA FlushKeeps ==
  ASSUME Shape, SessionKept, NEW p \in Procs, Extension!FlushAccepted(p) \/ Extension!FlushStops(p)
         \/ Extension!FlushWrites(p)
  PROVE  SessionKept'
<1>1. /\ UNCHANGED <<tokens, handlers, site, stored, cached, refreshing, upset>>
      /\ procs[p].pc \in {"deliver", "rest"}
  BY DEF Extension!FlushAccepted, Extension!FlushStops, Extension!FlushWrites, Extension!SameServer,
     Extension!SameStore, Extension!SameHistory, Extension!server, Extension!history
<1>2. procs[p] \in CallStates
  BY ShapeFacts DEF Facts
<1>3. ~Between(procs'[p]) /\ \A q \in Procs \ {p} : procs'[q] = procs[q]
  <2>1. CASE Extension!FlushAccepted(p)
    BY ShapeFacts, <1>2, <2>1
       DEF Extension!FlushAccepted, Between, CallStates, Facts, Extension!Goto
  <2>2. CASE Extension!FlushStops(p)
    BY ShapeFacts, <1>2, <2>2 DEF Extension!FlushStops, Between, CallStates, Facts, Extension!Goto
  <2>3. CASE Extension!FlushWrites(p)
    BY ShapeFacts, <2>3 DEF Extension!FlushWrites, Between, Extension!Idle, Facts, Extension!Goto
  <2> QED
    BY <2>1, <2>2, <2>3
<1> QED
  BY <1>1, <1>3, SessionRests DEF Between

LEMMA BindFailsKeeps ==
  ASSUME Shape, SessionKept, NEW p \in Procs, Extension!BindFails(p)
  PROVE  SessionKept'
<1>1. /\ UNCHANGED <<tokens, handlers, site, stored, cached, refreshing>>
         /\ Extension!Goto(p, Extension!Idle)
      /\ upset' = (upset \/ procs[p].pc # "bind")
  BY DEF Extension!BindFails, Extension!SameServer, Extension!SameStore, Extension!server
<1>2. CASE procs[p].pc = "bind"
  <2>1. procs'[p] = Extension!Idle /\ \A q \in Procs \ {p} : procs'[q] = procs[q]
    BY <1>1, ShapeFacts DEF Facts, Extension!Goto
  <2> QED
    <3>1. ~Between(procs[p]) /\ ~Between(procs'[p])
      BY <1>2, <2>1 DEF Between, Extension!Idle
    <3>2. ~upset' => ~upset
      BY <1>1
    <3> QED
      BY <1>1, <2>1, <3>1, <3>2, SessionRests
<1>3. CASE procs[p].pc # "bind"
  BY <1>1, <1>3 DEF SessionKept
<1> QED
  BY <1>2, <1>3

LEMMA SiteKeeps ==
  ASSUME Shape, SessionKept, Extension!SiteRevokes \/ Extension!SiteIssues
  PROVE  SessionKept'
<1>1. CASE Extension!SiteRevokes
  BY <1>1 DEF Extension!SiteRevokes, SessionKept
<1>2. CASE Extension!SiteIssues
  <2>1. site = "revoked" /\ upset' = upset
    BY <1>2 DEF Extension!SiteIssues, Extension!history
  <2>2. upset
    BY <2>1 DEF SessionKept, OneRefresh
  <2> QED
    BY <2>1, <2>2 DEF SessionKept
<1> QED
  BY <1>1, <1>2

LEMMA SessionAgesKeeps ==
  ASSUME Shape, SessionKept, NEW t \in DOMAIN tokens, Extension!SessionAges(t)
  PROVE  SessionKept'
<1>1. /\ UNCHANGED <<handlers, site, stored, cached, refreshing, procs, upset>>
      /\ DOMAIN tokens' = DOMAIN tokens /\ tokens[t].age # "expired"
      /\ \A u \in DOMAIN tokens \ {t} : tokens'[u] = tokens[u]
      /\ tokens'[t].revoked = tokens[t].revoked
  BY SessionAgesStep DEF Extension!SessionAges, Extension!client, Extension!history
<1>2. \A u \in DOMAIN tokens : /\ tokens'[u].revoked = tokens[u].revoked
                                 /\ tokens[u].age = "expired" => tokens'[u].age = "expired"
  BY <1>1
<1>3. Facts
  BY ShapeFacts
<1>4. OneRefresh => OneRefresh'
  <2>1. ASSUME OneRefresh, refreshing # 0 PROVE RefreshFits(handlers[refreshing])'
    <3>1. RefreshFits(handlers[refreshing]) /\ HandlerFits(handlers[refreshing], Len(tokens))
      BY <1>3, <2>1 DEF OneRefresh, Facts
    <3>2. stored \in DOMAIN tokens
      BY <1>3, <3>1 DEF RefreshFits, HandlerFits, Facts, Extension!NoToken
    <3>3. handlers[refreshing].step = "done" => handlers[refreshing].new \in DOMAIN tokens
      <4>1. handlers[refreshing].new \in Nat
        BY <1>3, <2>1 DEF Facts, HandlerRecords
      <4> QED
        BY <1>3, <3>1, <4>1 DEF HandlerFits, Facts, Extension!NoToken
    <3> QED
      BY <1>1, <1>2, <3>1, <3>2, <3>3 DEF RefreshFits
  <2> QED
    BY <1>1, <2>1 DEF OneRefresh
<1>5. OneConnection => OneConnection'
  <2>1. ASSUME NEW p \in Procs, procs[p].pc = "save" PROVE procs[p].token \in DOMAIN tokens
    BY <1>3, <2>1 DEF Facts, Holds, CallStates, Extension!NoToken
  <2> QED
    BY <1>1, <1>2, <2>1 DEF OneConnection
<1>6. StoredKept => StoredKept'
  <2>1. stored # Extension!NoToken => stored \in DOMAIN tokens
    BY <1>3 DEF Facts, Extension!NoToken
  <2> QED
    BY <1>1, <1>2, <2>1 DEF StoredKept
<1> QED
  BY <1>1, <1>4, <1>5, <1>6 DEF SessionKept

LEMMA RefreshFailsKeeps ==
  ASSUME SessionKept, NEW r \in DOMAIN handlers, Extension!RefreshFails(r)
  PROVE  SessionKept'
  BY DEF Extension!RefreshFails, SessionKept

LEMMA JoinOrStartKeeps ==
  ASSUME Shape, SessionKept, NEW p \in Procs, Extension!JoinOrStart(p, stored),
         stored # Extension!NoToken,
         UNCHANGED <<tokens, site, stored, cached>>, ~Between(procs[p])
  PROVE  SessionKept'
<1>1. Facts
  BY ShapeFacts
<1>2. procs'[p].pc = "refreshing" /\ \A q \in Procs \ {p} : procs'[q] = procs[q]
  BY <1>1 DEF Extension!JoinOrStart, Extension!Goto, Facts, CallStates
<1>3. ~Between(procs'[p])
  BY <1>2 DEF Between
<1>4. CASE refreshing # 0
  <2>1. UNCHANGED <<handlers, refreshing, upset>>
    BY <1>4 DEF Extension!JoinOrStart
  <2> QED
    BY <1>2, <1>3, <2>1, SessionRests
<1>5. CASE refreshing = 0
  <2>1. PICK h : h = [step |-> "asked", token |-> stored, new |-> Extension!NoToken,
          awaited |-> TRUE]
    OBVIOUS
  <2>2. handlers' = Append(handlers, h) /\ refreshing' = Len(handlers')
        /\ upset' = (upset \/ Extension!Binding)
    BY <1>5, <2>1 DEF Extension!JoinOrStart
  <2>3. h \in HandlerRecords
    BY <1>1, <2>1 DEF HandlerRecords, Facts, Extension!NoToken
  <2>4. /\ refreshing' = Len(handlers) + 1 /\ DOMAIN handlers' = 1..(Len(handlers) + 1)
        /\ handlers'[Len(handlers) + 1] = h /\ \A r \in DOMAIN handlers : handlers'[r] = handlers[r]
    BY <1>1, <2>2, <2>3 DEF Facts
  <2>5. ASSUME ~upset' PROVE OneRefresh' /\ OneConnection' /\ StoredKept'
    <3>1. ~upset /\ OneRefresh /\ OneConnection /\ StoredKept
      BY <2>2, <2>5 DEF SessionKept
    <3>2. \A q \in Procs : ~Between(procs[q]) /\ ~Between(procs'[q])
      BY <1>2, <1>3, <2>2, <2>5 DEF Extension!Binding, Between
    <3>3. ~tokens[stored].revoked
      BY <1>5, <3>1, <3>2 DEF StoredKept
    <3>4. OneRefresh'
      <4>1. \A r \in DOMAIN handlers : handlers[r].step = "closed"
        <5>1. \A r \in DOMAIN handlers : r # 0
          BY <1>1 DEF Facts
        <5> QED
          BY <1>5, <3>1, <5>1 DEF OneRefresh
      <4>2. \A r \in DOMAIN handlers' : handlers'[r].step # "closed" => r = refreshing'
        BY <1>1, <2>4, <4>1 DEF Facts
      <4>3. handlers'[refreshing'] = h
        BY <2>4
      <4>4. RefreshFits(handlers[refreshing])'
        BY <2>1, <3>3, <4>3 DEF RefreshFits
      <4> QED
        BY <3>1, <4>2, <4>4 DEF OneRefresh
    <3>5. OneConnection'
      BY <3>2 DEF OneConnection, Between
    <3>6. StoredKept'
      BY <3>1, <3>3 DEF StoredKept
    <3> QED
      BY <3>4, <3>5, <3>6
  <2> QED
    BY <2>5 DEF SessionKept
<1> QED
  BY <1>4, <1>5

LEMMA ReadSessionKeeps ==
  ASSUME Shape, SessionKept, NEW p \in Procs, Extension!ReadSession(p)
  PROVE  SessionKept'
<1>1. UNCHANGED <<tokens, site, stored, cached>> /\ ~Between(procs[p])
  BY DEF Extension!ReadSession, Extension!SameStore, Between
<1>2. CASE UNCHANGED <<handlers, refreshing, upset>>
           /\ (Extension!Goto(p, Extension!Without(p, TRUE))
              \/ Extension!Goto(p, Extension!With(p, stored)))
  <2>1. ~Between(procs'[p]) /\ \A q \in Procs \ {p} : procs'[q] = procs[q]
    <3>1. DOMAIN procs = Procs
      BY ShapeFacts DEF Facts
    <3>2. PICK c : Extension!Goto(p, c) /\ ~Between(c)
      BY <1>2, WithBetween, WithoutBetween
    <3>3. procs' = [procs EXCEPT ![p] = c]
      BY <3>2 DEF Extension!Goto
    <3> QED
      BY <3>1, <3>2, <3>3
  <2> QED
    BY <1>1, <1>2, <2>1, SessionRests
<1>3. CASE Extension!JoinOrStart(p, stored) /\ stored # Extension!NoToken
  BY <1>1, <1>3, JoinOrStartKeeps
<1> QED
  BY <1>2, <1>3 DEF Extension!ReadSession

LEMMA RefreshReplyKeeps ==
  ASSUME Shape, SessionKept, NEW r \in DOMAIN handlers, Extension!RefreshReply(r)
  PROVE  SessionKept'
<1>1. Facts
  BY ShapeFacts
<1>2. /\ UNCHANGED <<tokens, site, cached, upset>> /\ handlers[r].step \in {"done", "denied"}
      /\ handlers' = [handlers EXCEPT ![r] = Extension!Closed] /\ stored' = handlers[r].new
         /\ refreshing' = 0
  BY DEF Extension!RefreshReply, Extension!Settle, Extension!history
<1>3. PICK f : f = [p \in Procs |-> IF handlers[r].step = "done"
        THEN Extension!With(p, handlers[r].new)
                                                                ELSE Extension!Without(p, TRUE)]
  OBVIOUS
<1>4. procs' = [p \in Procs |-> IF procs[p].pc = "refreshing" /\ procs[p].waits = r
                                THEN f[p] ELSE procs[p]]
  BY <1>3 DEF Extension!RefreshReply, Extension!Settle
<1>5. \A p \in Procs : /\ Between(procs'[p]) <=> Between(procs[p])
                       /\ Between(procs'[p]) => procs'[p] = procs[p]
  <2>1. \A p \in Procs : ~Between(f[p])
    BY <1>3, WithBetween, WithoutBetween
  <2> QED
    BY <1>4, <2>1 DEF Between
<1>6. ASSUME ~upset PROVE OneRefresh' /\ OneConnection' /\ StoredKept'
  <2>1. OneRefresh /\ OneConnection /\ StoredKept
    BY <1>6 DEF SessionKept
  <2>2. r = refreshing /\ RefreshFits(handlers[r])
    <3>1. handlers[r].step # "closed"
      BY <1>2
    <3>2. r = refreshing /\ r # 0
      BY <1>1, <2>1, <3>1 DEF OneRefresh, Facts
    <3> QED
      BY <2>1, <3>2 DEF OneRefresh
  <2>3. OneRefresh'
    BY <1>1, <1>2, <2>1, <2>2 DEF OneRefresh, Extension!Closed, Facts
  <2>4. OneConnection'
    BY <1>2, <1>5, <2>1 DEF OneConnection, Between
  <2>5. HandlerFits(handlers[r], Len(tokens)) /\ handlers[r].token \in Nat
    BY <1>1 DEF Facts, HandlerRecords
  <2>6. StoredKept'
    <3>1. CASE handlers[r].step = "done"
      BY <1>2, <2>2, <2>5, <3>1 DEF StoredKept, RefreshFits, HandlerFits
    <3>2. CASE handlers[r].step = "denied"
      <4>1. stored' = Extension!NoToken
        BY <1>2, <2>5, <3>2 DEF HandlerFits
      <4>2. stored \in DOMAIN tokens
        BY <1>1, <2>2, <2>5, <3>2 DEF RefreshFits, HandlerFits, Facts, Extension!NoToken
      <4>3. tokens[stored].age = "expired"
        BY <2>2, <3>2 DEF RefreshFits
      <4> QED
        BY <1>2, <4>1, <4>2, <4>3 DEF StoredKept
    <3> QED
      BY <1>2, <3>1, <3>2
  <2> QED
    BY <2>3, <2>4, <2>6
<1> QED
  BY <1>2, <1>6 DEF SessionKept

\* A handler of the API goes on: it is the refresh the client waits for.
LEMMA HandlerOwns ==
  ASSUME Shape, SessionKept, ~upset, NEW r \in DOMAIN handlers, handlers[r].step # "closed"
  PROVE  /\ OneRefresh /\ OneConnection /\ StoredKept
         /\ r = refreshing /\ refreshing # 0 /\ RefreshFits(handlers[r]) /\ stored \in DOMAIN tokens
         /\ \A p \in Procs : ~Between(procs[p])
<1>1. Facts /\ OneRefresh /\ OneConnection /\ StoredKept
  BY ShapeFacts DEF SessionKept
<1>2. r = refreshing /\ refreshing # 0
  BY <1>1 DEF OneRefresh, Facts
<1>3. RefreshFits(handlers[r])
  BY <1>1, <1>2 DEF OneRefresh
<1>4. stored \in DOMAIN tokens
  <2>1. HandlerFits(handlers[r], Len(tokens))
    BY <1>1 DEF Facts
  <2> QED
    BY <1>1, <1>3, <2>1 DEF RefreshFits, HandlerFits, Facts, Extension!NoToken
<1>5. \A p \in Procs : ~Between(procs[p])
  BY <1>1, <1>2 DEF OneConnection
<1> QED
  BY <1>1, <1>2, <1>3, <1>4, <1>5

LEMMA HandlerResolvesKeeps ==
  ASSUME Shape, SessionKept, NEW r \in DOMAIN handlers, Extension!HandlerResolves(r)
  PROVE  SessionKept'
<1>1. /\ UNCHANGED <<tokens, site, stored, cached, refreshing, procs, upset>>
         /\ handlers[r].step = "asked"
  BY DEF Extension!HandlerResolves, Extension!client, Extension!history
<1>2. ASSUME ~upset PROVE OneRefresh' /\ OneConnection' /\ StoredKept'
  <2>1. /\ OneRefresh /\ OneConnection /\ StoredKept
        /\ r = refreshing /\ refreshing # 0 /\ RefreshFits(handlers[r]) /\ stored \in DOMAIN tokens
    BY <1>1, <1>2, HandlerOwns
  <2>2. handlers[r] \in HandlerRecords /\ handlers[r].token = stored /\ handlers[r].awaited
    BY <2>1, ShapeFacts DEF Facts, RefreshFits
  <2>3. PICK h : h = IF Extension!Active(stored) THEN [handlers[r] EXCEPT !.step = "resolved"]
                                       ELSE [handlers[r] EXCEPT !.step = "denied"]
    OBVIOUS
  <2>4. handlers' = [handlers EXCEPT ![r] = h]
    BY <2>2, <2>3 DEF Extension!HandlerResolves
  <2>5. /\ h.token = stored /\ h.awaited /\ h.step = IF Extension!Active(stored) THEN "resolved"
             ELSE "denied"
    BY <2>2, <2>3 DEF HandlerRecords
  <2>6. handlers'[r] = h /\ DOMAIN handlers' = DOMAIN handlers
        /\ \A s \in DOMAIN handlers \ {r} : handlers'[s] = handlers[s]
    BY <2>4
  <2>7. RefreshFits(handlers[refreshing])'
    <3>1. ~tokens[stored].revoked
      BY <1>1, <2>1 DEF RefreshFits
    <3>2. h.step = "denied" => tokens[stored].age = "expired"
      BY <2>5, <3>1 DEF Extension!Active
    <3> QED
      BY <1>1, <2>1, <2>5, <2>6, <3>1, <3>2 DEF RefreshFits
  <2>8. OneRefresh'
    BY <1>1, <2>1, <2>6, <2>7 DEF OneRefresh
  <2> QED
    BY <1>1, <2>1, <2>8 DEF OneConnection, StoredKept
<1> QED
  BY <1>1, <1>2 DEF SessionKept

LEMMA HandlerRevokesKeeps ==
  ASSUME Shape, SessionKept, NEW r \in DOMAIN handlers, Extension!HandlerRevokes(r)
  PROVE  SessionKept'
<1>1. /\ UNCHANGED <<site, stored, cached, refreshing, procs, upset>>
         /\ handlers[r].step = "resolved"
      /\ tokens' = [tokens EXCEPT ![handlers[r].token].revoked = TRUE]
      /\ handlers' = [handlers EXCEPT ![r].step = "revoked"]
  BY DEF Extension!HandlerRevokes, Extension!client, Extension!history
<1>2. ASSUME ~upset PROVE OneRefresh' /\ OneConnection' /\ StoredKept'
  <2>1. /\ OneRefresh /\ OneConnection /\ StoredKept
        /\ r = refreshing /\ refreshing # 0 /\ RefreshFits(handlers[r]) /\ stored \in DOMAIN tokens
        /\ \A p \in Procs : ~Between(procs[p])
    BY <1>1, <1>2, HandlerOwns
  <2>2. handlers[r] \in HandlerRecords /\ handlers[r].token = stored /\ handlers[r].awaited
    BY <2>1, ShapeFacts DEF Facts, RefreshFits
  <2>3. PICK h : h = [handlers[r] EXCEPT !.step = "revoked"]
    OBVIOUS
  <2>4. h.token = stored /\ h.awaited /\ h.step = "revoked"
    BY <2>2, <2>3 DEF HandlerRecords
  <2>5. handlers'[r] = h /\ DOMAIN handlers' = DOMAIN handlers
        /\ \A s \in DOMAIN handlers \ {r} : handlers'[s] = handlers[s]
    BY <1>1, <2>3
  <2>6. OneRefresh'
    <3>1. RefreshFits(handlers[refreshing])'
      BY <1>1, <2>1, <2>4, <2>5 DEF RefreshFits
    <3> QED
      BY <1>1, <2>1, <2>5, <3>1 DEF OneRefresh
  <2>7. OneConnection'
    BY <1>1, <2>1 DEF OneConnection, Between
  <2>8. \A t \in DOMAIN tokens : tokens'[t].age = tokens[t].age
    BY <1>1, <2>1, <2>2, RevokedIsSession
  <2>9. DOMAIN tokens' = DOMAIN tokens
    BY <1>1
  <2>10. StoredKept'
    BY <1>1, <2>1, <2>8, <2>9 DEF StoredKept
  <2> QED
    BY <2>6, <2>7, <2>10
<1> QED
  BY <1>1, <1>2 DEF SessionKept

\* A session is issued: the others are as they were.
LEMMA IssuesOne ==
  ASSUME Shape, tokens' = Append(tokens, Extension!Fresh)
  PROVE  /\ Len(tokens') = Len(tokens) + 1 /\ DOMAIN tokens \subseteq DOMAIN tokens'
         /\ \A t \in DOMAIN tokens : tokens'[t] = tokens[t]
         /\ ~tokens'[Len(tokens')].revoked /\ Len(tokens') # Extension!NoToken
<1>1. Facts
  BY ShapeFacts
<1>2. /\ tokens' \in Seq(SessionRecords) /\ Len(tokens') = Len(tokens) + 1
      /\ \A t \in DOMAIN tokens : tokens'[t] = tokens[t]
         /\ tokens'[Len(tokens) + 1] = Extension!Fresh
  BY IssuedOne
<1>3. tokens'[Len(tokens')] = Extension!Fresh
  BY <1>1, IssuedOne DEF Facts
<1>4. DOMAIN tokens' = 1..(Len(tokens) + 1)
  BY <1>1, <1>2 DEF Facts
<1> QED
  BY <1>1, <1>2, <1>3, <1>4 DEF Extension!Fresh, Facts, Extension!NoToken

LEMMA HandlerIssuesKeeps ==
  ASSUME Shape, SessionKept, NEW r \in DOMAIN handlers, Extension!HandlerIssues(r)
  PROVE  SessionKept'
<1>1. /\ UNCHANGED <<site, stored, cached, refreshing, procs, upset>>
         /\ handlers[r].step = "revoked"
      /\ tokens' = Append(tokens, Extension!Fresh)
  BY DEF Extension!HandlerIssues, Extension!client, Extension!history
<1>2. ASSUME ~upset PROVE OneRefresh' /\ OneConnection' /\ StoredKept'
  <2>1. /\ OneRefresh /\ OneConnection /\ StoredKept
        /\ r = refreshing /\ refreshing # 0 /\ RefreshFits(handlers[r]) /\ stored \in DOMAIN tokens
        /\ \A p \in Procs : ~Between(procs[p])
    BY <1>1, <1>2, HandlerOwns
  <2>2. handlers[r] \in HandlerRecords /\ handlers[r].token = stored /\ handlers[r].awaited
    BY <2>1, ShapeFacts DEF Facts, RefreshFits
  <2>3. PICK h : h = [handlers[r] EXCEPT !.step = "done", !.new = Len(tokens')]
    OBVIOUS
  <2>4. h.token = stored /\ h.awaited /\ h.step = "done" /\ h.new = Len(tokens')
    BY <2>2, <2>3 DEF HandlerRecords
  <2>5. handlers'[r] = h /\ DOMAIN handlers' = DOMAIN handlers
        /\ \A s \in DOMAIN handlers \ {r} : handlers'[s] = handlers[s]
    BY <2>2, <2>3 DEF Extension!HandlerIssues
  <2>6. /\ DOMAIN tokens \subseteq DOMAIN tokens' /\ ~tokens'[Len(tokens')].revoked
        /\ \A t \in DOMAIN tokens : tokens'[t] = tokens[t]
    BY <1>1, IssuesOne
  <2>7. OneRefresh'
    <3>1. RefreshFits(handlers[refreshing])'
      BY <1>1, <2>1, <2>4, <2>5, <2>6 DEF RefreshFits
    <3> QED
      BY <1>1, <2>1, <2>5, <3>1 DEF OneRefresh
  <2>8. OneConnection'
    BY <1>1, <2>1 DEF OneConnection, Between
  <2>9. StoredKept'
    BY <1>1, <2>1, <2>6 DEF StoredKept
  <2> QED
    BY <2>7, <2>8, <2>9
<1> QED
  BY <1>1, <1>2 DEF SessionKept

LEMMA BindRevokesKeeps ==
  ASSUME Shape, SessionKept, NEW p \in Procs, Extension!BindRevokes(p)
  PROVE  SessionKept'
<1>1. /\ UNCHANGED <<handlers, site, stored, cached, refreshing>>
      /\ tokens' = Extension!RevokeAll /\ upset' = (upset \/ Extension!Others(p))
  BY DEF Extension!BindRevokes, Extension!SameStore
<1>2. procs'[p].pc = "issue" /\ \A q \in Procs \ {p} : procs'[q] = procs[q]
  BY ShapeFacts DEF Extension!BindRevokes, Extension!Goto, Facts, CallStates
<1>3. \A t \in DOMAIN tokens : tokens'[t].age = tokens[t].age
  BY <1>1, RevokedAll
<1>4. DOMAIN tokens' = DOMAIN tokens
  BY <1>1 DEF Extension!RevokeAll
<1>5. ASSUME ~upset' PROVE OneRefresh' /\ OneConnection' /\ StoredKept'
  <2>1. ~upset /\ OneRefresh /\ StoredKept
    BY <1>1, <1>5 DEF SessionKept
  <2>2. refreshing = 0 /\ \A q \in Procs \ {p} : ~Between(procs[q])
    BY <1>1, <1>5 DEF Extension!Others, Between
  <2>3. OneRefresh'
    BY <1>1, <2>1, <2>2 DEF OneRefresh
  <2>4. OneConnection'
    BY <1>1, <1>2, <2>2 DEF OneConnection, Between
  <2>5. StoredKept'
    BY <1>1, <1>2, <1>3, <1>4, <2>1 DEF StoredKept, Between
  <2> QED
    BY <2>3, <2>4, <2>5
<1> QED
  BY <1>5 DEF SessionKept

LEMMA BindIssuesKeeps ==
  ASSUME Shape, SessionKept, NEW p \in Procs, Extension!BindIssues(p)
  PROVE  SessionKept'
<1>1. /\ UNCHANGED <<handlers, site, stored, cached, refreshing, upset>>
      /\ tokens' = Append(tokens, Extension!Fresh) /\ Between(procs[p])
  BY DEF Extension!BindIssues, Extension!SameStore, Extension!SameHistory, Extension!history,
     Between
<1>2. procs'[p].pc = "save" /\ procs'[p].token = Len(tokens')
  BY BindIssuesStep
<1>3. \A q \in Procs \ {p} : procs'[q] = procs[q]
  BY ShapeFacts DEF Extension!BindIssues, Extension!Goto, Facts
<1>4. /\ DOMAIN tokens \subseteq DOMAIN tokens' /\ ~tokens'[Len(tokens')].revoked
      /\ \A t \in DOMAIN tokens : tokens'[t] = tokens[t]
  BY <1>1, IssuesOne
<1>5. ASSUME ~upset PROVE OneRefresh' /\ OneConnection' /\ StoredKept'
  <2>1. OneRefresh /\ OneConnection /\ StoredKept
    BY <1>5 DEF SessionKept
  <2>2. refreshing = 0 /\ \A q \in Procs \ {p} : ~Between(procs[q])
    BY <1>1, <2>1 DEF OneConnection
  <2>3. OneRefresh'
    BY <1>1, <2>1, <2>2 DEF OneRefresh
  <2>4. OneConnection'
    BY <1>1, <1>2, <1>3, <1>4, <2>2 DEF OneConnection, Between
  <2>5. StoredKept'
    BY <1>1, <1>2, <1>4, <2>1 DEF StoredKept, Between
  <2> QED
    BY <2>3, <2>4, <2>5
<1> QED
  BY <1>1, <1>5 DEF SessionKept

LEMMA BindSavedKeeps ==
  ASSUME Shape, SessionKept, NEW p \in Procs, Extension!BindSaved(p)
  PROVE  SessionKept'
<1>1. /\ UNCHANGED <<tokens, handlers, site, refreshing, upset>> /\ procs[p].pc = "save"
      /\ stored' = procs[p].token /\ cached' = TRUE
  BY DEF Extension!BindSaved, Extension!SameServer, Extension!SameHistory, Extension!server,
     Extension!history
<1>2. procs'[p].pc \in {"idle", "flush", "session"}
  BY BindSavedStep
<1>3. \A q \in Procs \ {p} : procs'[q] = procs[q]
  BY ShapeFacts DEF Extension!BindSaved, Extension!Goto, Facts
<1>4. ASSUME ~upset PROVE OneRefresh' /\ OneConnection' /\ StoredKept'
  <2>1. OneRefresh /\ OneConnection
    BY <1>4 DEF SessionKept
  <2>2. refreshing = 0 /\ ~tokens[procs[p].token].revoked
        /\ \A q \in Procs \ {p} : ~Between(procs[q])
    BY <1>1, <2>1 DEF OneConnection, Between
  <2>3. OneRefresh'
    BY <1>1, <2>1, <2>2 DEF OneRefresh
  <2>4. OneConnection'
    BY <1>1, <1>2, <1>3, <2>2 DEF OneConnection, Between
  <2>5. StoredKept'
    <3>1. procs[p].token # Extension!NoToken
      BY <1>1, ShapeFacts DEF Facts, Holds
    <3> QED
      BY <1>1, <2>2, <3>1 DEF StoredKept
  <2> QED
    BY <2>3, <2>4, <2>5
<1> QED
  BY <1>1, <1>4 DEF SessionKept

LEMMA RestartKeeps ==
  ASSUME Shape, SessionKept, Extension!Restart
  PROVE  SessionKept'
<1>1. /\ UNCHANGED <<tokens, site, stored, cached>> /\ refreshing' = 0
      /\ upset' = (upset \/ refreshing # 0 \/ Extension!Binding)
      /\ DOMAIN handlers' = DOMAIN handlers
  BY DEF Extension!Restart, Extension!SameStore
<1>2. \A p \in Procs : ~Between(procs'[p])
  BY DEF Extension!Restart, Between, Extension!Idle
<1>3. ASSUME ~upset' PROVE OneRefresh' /\ OneConnection' /\ StoredKept'
  <2>1. ~upset /\ OneRefresh /\ StoredKept /\ refreshing = 0
    BY <1>1, <1>3 DEF SessionKept
  <2>2. \A p \in Procs : ~Between(procs[p])
    BY <1>1, <1>3 DEF Extension!Binding, Between
  <2>3. ASSUME NEW r \in DOMAIN handlers PROVE handlers'[r].step = "closed"
    <3>1. handlers[r].step = "closed"
      BY <2>1, ShapeFacts DEF OneRefresh, Facts
    <3>2. handlers'[r] = [handlers[r] EXCEPT !.awaited = FALSE] /\ handlers[r] \in HandlerRecords
      BY <3>1, ShapeFacts DEF Extension!Restart, Facts
    <3> QED
      BY <3>1, <3>2 DEF HandlerRecords
  <2>4. OneRefresh'
    BY <1>1, <2>1, <2>3 DEF OneRefresh
  <2>5. OneConnection'
    BY <1>1, <1>2 DEF OneConnection, Between
  <2>6. StoredKept'
    BY <1>1, <2>1, <2>2 DEF StoredKept
  <2> QED
    BY <2>4, <2>5, <2>6
<1> QED
  BY <1>3 DEF SessionKept

-----------------------------------------------------------------------------
\* The inductive invariant of the client and the API's sessions.
ExtInv == Shape /\ EventsInv /\ SessionKept

LEMMA CallKeeps ==
  ASSUME ExtInv, NEW p \in Procs, Extension!Call(p)
  PROVE  ExtInv'
<1>0. Shape /\ EventsInv /\ SessionKept
  BY DEF ExtInv
<1>1. CASE Extension!StartSend(p)
  BY <1>0, <1>1, StartSendEvents, StartsKeep DEF ExtInv
<1>2. CASE Extension!StartFlush(p)
  BY <1>0, <1>2, StartFlushEvents, StartsKeep DEF ExtInv
<1>3. CASE Extension!StartRefresh(p)
  BY <1>0, <1>3, StartRefreshEvents, StartsKeep DEF ExtInv
<1>4. CASE Extension!StartConnect(p)
  BY <1>0, <1>4, StartConnectEvents, StartsKeep DEF ExtInv
<1>5. CASE Extension!ReadSession(p)
  BY <1>0, <1>5, ReadSessionEvents, ReadSessionKeeps DEF ExtInv
<1>6. CASE Extension!SendAccepted(p)
  BY <1>0, <1>6, SendAcceptedEvents, SendsKeep DEF ExtInv
<1>7. CASE Extension!SendRefused(p)
  BY <1>0, <1>7, SendRefusedEvents, SendsKeep DEF ExtInv
<1>8. CASE Extension!SendFails(p)
  BY <1>0, <1>8, SendFailsEvents, SendsKeep DEF ExtInv
<1>9. CASE Extension!SendUnauthorized(p)
  BY <1>0, <1>9, SendUnauthorizedEvents, SendsKeep DEF ExtInv
<1>10. CASE Extension!AppendReads(p)
  BY <1>0, <1>10, AppendReadsEvents, BufferKeeps DEF ExtInv
<1>11. CASE Extension!AppendWrites(p)
  BY <1>0, <1>11, AppendWritesEvents, BufferKeeps DEF ExtInv
<1>12. CASE Extension!CheckReconnect(p)
  BY <1>0, <1>12, CheckReconnectEvents, BufferKeeps DEF ExtInv
<1>13. CASE Extension!FlushReads(p)
  BY <1>0, <1>13, FlushReadsEvents, BufferKeeps DEF ExtInv
<1>14. CASE Extension!FlushAccepted(p)
  BY <1>0, <1>14, FlushAcceptedEvents, FlushKeeps DEF ExtInv
<1>15. CASE Extension!FlushStops(p)
  BY <1>0, <1>15, FlushStopsEvents, FlushKeeps DEF ExtInv
<1>16. CASE Extension!FlushWrites(p)
  BY <1>0, <1>16, FlushWritesEvents, FlushKeeps DEF ExtInv
<1>17. CASE Extension!BindRevokes(p)
  BY <1>0, <1>17, BindRevokesEvents, BindRevokesKeeps DEF ExtInv
<1>18. CASE Extension!BindIssues(p)
  BY <1>0, <1>18, BindIssuesEvents, BindIssuesKeeps DEF ExtInv
<1>19. CASE Extension!BindSaved(p)
  BY <1>0, <1>19, BindSavedEvents, BindSavedKeeps DEF ExtInv
<1>20. CASE Extension!BindFails(p)
  BY <1>0, <1>20, BindFailsEvents, BindFailsKeeps DEF ExtInv
<1> QED
  BY <1>1, <1>2, <1>3, <1>4, <1>5, <1>6, <1>7, <1>8, <1>9, <1>10, <1>11, <1>12, <1>13, <1>14,
     <1>15, <1>16, <1>17, <1>18, <1>19, <1>20 DEF Extension!Call

LEMMA RefreshKeeps ==
  ASSUME ExtInv, NEW r \in DOMAIN handlers, Extension!Refresh(r)
  PROVE  ExtInv'
<1>0. Shape /\ EventsInv /\ SessionKept
  BY DEF ExtInv
<1>1. CASE Extension!RefreshReply(r)
  BY <1>0, <1>1, RefreshReplyEvents, RefreshReplyKeeps DEF ExtInv
<1>2. CASE Extension!RefreshFails(r)
  BY <1>0, <1>2, RefreshFailsEvents, RefreshFailsKeeps DEF ExtInv
<1>3. CASE Extension!HandlerResolves(r)
  BY <1>0, <1>3, HandlerResolvesEvents, HandlerResolvesKeeps DEF ExtInv
<1>4. CASE Extension!HandlerRevokes(r)
  BY <1>0, <1>4, HandlerRevokesEvents, HandlerRevokesKeeps DEF ExtInv
<1>5. CASE Extension!HandlerIssues(r)
  BY <1>0, <1>5, HandlerIssuesEvents, HandlerIssuesKeeps DEF ExtInv
<1> QED
  BY <1>1, <1>2, <1>3, <1>4, <1>5 DEF Extension!Refresh

LEMMA StutterKeeps == ASSUME ExtInv, UNCHANGED Extension!vars PROVE ExtInv'
<1>1. UNCHANGED <<tokens, handlers, site, stored, cached, buffer, refreshing, procs, used,
                  received, flushed, appended, excused, ended, overlap, upset>>
  BY DEF Extension!vars, Extension!server, Extension!client, Extension!history
<1>2. Shape'
  BY <1>1 DEF ExtInv, Shape, ClientTyped
<1>3. EventsInv'
  <2>1. OwnEvents'
    BY <1>1 DEF ExtInv, EventsInv, OwnEvents, Told, Extension!EventsIn
  <2>2. Accounted'
    BY <1>1 DEF ExtInv, EventsInv, Accounted, Extension!EventsIn
  <2>3. BufferCalm'
    BY <1>1
       DEF ExtInv, EventsInv, BufferCalm, LastOnes, Dropped, Extension!FlushedInOrder,
         Extension!AtBuffer
  <2> QED
    BY <2>1, <2>2, <2>3 DEF EventsInv
<1>4. SessionKept'
  BY <1>1 DEF ExtInv, SessionKept, OneRefresh, RefreshFits, OneConnection, StoredKept
<1> QED
  BY <1>2, <1>3, <1>4 DEF ExtInv

LEMMA NextKeeps == ASSUME ExtInv, [Extension!Next]_(Extension!vars) PROVE ExtInv'
<1>0. Shape /\ EventsInv /\ SessionKept
  BY DEF ExtInv
<1>1. CASE \E p \in Procs : Extension!Call(p)
  BY <1>1, CallKeeps
<1>2. CASE \E r \in DOMAIN handlers : Extension!Refresh(r)
  BY <1>2, RefreshKeeps
<1>3. CASE Extension!SiteRevokes \/ Extension!SiteIssues
  BY <1>0, <1>3, OtherEvents, SiteKeeps DEF ExtInv
<1>4. CASE Extension!Restart
  BY <1>0, <1>4, RestartEvents, RestartKeeps DEF ExtInv
<1>5. CASE \E t \in DOMAIN tokens : Extension!SessionAges(t)
  BY <1>0, <1>5, OtherEvents, SessionAgesKeeps DEF ExtInv
<1>6. CASE UNCHANGED Extension!vars
  BY <1>6, StutterKeeps
<1> QED
  BY <1>1, <1>2, <1>3, <1>4, <1>5, <1>6 DEF Extension!Next

LEMMA ExtInvCorrect == Extension!Spec => []ExtInv
<1>1. Extension!Init => ExtInv
  BY ShapeInit, EventsInit, SessionInit DEF ExtInv
<1>2. ExtInv /\ [Extension!Next]_(Extension!vars) => ExtInv'
  BY NextKeeps
<1> QED
  BY <1>1, <1>2, PTL DEF Extension!Spec

LEMMA ShapeTypes == ASSUME Shape PROVE Extension!TypeOK
<1>1. Facts /\ ClientTyped
  BY ShapeFacts DEF Shape
<1>2. \A t \in DOMAIN tokens : tokens[t] \in [revoked : BOOLEAN,
        age : {"fresh", "closing", "expired"}]
  <2>1. \A t \in DOMAIN tokens : tokens[t] \in SessionRecords
    BY <1>1 DEF Facts
  <2> QED
    BY <2>1 DEF SessionRecords
<1>3. /\ stored \in {Extension!NoToken} \cup DOMAIN tokens /\ cached \in BOOLEAN
      /\ refreshing \in {0} \cup DOMAIN handlers /\ site \in {"idle", "revoked"}
  BY <1>1 DEF Facts, ClientTyped, Extension!NoToken
<1>4. ASSUME NEW r \in DOMAIN handlers
      PROVE  /\ handlers[r].step \in {"asked", "resolved", "revoked", "done", "denied", "closed"}
             /\ handlers[r].step \in {"done", "denied"} => handlers[r].awaited
             /\ handlers[r].new \in {Extension!NoToken} \cup DOMAIN tokens
  <2>1. handlers[r] \in HandlerRecords /\ HandlerFits(handlers[r], Len(tokens))
    BY <1>1 DEF Facts
  <2> QED
    BY <1>1, <2>1 DEF Facts, HandlerRecords, HandlerFits, Extension!NoToken
<1>5. Extension!EventsIn(buffer) \subseteq Extension!Events /\ Len(buffer) <= MaxItems
  BY <1>1 DEF ClientTyped, Extension!EventsIn
<1>6. ASSUME NEW p \in Procs
      PROVE  /\ procs[p].pc \in Extension!Pcs
                /\ procs[p].token \in {Extension!NoToken} \cup DOMAIN tokens
             /\ procs[p].pc \in {"request", "deliver"} => procs[p].token # Extension!NoToken
  <2>1. procs[p] \in CallStates /\ Holds(procs[p], Len(tokens))
    BY <1>1 DEF Facts
  <2> QED
    BY <1>1, <2>1 DEF Facts, CallStates, Holds, Extension!NoToken
<1> QED
  BY <1>2, <1>3, <1>4, <1>5, <1>6 DEF Extension!TypeOK

LEMMA AccountedLosesNone == ASSUME Shape, EventsInv PROVE Extension!NothingLostWhenCalm
<1>1. ASSUME ~overlap, NEW e \in ended
             PROVE e \in received \cup Extension!EventsIn(buffer) \cup excused
  <2>1. CASE e \in Extension!EventsIn(appended)
    <3>1. LastOnes
      BY <1>1 DEF EventsInv, BufferCalm
    <3>2. /\ DOMAIN appended = 1..Len(appended) /\ Len(appended) \in Nat
          /\ DOMAIN buffer = 1..Len(buffer) /\ Len(buffer) \in Nat
      BY DEF Shape, ClientTyped
    <3>3. PICK i \in DOMAIN appended : e = appended[i]
      BY <2>1 DEF Extension!EventsIn
    <3>4. CASE i <= Dropped
      BY <3>1, <3>3, <3>4 DEF LastOnes, EventsInv, Accounted
    <3>5. CASE i > Dropped
      <4>1. PICK k \in Int : k = i - Dropped
        BY <3>2, <3>3 DEF Dropped
      <4>2. k \in DOMAIN buffer /\ Dropped + k = i
        BY <3>2, <3>3, <3>5, <4>1 DEF Dropped
      <4>3. buffer[k] = e
        BY <3>1, <3>3, <4>2 DEF LastOnes
      <4> QED
        BY <4>2, <4>3 DEF Extension!EventsIn
    <3> QED
      BY <3>2, <3>3, <3>4, <3>5 DEF Dropped
  <2>2. CASE e \notin Extension!EventsIn(appended)
    BY <1>1, <2>2 DEF EventsInv, Accounted
  <2> QED
    BY <2>1, <2>2
<1> QED
  BY <1>1 DEF Extension!NothingLostWhenCalm

\* Whatever the calls, replies and restarts, the extension's buffer stays within its
\* capacity, everything it stores keeps its shape, and a flush that met no other call at
\* the buffer has delivered the events in the order they were buffered.
THEOREM BufferHoldsCorrect == Extension!Spec => []BufferHolds
<1>1. ExtInv => BufferHolds
  <2>1. ASSUME ExtInv PROVE Extension!FlushedInOrder
    BY <2>1 DEF ExtInv, EventsInv, BufferCalm, Extension!FlushedInOrder
  <2>2. ASSUME ExtInv PROVE Extension!TypeOK
    BY <2>2, ShapeTypes DEF ExtInv
  <2> QED
    BY <2>1, <2>2 DEF BufferHolds, Extension!BufferHolds
<1> QED
  BY <1>1, ExtInvCorrect, PTL

\* No usage event whose call has ended is lost, unless two calls were at the buffer at
\* once: the API has it, the buffer has it, or it was refused or trimmed.
THEOREM NothingLostWhenCalmCorrect == Extension!Spec => []NothingLostWhenCalm
<1>1. ExtInv => NothingLostWhenCalm
  BY AccountedLosesNone DEF ExtInv, NothingLostWhenCalm
<1> QED
  BY <1>1, ExtInvCorrect, PTL

\* However many calls find the session to be refreshed, the refresh they share leaves the
\* installation the session it stores, unless something else touched the sessions.
THEOREM SessionSurvivesCorrect == Extension!Spec => []SessionSurvives
<1>1. ExtInv => SessionSurvives
  BY DEF ExtInv, SessionKept, StoredKept, SessionSurvives, Extension!SessionSurvives,
     Extension!Binding, Between
<1> QED
  BY <1>1, ExtInvCorrect, PTL

==============================================================================
