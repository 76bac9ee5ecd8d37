------------------------------- MODULE WebSessions -------------------------------
(***************************************************************************)
(* The sign-in session of a browser: AuthService and the Session table on   *)
(* the one side; on the other the site, which keeps the two tokens of a      *)
(* session as cookies, renews them in its middleware when the access token   *)
(* has run out, and passes logins and sign-outs on to the API.               *)
(*                                                                         *)
(* The tabs of the browser share the cookies: a request carries those there  *)
(* are when it is sent, and its answer sets cookies when it arrives.  The    *)
(* API's statements are no transaction.  One action is one statement, one    *)
(* sending, or one arrival.                                                *)
(***************************************************************************)
EXTENDS Integers, Sequences

CONSTANTS
  Tabs,            \* requests of the browser that are served at a time
  MaxRequests,     \* bound: requests of the browser that bear on sessions
  MaxSessions,     \* bound: sessions issued
  MaxDisturbances  \* bound: failures, lost answers, cookies that go early

VARIABLES
  sessions,    \* Session rows of the user, by their number: live, revoked or expired
  cookies,     \* the access and the refresh token, each as the session it belongs to
  request,     \* what each tab's request is at, with the cookies it carries
  left,        \* history: sessions the browser let go of without ending them
  overlapped,  \* history: two requests that bear on sessions were under way at a time
  sent,        \* how many requests
  disturbances \* failures, lost answers, cookies gone early

vars == <<sessions, cookies, request, left, overlapped, sent, disturbances>>

None == 0
NoCookies == [access |-> None, refresh |-> None]
NoRequest == [kind |-> "none", pc |-> "none"]

Init ==
  /\ sessions = <<>>
  /\ cookies = NoCookies
  /\ request = [t \in Tabs |-> NoRequest]
  /\ left = {}
  /\ overlapped = FALSE
  /\ sent = 0
  /\ disturbances = 0

Live(s) == s # None /\ sessions[s] = "live"

UnderWay == {t \in Tabs : request[t] # NoRequest}

-----------------------------------------------------------------------------
(* The site, on its way to the API                                          *)

Send(t, kind, pc) ==
  /\ request[t] = NoRequest
  /\ sent < MaxRequests /\ sent' = sent + 1
  /\ request' = [request EXCEPT ![t] = [kind |-> kind, pc |-> pc, new |-> None,
                                         access |-> cookies.access, refresh |-> cookies.refresh]]
  /\ overlapped' = (overlapped \/ UnderWay # {})
  /\ UNCHANGED <<sessions, cookies, left, disturbances>>

\* middleware: a page that comes without an access token renews the session first.  Other
\* pages change nothing.
OpenPage(t) == cookies.access = None /\ cookies.refresh # None /\ Send(t, "page", "find")

\* POST /bff/auth/refresh, which the middleware leaves alone, as it does the following.
Renew(t) == cookies.refresh # None /\ Send(t, "renew", "find")

\* Login and registration, once the API has checked what the user has entered.
Login(t) == Send(t, "login", "create")

\* resetPassword, once the link has been checked and the password is changed.
ResetPassword(t) == Send(t, "reset", "revokeAll")

\* Sign-out names the refresh token, without one the access token's session, without
\* either nothing.
Logout(t) ==
  Send(t, "logout", IF cookies.refresh # None THEN "find"
                    ELSE IF cookies.access # None THEN "revoke" ELSE "ended")

\* Without an access token only the cookies go.
LogoutAll(t) == Send(t, "logoutAll", IF cookies.access # None THEN "revokeAll" ELSE "ended")

-----------------------------------------------------------------------------
(* The API                                                                  *)

Subject(q) == IF q.refresh # None THEN q.refresh ELSE q.access

Step(t, pc) == request' = [request EXCEPT ![t].pc = pc]

Failed(q) == IF q.kind = "logout" THEN "ended" ELSE "failed"

\* findActiveByTokenHash.
Find(t) ==
  /\ request[t].pc = "find"
  /\ Step(t, IF Live(request[t].refresh) THEN "revoke" ELSE Failed(request[t]))
  /\ UNCHANGED <<sessions, cookies, left, overlapped, sent, disturbances>>

\* revoke, by id alone.
Revoke(t) ==
  LET q == request[t]
  IN  /\ q.pc = "revoke"
      /\ sessions' = [sessions EXCEPT ![Subject(q)] = "revoked"]
      /\ Step(t, IF q.kind = "logout" THEN "ended" ELSE "create")
      /\ UNCHANGED <<cookies, left, overlapped, sent, disturbances>>

\* revokeAllForUser.
RevokeAll(t) ==
  /\ request[t].pc = "revokeAll"
  /\ sessions' = [s \in DOMAIN sessions |-> IF Live(s) THEN "revoked" ELSE sessions[s]]
  /\ Step(t, IF request[t].kind = "reset" THEN "create" ELSE "ended")
  /\ UNCHANGED <<cookies, left, overlapped, sent, disturbances>>

\* issueSession.
Create(t) ==
  /\ request[t].pc = "create"
  /\ Len(sessions) < MaxSessions
  /\ sessions' = Append(sessions, "live")
  /\ request' = [request EXCEPT ![t].pc = "issued", ![t].new = Len(sessions) + 1]
  /\ UNCHANGED <<cookies, left, overlapped, sent, disturbances>>

\* The API fails, or its answer does not reach the site.
Fail(t) ==
  /\ request[t].pc \in {"find", "revoke", "revokeAll", "create", "issued"}
  /\ disturbances < MaxDisturbances
  /\ disturbances' = disturbances + 1
  /\ Step(t, Failed(request[t]))
  /\ UNCHANGED <<sessions, cookies, left, overlapped, sent>>

-----------------------------------------------------------------------------
(* The answer                                                               *)

\* Mistake: the middleware keeps the new access token alone.
CookiesAfterAccessOnly(q) ==
  IF q.pc = "issued"
    THEN [access |-> q.new, refresh |-> IF q.kind = "page" THEN cookies.refresh ELSE q.new]
  ELSE IF q.pc = "ended" THEN NoCookies
  ELSE IF q.kind = "page" THEN [cookies EXCEPT !.refresh = None]
  ELSE cookies

\* persistAuthSession and clearAuthSession; a page whose renewal fails drops the refresh
\* token.
CookiesAfter(q) ==
  IF q.pc = "issued" THEN [access |-> q.new, refresh |-> q.new]
  ELSE IF q.pc = "ended" THEN NoCookies
  ELSE IF q.kind = "page" THEN [cookies EXCEPT !.refresh = None]
  ELSE cookies

\* A login does not end the session there was, and without an access token a sign-out
\* everywhere ends none.
LetsGo(q) == \/ q.kind = "login" /\ q.pc = "issued"
             \/ q.kind = "logoutAll" /\ q.access = None

Arrive(t) ==
  LET q == request[t]
  IN  /\ q.pc \in {"issued", "ended", "failed"}
      /\ cookies' = CookiesAfter(q)
      /\ left' = IF LetsGo(q) THEN left \cup {cookies.refresh} ELSE left
      /\ request' = [request EXCEPT ![t] = NoRequest]
      /\ UNCHANGED <<sessions, overlapped, sent, disturbances>>

\* The tab is closed, or the connection drops.
AnswerLost(t) ==
  /\ request[t].pc \in {"issued", "ended", "failed"}
  /\ disturbances < MaxDisturbances
  /\ disturbances' = disturbances + 1
  /\ request' = [request EXCEPT ![t] = NoRequest]
  /\ UNCHANGED <<sessions, cookies, left, overlapped, sent>>

-----------------------------------------------------------------------------
(* Time                                                                     *)

\* The cookie lives as long as its token,
AccessExpires ==
  /\ cookies.access # None
  /\ cookies' = [cookies EXCEPT !.access = None]
  /\ UNCHANGED <<sessions, request, left, overlapped, sent, disturbances>>

\* and this one for thirty days, whatever the retention policy gives a session.
RefreshExpires ==
  /\ cookies.refresh # None
  /\ disturbances < MaxDisturbances
  /\ disturbances' = disturbances + 1
  /\ cookies' = [cookies EXCEPT !.refresh = None]
  /\ UNCHANGED <<sessions, request, left, overlapped, sent>>

\* expiresAt has passed.
SessionExpires(s) ==
  /\ Live(s)
  /\ sessions' = [sessions EXCEPT ![s] = "expired"]
  /\ UNCHANGED <<cookies, request, left, overlapped, sent, disturbances>>

Next ==
  \/ \E t \in Tabs :
        \/ OpenPage(t) \/ Renew(t) \/ Login(t) \/ ResetPassword(t) \/ Logout(t) \/ LogoutAll(t)
        \/ Find(t) \/ Revoke(t) \/ RevokeAll(t) \/ Create(t) \/ Fail(t)
        \/ Arrive(t) \/ AnswerLost(t)
  \/ AccessExpires \/ RefreshExpires
  \/ \E s \in DOMAIN sessions : SessionExpires(s)

Spec == Init /\ [][Next]_vars

-----------------------------------------------------------------------------
(* Properties                                                              *)

\* The two cookies never are of different sessions, in whatever order answers arrive.
CookiesArePair ==
  cookies.access # None /\ cookies.refresh # None => cookies.access = cookies.refresh

Calm == UnderWay = {} /\ ~overlapped /\ disturbances = 0

\* As long as requests do not overlap and none is disturbed, the browser is signed out only
\* when the user asked for it or the session expired: its refresh token is good.
KeepsSession == Calm /\ cookies.refresh # None => sessions[cookies.refresh] # "revoked"

\* Then, too, no session stays behind when the browser has been given another or none,
\* but those that a login replaced and those that a sign-out everywhere left alone, as
\* the access token had expired.
NoStraySession ==
  Calm => \A s \in DOMAIN sessions : Live(s) => s = cookies.refresh \/ s \in left

\* Cookies and sessions fit.
CookiesFitSessions == CookiesArePair /\ KeepsSession /\ NoStraySession
=============================================================================
