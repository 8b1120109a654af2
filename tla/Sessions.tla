------------------------------ MODULE Sessions ------------------------------
(***************************************************************************)
(* Logging in and out: the routes /, /login, /login/force, /login/otp and  *)
(* /logout (main.py), the keys they keep in Redis (session_service.py,     *)
(* captcha_service.py, the login codes of otp_service.py) and the check    *)
(* every other route makes (current_actor).                                *)
(*                                                                         *)
(* A page sent to a browser holds a token; it may be submitted again, from *)
(* another tab or after the back button, while an earlier submission is    *)
(* still being served.  Each await is a step of its own.  Accounts without *)
(* an e-mail address, which cannot get a code, are left out.               *)
(***************************************************************************)
EXTENDS Integers

CONSTANTS
  Accounts,
  Captchas,   \* tokens of captchas, one for each login page (bound on their number)
  Requests,   \* submissions that may be in progress
  MaxIssued,  \* bound on the other tokens and the nonces issued
  None        \* NULL

ASSUME SessionsAssumption ==
  MaxIssued \in Nat /\ None \notin Accounts \cup Captchas /\ Captchas \cap Nat = {}

VARIABLES
  shown,    \* the captchas that have been sent to a browser
  issued,   \* how many confirmations, login codes and nonces have been issued
  page,     \* what each of them was issued for
  live,     \* the tokens whose key (captcha:, conflict:, otp:) exists
  active,   \* the nonce under active_session:<account>; 0 when there is no such key
  cookies,  \* the nonces of the cookies browsers hold
  role,     \* accounts.role, which never changes: ADMIN and AGENT log in alike
  status,   \* accounts.status
  request   \* submissions being served

vars == <<shown, issued, page, live, active, cookies, role, status, request>>

Tokens == 1 .. MaxIssued
Kinds == {"confirm", "code", "session"}

\* `from' is the token whose page led here; `looked' is how much had been issued when
\* that login last saw its account without a session.  The program keeps neither.
Page == [kind : Kinds \cup {"none"}, account : Accounts \cup {None},
         from : Tokens \cup Captchas \cup {None}, looked : Tokens \cup {0}]
Request == [at : {"password", "look", "conflict", "code", "open", "invalidate", "status",
                  "actor"},
            account : Accounts, from : Tokens \cup Captchas, looked : Tokens \cup {0}]

TypeOK ==
  /\ shown \subseteq Captchas
  /\ issued \in 0 .. MaxIssued
  /\ page \in [Tokens -> Page]
  /\ \A t \in 1 .. issued : page[t].account \in Accounts
  /\ live \subseteq shown \cup 1 .. issued
  /\ active \in [Accounts -> 0 .. issued]
  /\ \A u \in Accounts : active[u] # 0 =>
       page[active[u]].kind = "session" /\ page[active[u]].account = u
  /\ cookies \subseteq {n \in 1 .. issued : page[n].kind = "session"}
  /\ role \in [Accounts -> {"AGENT", "USER"}]
  /\ status \in [Accounts -> {"ACTIVE", "INACTIVE"}]
  /\ request \in [Requests -> Request \cup {None}]

Init ==
  /\ shown = {}
  /\ issued = 0
  /\ page = [t \in Tokens |-> [kind |-> "none", account |-> None, from |-> None, looked |-> 0]]
  /\ live = {}
  /\ active = [u \in Accounts |-> 0]
  /\ cookies = {}
  /\ role \in [Accounts -> {"AGENT", "USER"}]
  /\ status = [u \in Accounts |-> "ACTIVE"]
  /\ request = [r \in Requests |-> None]

-----------------------------------------------------------------------------
Pages(kind) == {t \in 1 .. issued : page[t].kind = kind}

\* A token nobody has seen is issued to the login of request r.
Issue(r, kind) ==
  /\ issued < MaxIssued
  /\ issued' = issued + 1
  /\ page' = [page EXCEPT ![issued + 1] =
       [kind |-> kind, account |-> request[r].account, from |-> request[r].from,
        looked |-> request[r].looked]]

FaultyTake(t) == t \in live /\ UNCHANGED live  \* GET for GETDEL
Take(t) == t \in live /\ live' = live \ {t}

Begin(r, at, u, t, looked) ==
  request' = [request EXCEPT ![r] = [at |-> at, account |-> u, from |-> t, looked |-> looked]]
Go(r, at) == request' = [request EXCEPT ![r].at = at]
Answer(r) == request' = [request EXCEPT ![r] = None]
At(r, at) == request[r] # None /\ request[r].at = at

-----------------------------------------------------------------------------
\* GET /: a login form with a captcha.
ShowLogin ==
  /\ \E c \in Captchas \ shown : shown' = shown \cup {c} /\ live' = live \cup {c}
  /\ UNCHANGED <<issued, page, active, cookies, role, status, request>>

\* POST /login: the captcha is gone, whether or not the answer was right ...
VerifyCaptcha(r) ==
  /\ request[r] = None
  /\ \E c \in shown, u \in Accounts :
       /\ Take(c)
       /\ UNCHANGED request \/ Begin(r, "password", u, c, 0)
  /\ UNCHANGED <<shown, issued, page, active, cookies, role, status>>

\* ... the password must be right and the account active ...
VerifyCredentials(r) ==
  /\ At(r, "password")
  /\ \/ status[request[r].account] = "ACTIVE" /\ Go(r, "look")
     \/ Answer(r)
  /\ UNCHANGED <<shown, issued, page, live, active, cookies, role, status>>

FaultyLookForSession(r) ==  \* no look at the session there is
  /\ At(r, "look")
  /\ request' = [request EXCEPT ![r] =
       [@ EXCEPT !.at = IF role[request[r].account] = "AGENT" THEN "code" ELSE "open",
                 !.looked = issued]]
  /\ UNCHANGED <<shown, issued, page, live, active, cookies, role, status>>

\* ... a session that is there must be given up first ...
LookForSession(r) ==
  /\ At(r, "look")
  /\ \/ active[request[r].account] # 0 /\ Go(r, "conflict")
     \/ /\ active[request[r].account] = 0
        /\ request' = [request EXCEPT ![r] =
             [@ EXCEPT !.at = IF role[request[r].account] = "AGENT" THEN "code" ELSE "open",
                       !.looked = issued]]
  /\ UNCHANGED <<shown, issued, page, live, active, cookies, role, status>>

CreateConflictToken(r) ==
  /\ At(r, "conflict")
  /\ Issue(r, "confirm") /\ live' = live \cup {issued + 1}
  /\ Answer(r)
  /\ UNCHANGED <<shown, active, cookies, role, status>>

\* ... administrators and agents get a code by e-mail ...
CreateLoginCode(r) ==
  /\ At(r, "code")
  /\ Issue(r, "code") /\ live' = live \cup {issued + 1}
  /\ Answer(r)
  /\ UNCHANGED <<shown, active, cookies, role, status>>

FaultySetActiveSession(r) ==  \* the token of the page is stored for the nonce
  /\ At(r, "open")
  /\ Issue(r, "session")
  /\ active' = [active EXCEPT ![request[r].account] = request[r].from]
  /\ cookies' = cookies \cup {issued + 1}
  /\ Answer(r)
  /\ UNCHANGED <<shown, live, role, status>>

\* ... and a session begins, whatever active_session:<account> has become meanwhile.
SetActiveSession(r) ==
  /\ At(r, "open")
  /\ Issue(r, "session")
  /\ active' = [active EXCEPT ![request[r].account] = issued + 1]
  /\ cookies' = cookies \cup {issued + 1}
  /\ Answer(r)
  /\ UNCHANGED <<shown, live, role, status>>

\* POST /login/force: the confirmation ends the session there is now, whichever it is.
ConsumeConflictToken(r) ==
  /\ request[r] = None
  /\ \E t \in Pages("confirm") : Take(t) /\ Begin(r, "invalidate", page[t].account, t, 0)
  /\ UNCHANGED <<shown, issued, page, active, cookies, role, status>>

InvalidateSession(r) ==
  /\ At(r, "invalidate")
  /\ active' = [active EXCEPT ![request[r].account] = 0]
  /\ request' = [request EXCEPT ![r] =
       [@ EXCEPT !.at = IF role[request[r].account] = "AGENT" THEN "status" ELSE "open",
                 !.looked = issued]]
  /\ UNCHANGED <<shown, issued, page, live, cookies, role, status>>

CheckStatus(r) ==
  /\ At(r, "status")
  /\ IF status[request[r].account] = "ACTIVE" THEN Go(r, "code") ELSE Answer(r)
  /\ UNCHANGED <<shown, issued, page, live, active, cookies, role, status>>

\* POST /login/otp: the code is gone, right or wrong.
VerifyLoginCode(r) ==
  /\ request[r] = None
  /\ \E t \in Pages("code") :
       /\ Take(t)
       /\ UNCHANGED request \/ Begin(r, "actor", page[t].account, t, page[t].looked)
  /\ UNCHANGED <<shown, issued, page, active, cookies, role, status>>

GetActor(r) ==
  /\ At(r, "actor")
  /\ IF status[request[r].account] = "ACTIVE" THEN Go(r, "open") ELSE Answer(r)
  /\ UNCHANGED <<shown, issued, page, live, active, cookies, role, status>>

\* POST /logout: the account's session ends, although the cookie may be of an older one.
Logout ==
  /\ \E n \in cookies :
       /\ active' = [active EXCEPT ![page[n].account] = 0]
       /\ cookies' = cookies \ {n}
  /\ UNCHANGED <<shown, issued, page, live, role, status, request>>

-----------------------------------------------------------------------------
\* set_status, by the parent.
SetStatus ==
  /\ \E u \in Accounts, s \in {"ACTIVE", "INACTIVE"} :
       status[u] # s /\ status' = [status EXCEPT ![u] = s]
  /\ UNCHANGED <<shown, issued, page, live, active, cookies, role, request>>

\* Keys reach the end of their time to live.
Expire ==
  /\ \/ \E t \in live : live' = live \ {t} /\ UNCHANGED active
     \/ \E u \in Accounts : /\ active[u] # 0
                            /\ active' = [active EXCEPT ![u] = 0]
                            /\ UNCHANGED live
  /\ UNCHANGED <<shown, issued, page, cookies, role, status, request>>

\* A worker ends, or a call to Redis or the database raises.
Fail(r) ==
  /\ request[r] # None /\ Answer(r)
  /\ UNCHANGED <<shown, issued, page, live, active, cookies, role, status>>

Serve(r) ==
  \/ VerifyCaptcha(r) \/ VerifyCredentials(r) \/ LookForSession(r)
  \/ CreateConflictToken(r) \/ CreateLoginCode(r) \/ SetActiveSession(r)
  \/ ConsumeConflictToken(r) \/ InvalidateSession(r) \/ CheckStatus(r)
  \/ VerifyLoginCode(r) \/ GetActor(r)

Next ==
  \/ ShowLogin \/ Logout \/ SetStatus \/ Expire
  \/ \E r \in Requests : Serve(r) \/ Fail(r)

Spec == Init /\ [][Next]_vars

-----------------------------------------------------------------------------
\* A page leads to one next page or session only, however often and however closely
\* together it is submitted: captcha, confirmation and code are each used up once.
OneUse ==
  \A s, t \in 1 .. issued : page[s].from = page[t].from => s = t

FaultyHonoured(n) ==  \* a missing key is taken for a match
  active[page[n].account] \in {0, n}

\* is_session_valid, on the cookie with nonce n.
Honoured(n) == active[page[n].account] = n

\* A cookie that is no longer honoured never is again: no overlapping login, logout,
\* confirmation or expiry brings a session back.
RevokedForGood ==
  [][\A n \in Pages("session") : ~Honoured(n) => ~Honoured(n)']_vars

\* A login replaces a session without asking only if that session began after the login
\* had seen that there was none.  README.md:267 promises it without that exception.
AskedBeforeReplaced ==
  [][\A u \in Accounts :
       active[u] # 0 /\ active'[u] \notin {0, active[u]} =>
         active[u] > page'[active'[u]].looked]_vars
=============================================================================
