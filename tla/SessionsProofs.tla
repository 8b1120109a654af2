--------------------------- MODULE SessionsProofs ---------------------------
(***************************************************************************)
(* What holds of Sessions for any number of accounts, of login pages and   *)
(* of submissions under way, and however many tokens are issued: the types,*)
(* that a page leads on once, that a revoked session stays revoked, and    *)
(* what a login knows of the session it replaces.                          *)
(***************************************************************************)
EXTENDS Sessions, TLAPS

USE SessionsAssumption

\* What is issued to request r is a page of its kind; the pages there were stay.
LEMMA IssueType ==
  ASSUME TypeOK, NEW r \in Requests, request[r] \in Request, NEW kind \in Kinds,
         Issue(r, kind)
  PROVE  /\ issued + 1 \in Tokens /\ issued' = issued + 1 /\ issued' \in 0 .. MaxIssued
         /\ page' \in [Tokens -> Page]
         /\ page'[issued + 1].kind = kind /\ page'[issued + 1].account = request[r].account
         /\ page'[issued + 1].from = request[r].from
         /\ page'[issued + 1].looked = request[r].looked
         /\ \A t \in 1 .. issued : page'[t] = page[t]
<1> DEFINE p == [kind |-> kind, account |-> request[r].account, from |-> request[r].from,
                 looked |-> request[r].looked]
<1>1. issued + 1 \in Tokens /\ issued' = issued + 1 /\ issued' \in 0 .. MaxIssued
  BY DEF TypeOK, Issue, Tokens
<1>2. p \in Page
  BY DEF Request, Page
<1>3. page' = [page EXCEPT ![issued + 1] = p] /\ page \in [Tokens -> Page]
  BY DEF TypeOK, Issue
<1>4. \A t \in 1 .. issued : t \in Tokens /\ t # issued + 1
  BY DEF TypeOK, Tokens
<1>. QED
  BY <1>1, <1>2, <1>3, <1>4

\* A request goes on, or is answered, within its type.
LEMMA GoType ==
  ASSUME TypeOK, NEW r \in Requests, request[r] # None,
         NEW at \in {"password", "look", "conflict", "code", "open", "invalidate", "status",
                     "actor"}
  PROVE  /\ request[r] \in Request
         /\ Go(r, at) => request' \in [Requests -> Request \cup {None}]
         /\ Answer(r) => request' \in [Requests -> Request \cup {None}]
<1>1. request[r] \in Request /\ request \in [Requests -> Request \cup {None}]
  BY DEF TypeOK
<1>2. [request[r] EXCEPT !.at = at] \in Request
  BY <1>1 DEF Request
<1>. QED
  BY <1>1, <1>2 DEF Go, Answer

\* The pages that were issued stay, and one is added.
LEMMA IssueOthers ==
  ASSUME TypeOK, NEW r \in Requests, request[r] \in Request, NEW kind \in Kinds,
         Issue(r, kind)
  PROVE  /\ issued + 1 \in 1 .. issued' /\ 1 .. issued \subseteq 1 .. issued'
         /\ 0 .. issued \subseteq 0 .. issued' /\ 1 .. issued' = 1 .. issued \cup {issued + 1}
         /\ \A t \in 1 .. issued' : page'[t].account \in Accounts
<1>1. issued \in 0 .. MaxIssued /\ issued' = issued + 1
  BY DEF TypeOK, Issue
<1>2. 1 .. issued' = 1 .. issued \cup {issued + 1} /\ issued + 1 \in 1 .. issued'
      /\ 0 .. issued \subseteq 0 .. issued'
  BY <1>1
<1>3. \A t \in 1 .. issued : page'[t] = page[t] /\ page[t].account \in Accounts
  BY IssueType DEF TypeOK
<1>4. page'[issued + 1].account \in Accounts
  BY IssueType DEF Request
<1>. QED
  BY <1>2, <1>3, <1>4

LEMMA TypeInit == Init => TypeOK
  BY DEF Init, TypeOK, Page, Tokens

\* The steps of a submission.
LEMMA TypeServe == ASSUME TypeOK, NEW r \in Requests, Serve(r) PROVE TypeOK'
<1>. USE DEF At
<1>0. \A t \in 1 .. issued : t \in Tokens /\ page[t] \in Page
  BY DEF TypeOK, Tokens
<1>1. CASE VerifyCaptcha(r)
  <2>1. PICK c \in shown, u \in Accounts :
          Take(c) /\ (UNCHANGED request \/ Begin(r, "password", u, c, 0))
    BY <1>1 DEF VerifyCaptcha
  <2>2. c \in Captchas
    BY DEF TypeOK
  <2>3. [at |-> "password", account |-> u, from |-> c, looked |-> 0] \in Request
    BY <2>2 DEF Request
  <2>. QED
    BY <1>1, <2>1, <2>3 DEF TypeOK, VerifyCaptcha, Begin, Take
<1>2. CASE VerifyCredentials(r)
  BY <1>2, GoType DEF TypeOK, VerifyCredentials
<1>3. CASE LookForSession(r)
  <2>1. request[r] \in Request /\ issued \in Tokens \cup {0}
    BY <1>3 DEF TypeOK, LookForSession, Tokens
  <2>2. \A at \in {"code", "open"} :
          [request[r] EXCEPT !.at = at, !.looked = issued] \in Request
    BY <2>1 DEF Request
  <2>3. request' \in [Requests -> Request \cup {None}]
    BY <1>3, <2>2, GoType DEF TypeOK, LookForSession
  <2>. QED
    BY <1>3, <2>3 DEF TypeOK, LookForSession
<1>4. CASE CreateConflictToken(r) \/ CreateLoginCode(r)
  <2>1. PICK kind \in {"confirm", "code"} :
          Issue(r, kind) /\ live' = live \cup {issued + 1} /\ Answer(r)
    BY <1>4 DEF CreateConflictToken, CreateLoginCode
  <2>2. request[r] # None
    BY <1>4 DEF CreateConflictToken, CreateLoginCode
  <2>3. /\ issued' = issued + 1 /\ issued' \in 0 .. MaxIssued
        /\ page' \in [Tokens -> Page] /\ \A t \in 1 .. issued : page'[t] = page[t]
        /\ \A t \in 1 .. issued' : page'[t].account \in Accounts
    BY <2>1, <2>2, GoType, IssueType, IssueOthers DEF Kinds
  <2>4. issued \in 0 .. MaxIssued
    BY DEF TypeOK
  <2>5. 1 .. issued \subseteq 1 .. issued' /\ 0 .. issued \subseteq 0 .. issued'
        /\ issued + 1 \in 1 .. issued'
    BY <2>1, <2>2, GoType, IssueOthers DEF Kinds
  <2>6. request' \in [Requests -> Request \cup {None}]
    BY <2>1, <2>2, GoType
  <2>7. UNCHANGED <<shown, active, cookies, role, status>>
    BY <1>4 DEF CreateConflictToken, CreateLoginCode
  <2>8. live' \subseteq shown' \cup 1 .. issued'
    BY <2>1, <2>5, <2>7 DEF TypeOK
  <2>9. active' \in [Accounts -> 0 .. issued']
    BY <2>5, <2>7 DEF TypeOK
  <2>10. \A u \in Accounts : active'[u] # 0 =>
           page'[active'[u]].kind = "session" /\ page'[active'[u]].account = u
    <3>1. \A u \in Accounts : active[u] # 0 => active[u] \in 1 .. issued
      BY <2>4 DEF TypeOK
    <3>. QED
      BY <2>3, <2>7, <3>1 DEF TypeOK
  <2>11. cookies' \subseteq {n \in 1 .. issued' : page'[n].kind = "session"}
    BY <2>3, <2>5, <2>7 DEF TypeOK
  <2>. QED
    BY <2>3, <2>6, <2>7, <2>8, <2>9, <2>10, <2>11 DEF TypeOK
<1>5. CASE SetActiveSession(r)
  <2>1. /\ Issue(r, "session") /\ active' = [active EXCEPT ![request[r].account] = issued + 1]
        /\ cookies' = cookies \cup {issued + 1} /\ Answer(r) /\ request[r] # None
        /\ UNCHANGED <<shown, live, role, status>>
    BY <1>5 DEF SetActiveSession
  <2>2. request[r] \in Request
    BY <2>1, GoType
  <2>3. request[r].account \in Accounts
    BY <2>2 DEF Request
  <2>4. /\ issued + 1 \in Tokens /\ issued' = issued + 1 /\ issued' \in 0 .. MaxIssued
        /\ page' \in [Tokens -> Page] /\ \A t \in 1 .. issued : page'[t] = page[t]
        /\ page'[issued + 1].kind = "session"
        /\ page'[issued + 1].account = request[r].account
        /\ \A t \in 1 .. issued' : page'[t].account \in Accounts
    BY <2>1, <2>2, IssueType, IssueOthers DEF Kinds
  <2>5. issued \in 0 .. MaxIssued
    BY DEF TypeOK
  <2>6. 1 .. issued \subseteq 1 .. issued' /\ 0 .. issued \subseteq 0 .. issued'
        /\ issued + 1 \in 1 .. issued' /\ issued + 1 \in 0 .. issued'
    BY <2>1, <2>2, <2>4, <2>5, IssueOthers DEF Kinds
  <2>7. request' \in [Requests -> Request \cup {None}]
    BY <2>1, GoType
  <2>8. active \in [Accounts -> 0 .. issued]
    BY DEF TypeOK
  <2>9. active' \in [Accounts -> 0 .. issued']
    BY <2>1, <2>6, <2>8
  <2>10. \A u \in Accounts : active'[u] # 0 =>
           page'[active'[u]].kind = "session" /\ page'[active'[u]].account = u
    <3>1. \A u \in Accounts :
            active'[u] = IF u = request[r].account THEN issued + 1 ELSE active[u]
      BY <2>1, <2>8
    <3>2. \A u \in Accounts : active[u] # 0 => active[u] \in 1 .. issued
      BY <2>5, <2>8
    <3>3. \A u \in Accounts : active[u] # 0 =>
            page[active[u]].kind = "session" /\ page[active[u]].account = u
      BY DEF TypeOK
    <3>. QED
      BY <2>4, <3>1, <3>2, <3>3
  <2>11. cookies' \subseteq {n \in 1 .. issued' : page'[n].kind = "session"}
    BY <2>1, <2>4, <2>6 DEF TypeOK
  <2>12. live' \subseteq shown' \cup 1 .. issued'
    BY <2>1, <2>6 DEF TypeOK
  <2>. QED
    BY <2>1, <2>4, <2>7, <2>9, <2>10, <2>11, <2>12 DEF TypeOK
<1>6. CASE ConsumeConflictToken(r)
  <2>1. PICK t \in Pages("confirm") : Take(t) /\ Begin(r, "invalidate", page[t].account, t, 0)
    BY <1>6 DEF ConsumeConflictToken
  <2>2. t \in Tokens /\ page[t] \in Page
    BY <1>0 DEF Pages
  <2>3. page[t].account \in Accounts
    BY <2>1 DEF Pages, TypeOK
  <2>4. [at |-> "invalidate", account |-> page[t].account, from |-> t, looked |-> 0] \in Request
    BY <2>2, <2>3 DEF Request
  <2>. QED
    BY <1>6, <2>1, <2>4 DEF TypeOK, ConsumeConflictToken, Begin, Take
<1>7. CASE InvalidateSession(r)
  <2>1. request[r] \in Request /\ issued \in Tokens \cup {0}
    BY <1>7 DEF TypeOK, InvalidateSession, Tokens
  <2>2. \A at \in {"status", "open"} :
          [request[r] EXCEPT !.at = at, !.looked = issued] \in Request
    BY <2>1 DEF Request
  <2>3. request' \in [Requests -> Request \cup {None}]
    BY <1>7, <2>2 DEF TypeOK, InvalidateSession
  <2>4. active' \in [Accounts -> 0 .. issued]
    <3>1. 0 \in 0 .. issued
      BY DEF TypeOK
    <3>. QED
      BY <1>7, <3>1 DEF TypeOK, InvalidateSession
  <2>. QED
    BY <1>7, <2>3, <2>4 DEF TypeOK, InvalidateSession
<1>8. CASE CheckStatus(r)
  BY <1>8, GoType DEF TypeOK, CheckStatus
<1>9. CASE VerifyLoginCode(r)
  <2>1. PICK t \in Pages("code") :
          /\ Take(t)
          /\ UNCHANGED request \/ Begin(r, "actor", page[t].account, t, page[t].looked)
    BY <1>9 DEF VerifyLoginCode
  <2>2. t \in Tokens /\ page[t] \in Page
    BY <1>0 DEF Pages
  <2>3. page[t].account \in Accounts
    BY <2>1 DEF Pages, TypeOK
  <2>4. [at |-> "actor", account |-> page[t].account, from |-> t, looked |-> page[t].looked]
          \in Request
    BY <2>2, <2>3 DEF Request, Page
  <2>. QED
    BY <1>9, <2>1, <2>4 DEF TypeOK, VerifyLoginCode, Begin, Take
<1>10. CASE GetActor(r)
  BY <1>10, GoType DEF TypeOK, GetActor
<1>. QED
  BY <1>1, <1>2, <1>3, <1>4, <1>5, <1>6, <1>7, <1>8, <1>9, <1>10 DEF Serve

LEMMA TypeNext == TypeOK /\ [Next]_vars => TypeOK'
<1>. SUFFICES ASSUME TypeOK, [Next]_vars PROVE TypeOK'
  OBVIOUS
<1>1. CASE ShowLogin
  BY <1>1 DEF ShowLogin, TypeOK
<1>2. CASE Logout
  <2>1. PICK n \in cookies :
          active' = [active EXCEPT ![page[n].account] = 0] /\ cookies' = cookies \ {n}
    BY <1>2 DEF Logout
  <2>2. 0 \in 0 .. issued
    BY DEF TypeOK
  <2>. QED
    BY <1>2, <2>1, <2>2 DEF Logout, TypeOK
<1>3. CASE SetStatus
  BY <1>3 DEF SetStatus, TypeOK
<1>4. CASE Expire
  <2>1. 0 \in 0 .. issued
    BY DEF TypeOK
  <2>. QED
    BY <1>4, <2>1 DEF Expire, TypeOK
<1>5. ASSUME NEW r \in Requests, Fail(r) PROVE TypeOK'
  BY <1>5 DEF Fail, Answer, TypeOK
<1>6. CASE UNCHANGED vars
  BY <1>6 DEF vars, TypeOK
<1>. QED
  BY <1>1, <1>2, <1>3, <1>4, <1>5, <1>6, TypeServe DEF Next

\* The variables keep their types: a session's nonce is stored under its own account, and a
\* cookie holds a nonce that was issued as one.
THEOREM SessionTypes == Spec => []TypeOK
  BY TypeInit, TypeNext, PTL DEF Spec

\* is_session_valid never accepts a nonce again that it has refused: active_session:<account>
\* is only ever deleted or set to a nonce just made, so no overlapping logins, logouts,
\* confirmations or expiries bring a session back.
THEOREM RevokedStays == Spec => RevokedForGood
<1> DEFINE A == \A n \in Pages("session") : ~Honoured(n) => ~Honoured(n)'
<1>1. TypeOK /\ [Next]_vars => [A]_vars
  <2>. SUFFICES ASSUME TypeOK, Next, NEW n \in Pages("session"), ~Honoured(n)
                PROVE  ~Honoured(n)'
    OBVIOUS
  <2>1. n \in 1 .. issued /\ n # 0 /\ n # issued + 1 /\ page[n].account \in Accounts
    <3>1. n \in 1 .. issued /\ issued \in Nat
      BY DEF Pages, TypeOK
    <3>2. page[n].account \in Accounts
      BY <3>1 DEF TypeOK
    <3>. QED
      BY <3>1, <3>2
  <2>2. page'[n] = page[n]
    <3>1. page' = page \/ \E p : page' = [page EXCEPT ![issued + 1] = p]
      BY DEF Next, Serve, Issue, ShowLogin, Logout, SetStatus, Expire, Fail,
         VerifyCaptcha, VerifyCredentials, LookForSession, CreateConflictToken,
         CreateLoginCode, SetActiveSession, ConsumeConflictToken, InvalidateSession,
         CheckStatus, VerifyLoginCode, GetActor
    <3>2. n \in Tokens /\ page \in [Tokens -> Page]
      BY <2>1 DEF TypeOK, Tokens
    <3>. QED
      BY <2>1, <3>1, <3>2
  <2>3. \A u \in Accounts : active'[u] \in {active[u], 0, issued + 1}
    BY DEF TypeOK, Next, Serve, ShowLogin, Logout, SetStatus, Expire, Fail,
       VerifyCaptcha, VerifyCredentials, LookForSession, CreateConflictToken, CreateLoginCode,
       SetActiveSession, ConsumeConflictToken, InvalidateSession, CheckStatus, VerifyLoginCode,
       GetActor
  <2>. QED
    BY <2>1, <2>2, <2>3 DEF Honoured
<1>. QED
  BY <1>1, SessionTypes, PTL DEF Spec, RevokedForGood

-----------------------------------------------------------------------------
(***************************************************************************)
(* A page leads on once.  The invariant: the token a page or a pending     *)
(* submission came from has been sent to a browser and its key is gone,    *)
(* and no two of those pages and submissions came from the same token.     *)
(***************************************************************************)
Known == shown \cup 1 .. issued
Spent == Known \ live

PagesSpent == \A t \in 1 .. issued : page[t].from \in Spent
RequestsSpent == \A r \in Requests : request[r] # None => request[r].from \in Spent
RequestsApart ==
  /\ \A r \in Requests, t \in 1 .. issued :
       request[r] # None => page[t].from # request[r].from
  /\ \A q, r \in Requests :
       request[q] # None /\ request[r] # None /\ request[q].from = request[r].from => q = r
UseInv == OneUse /\ PagesSpent /\ RequestsSpent /\ RequestsApart

\* What a step without a new token and a new submission does: submissions go on or are
\* answered, keys go.
Goes == \A q \in Requests : request'[q] # None =>
          request[q] # None /\ request'[q].from = request[q].from
Keeps == UNCHANGED <<shown, issued, page>> /\ live' \subseteq live /\ Goes

LEMMA GoGoes ==
  ASSUME TypeOK, NEW r \in Requests, request[r] # None,
         NEW at \in {"password", "look", "conflict", "code", "open", "invalidate", "status",
                     "actor"},
         Go(r, at) \/ Answer(r)
  PROVE  Goes
<1>1. request[r] \in Request /\ request \in [Requests -> Request \cup {None}]
  BY DEF TypeOK
<1>2. [request[r] EXCEPT !.at = at].from = request[r].from
  BY <1>1 DEF Request
<1>. QED
  BY <1>1, <1>2 DEF Go, Answer, Goes

LEMMA UseKept == ASSUME TypeOK, UseInv, Keeps PROVE UseInv'
<1>1. Known' = Known /\ Spent \subseteq Spent'
  BY DEF Keeps, Known, Spent
<1>2. OneUse' /\ PagesSpent'
  BY <1>1 DEF Keeps, UseInv, OneUse, PagesSpent
<1>3. RequestsSpent'
  BY <1>1 DEF Keeps, Goes, UseInv, RequestsSpent
<1>4. RequestsApart'
  BY DEF Keeps, Goes, UseInv, RequestsApart
<1>. QED
  BY <1>2, <1>3, <1>4 DEF UseInv

\* A submission that took its token begins.
LEMMA UseBegins ==
  ASSUME TypeOK, UseInv, NEW r \in Requests, request[r] = None, NEW t, Take(t),
         NEW b \in Request, b.from = t, request' = [request EXCEPT ![r] = b],
         UNCHANGED <<shown, issued, page>>
  PROVE  UseInv'
<1>1. t \in Known /\ t \notin Spent /\ Known' = Known /\ Spent \subseteq Spent' /\ t \in Spent'
  BY DEF Take, Known, Spent, TypeOK
<1>2. \A q \in Requests : request'[q] = IF q = r THEN b ELSE request[q]
  BY DEF TypeOK
<1>3. OneUse' /\ PagesSpent'
  BY <1>1 DEF UseInv, OneUse, PagesSpent
<1>4. RequestsSpent'
  BY <1>1, <1>2 DEF UseInv, RequestsSpent
<1>5. \A s \in 1 .. issued : page[s].from # t
  BY <1>1 DEF UseInv, PagesSpent
<1>6. \A q \in Requests : request[q] # None => request[q].from # t
  BY <1>1 DEF UseInv, RequestsSpent
<1>7. RequestsApart'
  <2>1. \A q \in Requests, s \in 1 .. issued :
          request'[q] # None => page[s].from # request'[q].from
    BY <1>2, <1>5 DEF UseInv, RequestsApart
  <2>2. \A p, q \in Requests :
          request'[p] # None /\ request'[q] # None /\ request'[p].from = request'[q].from => p = q
    BY <1>2, <1>6 DEF UseInv, RequestsApart
  <2>. QED
    BY <2>1, <2>2 DEF RequestsApart
<1>. QED
  BY <1>3, <1>4, <1>7 DEF UseInv

\* A token is issued to a submission, which is answered.
LEMMA UseIssues ==
  ASSUME TypeOK, UseInv, NEW r \in Requests, request[r] # None, NEW kind \in Kinds,
         Issue(r, kind), Answer(r), live' \subseteq live \cup {issued + 1}, UNCHANGED shown
  PROVE  UseInv'
<1>0. request[r] \in Request
  BY DEF TypeOK
<1>1. /\ 1 .. issued' = 1 .. issued \cup {issued + 1}
      /\ page'[issued + 1].from = request[r].from
      /\ \A t \in 1 .. issued : page'[t] = page[t]
  BY <1>0, IssueType, IssueOthers
<1>2. issued + 1 \notin Known
  <2>1. issued \in Nat /\ issued + 1 \notin 1 .. issued /\ issued + 1 \in Nat
    BY DEF TypeOK
  <2>. QED
    BY <2>1 DEF TypeOK, Known
<1>3. Spent \subseteq Spent'
  BY <1>1, <1>2 DEF Spent, Known
<1>4. \A q \in Requests : request'[q] = IF q = r THEN None ELSE request[q]
  BY DEF TypeOK, Answer
<1>5. \A t \in 1 .. issued : page[t].from # request[r].from
  BY DEF UseInv, RequestsApart
<1>6. OneUse'
  BY <1>1, <1>5 DEF UseInv, OneUse
<1>7. PagesSpent'
  BY <1>1, <1>3 DEF UseInv, PagesSpent, RequestsSpent
<1>8. RequestsSpent'
  BY <1>3, <1>4 DEF UseInv, RequestsSpent
<1>9. RequestsApart'
  <2>1. \A q \in Requests, t \in 1 .. issued' :
          request'[q] # None => page'[t].from # request'[q].from
    BY <1>1, <1>4 DEF UseInv, RequestsApart
  <2>2. \A p, q \in Requests :
          request'[p] # None /\ request'[q] # None /\ request'[p].from = request'[q].from => p = q
    BY <1>4 DEF UseInv, RequestsApart
  <2>. QED
    BY <2>1, <2>2 DEF RequestsApart
<1>. QED
  BY <1>6, <1>7, <1>8, <1>9 DEF UseInv

LEMMA UseServe == ASSUME TypeOK, UseInv, NEW r \in Requests, Serve(r) PROVE UseInv'
<1>. USE DEF At
<1>0. \A t \in 1 .. issued : t \in Tokens /\ page[t] \in Page /\ page[t].account \in Accounts
  BY DEF TypeOK, Tokens
<1>1. CASE VerifyCaptcha(r)
  <2>1. PICK c \in shown, u \in Accounts :
          Take(c) /\ (UNCHANGED request \/ Begin(r, "password", u, c, 0))
    BY <1>1 DEF VerifyCaptcha
  <2>2. [at |-> "password", account |-> u, from |-> c, looked |-> 0] \in Request
    BY DEF Request, TypeOK
  <2>3. CASE UNCHANGED request
    BY <1>1, <2>1, <2>3, UseKept DEF VerifyCaptcha, Keeps, Goes, Take
  <2>4. CASE Begin(r, "password", u, c, 0)
    BY <1>1, <2>1, <2>2, <2>4, UseBegins DEF VerifyCaptcha, Begin
  <2>. QED
    BY <2>1, <2>3, <2>4
<1>2. CASE VerifyCredentials(r)
  BY <1>2, UseKept, GoGoes DEF VerifyCredentials, Keeps
<1>3. CASE LookForSession(r)
  <2>1. request[r] \in Request /\ request \in [Requests -> Request \cup {None}]
    BY <1>3 DEF TypeOK, LookForSession
  <2>2. \A at \in {"code", "open"} :
          [request[r] EXCEPT !.at = at, !.looked = issued].from = request[r].from
    BY <2>1 DEF Request
  <2>3. Goes
    BY <1>3, <2>1, <2>2, GoGoes DEF LookForSession, Goes
  <2>. QED
    BY <1>3, <2>3, UseKept DEF LookForSession, Keeps
<1>4. CASE CreateConflictToken(r) \/ CreateLoginCode(r)
  <2>1. PICK kind \in {"confirm", "code"} :
          Issue(r, kind) /\ live' = live \cup {issued + 1} /\ Answer(r)
    BY <1>4 DEF CreateConflictToken, CreateLoginCode
  <2>. QED
    BY <1>4, <2>1, UseIssues DEF CreateConflictToken, CreateLoginCode, Kinds
<1>5. CASE SetActiveSession(r)
  BY <1>5, UseIssues DEF SetActiveSession, Kinds
<1>6. CASE ConsumeConflictToken(r)
  <2>1. PICK t \in Pages("confirm") : Take(t) /\ Begin(r, "invalidate", page[t].account, t, 0)
    BY <1>6 DEF ConsumeConflictToken
  <2>2. [at |-> "invalidate", account |-> page[t].account, from |-> t, looked |-> 0] \in Request
    BY <1>0 DEF Request, Pages
  <2>. QED
    BY <1>6, <2>1, <2>2, UseBegins DEF ConsumeConflictToken, Begin
<1>7. CASE InvalidateSession(r)
  <2>1. request[r] \in Request /\ request \in [Requests -> Request \cup {None}]
    BY <1>7 DEF TypeOK, InvalidateSession
  <2>2. \A at \in {"status", "open"} :
          [request[r] EXCEPT !.at = at, !.looked = issued].from = request[r].from
    BY <2>1 DEF Request
  <2>3. Goes
    BY <1>7, <2>1, <2>2 DEF InvalidateSession, Goes
  <2>. QED
    BY <1>7, <2>3, UseKept DEF InvalidateSession, Keeps
<1>8. CASE CheckStatus(r)
  BY <1>8, UseKept, GoGoes DEF CheckStatus, Keeps
<1>9. CASE VerifyLoginCode(r)
  <2>1. PICK t \in Pages("code") :
          /\ Take(t)
          /\ UNCHANGED request \/ Begin(r, "actor", page[t].account, t, page[t].looked)
    BY <1>9 DEF VerifyLoginCode
  <2>2. [at |-> "actor", account |-> page[t].account, from |-> t, looked |-> page[t].looked]
          \in Request
    BY <1>0 DEF Request, Page, Pages
  <2>3. CASE UNCHANGED request
    BY <1>9, <2>1, <2>3, UseKept DEF VerifyLoginCode, Keeps, Goes, Take
  <2>4. CASE Begin(r, "actor", page[t].account, t, page[t].looked)
    BY <1>9, <2>1, <2>2, <2>4, UseBegins DEF VerifyLoginCode, Begin
  <2>. QED
    BY <2>1, <2>3, <2>4
<1>10. CASE GetActor(r)
  BY <1>10, UseKept, GoGoes DEF GetActor, Keeps
<1>. QED
  BY <1>1, <1>2, <1>3, <1>4, <1>5, <1>6, <1>7, <1>8, <1>9, <1>10 DEF Serve

LEMMA UseNext == TypeOK /\ UseInv /\ [Next]_vars => UseInv'
<1>. SUFFICES ASSUME TypeOK, UseInv, [Next]_vars PROVE UseInv'
  OBVIOUS
<1>1. CASE ShowLogin
  <2>1. PICK c \in Captchas \ shown : shown' = shown \cup {c} /\ live' = live \cup {c}
    BY <1>1 DEF ShowLogin
  <2>2. c \notin Known
    BY <2>1 DEF Known, TypeOK
  <2>3. Spent \subseteq Spent'
    BY <1>1, <2>1, <2>2 DEF ShowLogin, Spent, Known
  <2>. QED
    BY <1>1, <2>3 DEF ShowLogin, UseInv, OneUse, PagesSpent, RequestsSpent, RequestsApart
<1>2. CASE Logout \/ SetStatus \/ Expire
  BY <1>2, UseKept DEF Logout, SetStatus, Expire, Keeps, Goes
<1>3. ASSUME NEW r \in Requests, Fail(r) PROVE UseInv'
  BY <1>3, UseKept, GoGoes DEF Fail, Keeps
<1>4. CASE UNCHANGED vars
  BY <1>4, UseKept DEF vars, Keeps, Goes
<1>. QED
  BY <1>1, <1>2, <1>3, <1>4, UseServe DEF Next

\* However often, and however closely together, a login page, a confirmation or a code is
\* submitted, it leads to one next page or session: each take deletes the key it reads.
THEOREM PagesUsedOnce == Spec => []OneUse
<1>1. Init => UseInv
  BY DEF Init, UseInv, OneUse, PagesSpent, RequestsSpent, RequestsApart
<1>2. UseInv => OneUse
  BY DEF UseInv
<1>. QED
  BY <1>1, <1>2, UseNext, SessionTypes, PTL DEF Spec

-----------------------------------------------------------------------------
(***************************************************************************)
(* What a login knows of the session it replaces.  The invariant: from the *)
(* time it saw its account without a session, a login carries with it how  *)
(* much had been issued, and a session there is now is younger than that.  *)
(***************************************************************************)
Seen(u, looked) == looked <= issued /\ (active[u] = 0 \/ active[u] > looked)
SeenNow(u, looked) == looked <= issued' /\ (active'[u] = 0 \/ active'[u] > looked)

PagesSeen == \A t \in 1 .. issued : Seen(page[t].account, page[t].looked)
RequestsSeen ==
  \A r \in Requests : request[r] # None => Seen(request[r].account, request[r].looked)
SeenInv == PagesSeen /\ RequestsSeen

\* Sessions that end, or are younger than all there was, leave it true.
LEMMA SeenStays ==
  ASSUME TypeOK, issued' \in {issued, issued + 1},
         \A u \in Accounts : active'[u] \in {active[u], 0, issued + 1},
         NEW u \in Accounts, NEW looked \in Tokens \cup {0}, Seen(u, looked)
  PROVE  SeenNow(u, looked)
<1>1. issued \in Nat /\ looked \in Nat
  BY DEF TypeOK, Tokens
<1>2. active[u] \in Nat
  BY <1>1 DEF TypeOK
<1>. QED
  BY <1>1, <1>2 DEF Seen, SeenNow

\* A submission goes on with what it knew, or with what it learns just now.
Learns ==
  \A q \in Requests : request'[q] # None =>
    \/ request[q] # None /\ request'[q].account = request[q].account
       /\ request'[q].looked = request[q].looked
    \/ SeenNow(request'[q].account, request'[q].looked)

LEMMA SeenKept ==
  ASSUME TypeOK, SeenInv, UNCHANGED <<issued, page>>, Learns,
         \A u \in Accounts : active'[u] \in {active[u], 0}
  PROVE  SeenInv'
<1>0. issued' \in {issued, issued + 1}
      /\ \A u \in Accounts : active'[u] \in {active[u], 0, issued + 1}
  OBVIOUS
<1>1. PagesSeen'
  <2>1. ASSUME NEW t \in 1 .. issued PROVE SeenNow(page[t].account, page[t].looked)
    <3>1. page[t].account \in Accounts
      BY DEF TypeOK
    <3>2. page[t].looked \in Tokens \cup {0}
      <4>1. t \in Tokens
        BY DEF TypeOK, Tokens
      <4>. QED
        BY <4>1 DEF TypeOK, Page
    <3>3. Seen(page[t].account, page[t].looked)
      BY DEF SeenInv, PagesSeen
    <3>. QED
      BY <1>0, <3>1, <3>2, <3>3, SeenStays
  <2>. QED
    BY <2>1 DEF PagesSeen, Seen, SeenNow
<1>2. RequestsSeen'
  <2>1. ASSUME NEW q \in Requests, request'[q] # None
        PROVE  SeenNow(request'[q].account, request'[q].looked)
    <3>1. CASE request[q] # None /\ request'[q].account = request[q].account
               /\ request'[q].looked = request[q].looked
      <4>1. request[q] \in Request
        BY <3>1 DEF TypeOK
      <4>2. request[q].account \in Accounts /\ request[q].looked \in Tokens \cup {0}
        BY <4>1 DEF Request
      <4>3. Seen(request[q].account, request[q].looked)
        BY <3>1 DEF SeenInv, RequestsSeen
      <4>4. SeenNow(request[q].account, request[q].looked)
        BY <1>0, <4>2, <4>3, SeenStays
      <4>. QED
        BY <3>1, <4>4
    <3>. QED
      BY <2>1, <3>1 DEF Learns
  <2>. QED
    BY <2>1 DEF RequestsSeen, Seen, SeenNow
<1>. QED
  BY <1>1, <1>2 DEF SeenInv

\* A page is issued with what its submission knew.
LEMMA SeenIssued ==
  ASSUME TypeOK, SeenInv, NEW r \in Requests, request[r] # None, NEW kind \in Kinds,
         Issue(r, kind), Answer(r), \A u \in Accounts : active'[u] \in {active[u], issued + 1}
  PROVE  SeenInv'
<1>0. request[r] \in Request
  BY DEF TypeOK
<1>1. /\ issued' = issued + 1 /\ 1 .. issued' = 1 .. issued \cup {issued + 1}
      /\ page'[issued + 1].account = request[r].account
      /\ page'[issued + 1].looked = request[r].looked
      /\ \A t \in 1 .. issued : page'[t] = page[t]
  BY <1>0, IssueType, IssueOthers
<1>2. \A q \in Requests : request'[q] = IF q = r THEN None ELSE request[q]
  BY DEF TypeOK, Answer
<1>3. issued' \in {issued, issued + 1}
      /\ \A u \in Accounts : active'[u] \in {active[u], 0, issued + 1}
  BY <1>1
<1>4. ASSUME NEW q \in Requests, request[q] # None
      PROVE  SeenNow(request[q].account, request[q].looked)
  <2>1. request[q] \in Request
    BY <1>4 DEF TypeOK
  <2>2. request[q].account \in Accounts /\ request[q].looked \in Tokens \cup {0}
    BY <2>1 DEF Request
  <2>3. Seen(request[q].account, request[q].looked)
    BY <1>4 DEF SeenInv, RequestsSeen
  <2>. QED
    BY <1>3, <2>2, <2>3, SeenStays
<1>5. ASSUME NEW t \in 1 .. issued PROVE SeenNow(page[t].account, page[t].looked)
  <2>1. page[t].account \in Accounts
    BY DEF TypeOK
  <2>2. page[t].looked \in Tokens \cup {0}
    <3>1. t \in Tokens
      BY DEF TypeOK, Tokens
    <3>. QED
      BY <3>1 DEF TypeOK, Page
  <2>3. Seen(page[t].account, page[t].looked)
    BY DEF SeenInv, PagesSeen
  <2>. QED
    BY <1>3, <2>1, <2>2, <2>3, SeenStays
<1>6. RequestsSeen'
  BY <1>2, <1>4 DEF RequestsSeen, Seen, SeenNow
<1>7. PagesSeen'
  BY <1>1, <1>4, <1>5 DEF PagesSeen, Seen, SeenNow
<1>. QED
  BY <1>6, <1>7 DEF SeenInv

\* A step of a submission from a place where it knows what it knew.
LEMMA GoLearns ==
  ASSUME TypeOK, NEW r \in Requests, request[r] # None,
         NEW at \in {"password", "look", "conflict", "code", "open", "invalidate", "status",
                     "actor"},
         Go(r, at) \/ Answer(r)
  PROVE  Learns
<1>1. request[r] \in Request /\ request \in [Requests -> Request \cup {None}]
  BY DEF TypeOK
<1>2. [request[r] EXCEPT !.at = at].account = request[r].account
      /\ [request[r] EXCEPT !.at = at].looked = request[r].looked
  BY <1>1 DEF Request
<1>. QED
  BY <1>1, <1>2 DEF Go, Answer, Learns

LEMMA BeginLearns ==
  ASSUME TypeOK, NEW r \in Requests, NEW b \in Request,
         request' = [request EXCEPT ![r] = b], SeenNow(b.account, b.looked)
  PROVE  Learns
<1>1. \A q \in Requests : request'[q] = IF q = r THEN b ELSE request[q]
  BY DEF TypeOK
<1>. QED
  BY <1>1 DEF Learns

\* At the moment a login begins it knows nothing.
LEMMA NothingSeen == ASSUME TypeOK, NEW u \in Accounts PROVE Seen(u, 0)
<1>1. issued \in Nat /\ active[u] \in 0 .. issued
  BY DEF TypeOK
<1>. QED
  BY <1>1 DEF Seen

LEMMA SeenServe == ASSUME TypeOK, SeenInv, NEW r \in Requests, Serve(r) PROVE SeenInv'
<1>. USE DEF At
<1>0. \A t \in 1 .. issued : t \in Tokens /\ page[t] \in Page /\ page[t].account \in Accounts
  BY DEF TypeOK, Tokens
<1>1. CASE VerifyCaptcha(r)
  <2>1. PICK c \in shown, u \in Accounts :
          UNCHANGED request \/ Begin(r, "password", u, c, 0)
    BY <1>1 DEF VerifyCaptcha
  <2> DEFINE b == [at |-> "password", account |-> u, from |-> c, looked |-> 0]
  <2>2. b \in Request /\ b.account = u /\ b.looked = 0
    BY DEF Request, TypeOK
  <2>3. SeenNow(u, 0)
    BY <1>1, NothingSeen DEF VerifyCaptcha, Seen, SeenNow
  <2>4. CASE UNCHANGED request
    BY <1>1, <2>4, SeenKept DEF VerifyCaptcha, Learns
  <2>5. CASE Begin(r, "password", u, c, 0)
    <3>1. request' = [request EXCEPT ![r] = b]
      BY <2>5 DEF Begin
    <3>. HIDE DEF b
    <3>2. Learns
      BY <2>2, <2>3, <3>1, BeginLearns
    <3>. QED
      BY <1>1, <3>2, SeenKept DEF VerifyCaptcha
  <2>. QED
    BY <2>1, <2>4, <2>5
<1>2. CASE VerifyCredentials(r)
  BY <1>2, SeenKept, GoLearns DEF VerifyCredentials
<1>3. CASE LookForSession(r)
  <2>0. request[r] \in Request
    BY <1>3 DEF TypeOK, LookForSession
  <2>1. CASE active[request[r].account] # 0 /\ Go(r, "conflict")
    BY <1>3, <2>1, SeenKept, GoLearns DEF LookForSession
  <2>2. CASE ~(active[request[r].account] # 0 /\ Go(r, "conflict"))
    <3>1. PICK at \in {"code", "open"} :
            request' = [request EXCEPT ![r] = [request[r] EXCEPT !.at = at, !.looked = issued]]
      <4>1. CASE role[request[r].account] = "AGENT"
        BY <1>3, <2>2, <4>1 DEF LookForSession
      <4>2. CASE role[request[r].account] # "AGENT"
        BY <1>3, <2>2, <4>2 DEF LookForSession
      <4>. QED
        BY <4>1, <4>2
    <3> DEFINE b == [request[r] EXCEPT !.at = at, !.looked = issued]
    <3>2. b \in Request /\ b.account = request[r].account /\ b.looked = issued
      <4>1. issued \in Tokens \cup {0}
        BY DEF TypeOK, Tokens
      <4>2. b.account = request[r].account /\ b.looked = issued
        BY <2>0 DEF Request
      <4>3. b \in Request
        BY <2>0, <4>1 DEF Request
      <4>. QED
        BY <4>2, <4>3
    <3>3. request' = [request EXCEPT ![r] = b]
      BY <3>1
    <3>. HIDE DEF b
    <3>4. active'[request[r].account] = 0 /\ issued' = issued /\ issued \in Nat
      BY <1>3, <2>2 DEF LookForSession, TypeOK
    <3>5. SeenNow(b.account, b.looked)
      BY <3>2, <3>4 DEF SeenNow
    <3>6. Learns
      BY <3>2, <3>3, <3>5, BeginLearns
    <3>. QED
      BY <1>3, <3>6, SeenKept DEF LookForSession
  <2>. QED
    BY <2>1, <2>2
<1>4. CASE CreateConflictToken(r) \/ CreateLoginCode(r)
  <2>1. PICK kind \in {"confirm", "code"} : Issue(r, kind) /\ Answer(r)
    BY <1>4 DEF CreateConflictToken, CreateLoginCode
  <2>. QED
    BY <1>4, <2>1, SeenIssued DEF CreateConflictToken, CreateLoginCode, Kinds
<1>5. CASE SetActiveSession(r)
  <2>1. \A u \in Accounts : active'[u] \in {active[u], issued + 1}
    BY <1>5 DEF SetActiveSession, TypeOK
  <2>. QED
    BY <1>5, <2>1, SeenIssued DEF SetActiveSession, Kinds
<1>6. CASE ConsumeConflictToken(r)
  <2>1. PICK t \in Pages("confirm") : Begin(r, "invalidate", page[t].account, t, 0)
    BY <1>6 DEF ConsumeConflictToken
  <2> DEFINE b == [at |-> "invalidate", account |-> page[t].account, from |-> t, looked |-> 0]
  <2>2. b \in Request /\ b.account = page[t].account /\ b.looked = 0
    BY <1>0 DEF Request, Pages
  <2>3. page[t].account \in Accounts
    BY <1>0 DEF Pages
  <2>4. SeenNow(page[t].account, 0)
    BY <1>6, <2>3, NothingSeen DEF ConsumeConflictToken, Seen, SeenNow
  <2>5. request' = [request EXCEPT ![r] = b]
    BY <2>1 DEF Begin
  <2>. HIDE DEF b
  <2>6. Learns
    BY <2>2, <2>4, <2>5, BeginLearns
  <2>. QED
    BY <1>6, <2>6, SeenKept DEF ConsumeConflictToken
<1>7. CASE InvalidateSession(r)
  <2>0. request[r] \in Request
    BY <1>7 DEF TypeOK, InvalidateSession
  <2>1. PICK at \in {"status", "open"} :
          request' = [request EXCEPT ![r] = [request[r] EXCEPT !.at = at, !.looked = issued]]
    <3>1. CASE role[request[r].account] = "AGENT"
      BY <1>7, <3>1 DEF InvalidateSession
    <3>2. CASE role[request[r].account] # "AGENT"
      BY <1>7, <3>2 DEF InvalidateSession
    <3>. QED
      BY <3>1, <3>2
  <2> DEFINE b == [request[r] EXCEPT !.at = at, !.looked = issued]
  <2>2. b \in Request /\ b.account = request[r].account /\ b.looked = issued
    <3>1. issued \in Tokens \cup {0}
      BY DEF TypeOK, Tokens
    <3>2. b.account = request[r].account /\ b.looked = issued
      BY <2>0 DEF Request
    <3>3. b \in Request
      BY <2>0, <3>1 DEF Request
    <3>. QED
      BY <3>2, <3>3
  <2>3. request' = [request EXCEPT ![r] = b]
    BY <2>1
  <2>. HIDE DEF b
  <2>4. \A u \in Accounts : active'[u] = IF u = request[r].account THEN 0 ELSE active[u]
    BY <1>7 DEF InvalidateSession, TypeOK
  <2>5. SeenNow(b.account, b.looked)
    <3>1. issued' = issued /\ issued \in Nat /\ request[r].account \in Accounts
      BY <1>7, <2>0 DEF InvalidateSession, TypeOK, Request
    <3>. QED
      BY <2>2, <2>4, <3>1 DEF SeenNow
  <2>6. Learns
    BY <2>2, <2>3, <2>5, BeginLearns
  <2>. QED
    BY <1>7, <2>4, <2>6, SeenKept DEF InvalidateSession
<1>8. CASE CheckStatus(r)
  BY <1>8, SeenKept, GoLearns DEF CheckStatus
<1>9. CASE VerifyLoginCode(r)
  <2>1. PICK t \in Pages("code") :
          UNCHANGED request \/ Begin(r, "actor", page[t].account, t, page[t].looked)
    BY <1>9 DEF VerifyLoginCode
  <2> DEFINE b == [at |-> "actor", account |-> page[t].account, from |-> t,
                   looked |-> page[t].looked]
  <2>2. b \in Request /\ b.account = page[t].account /\ b.looked = page[t].looked
    BY <1>0 DEF Request, Page, Pages
  <2>3. SeenNow(page[t].account, page[t].looked)
    BY <1>9 DEF VerifyLoginCode, Seen, SeenNow, SeenInv, PagesSeen, Pages
  <2>4. CASE UNCHANGED request
    BY <1>9, <2>4, SeenKept DEF VerifyLoginCode, Learns
  <2>5. CASE Begin(r, "actor", page[t].account, t, page[t].looked)
    <3>1. request' = [request EXCEPT ![r] = b]
      BY <2>5 DEF Begin
    <3>. HIDE DEF b
    <3>2. Learns
      BY <2>2, <2>3, <3>1, BeginLearns
    <3>. QED
      BY <1>9, <3>2, SeenKept DEF VerifyLoginCode
  <2>. QED
    BY <2>1, <2>4, <2>5
<1>10. CASE GetActor(r)
  BY <1>10, SeenKept, GoLearns DEF GetActor
<1>. QED
  BY <1>1, <1>2, <1>3, <1>4, <1>5, <1>6, <1>7, <1>8, <1>9, <1>10 DEF Serve

LEMMA SeenNext == TypeOK /\ SeenInv /\ [Next]_vars => SeenInv'
<1>. SUFFICES ASSUME TypeOK, SeenInv, [Next]_vars PROVE SeenInv'
  OBVIOUS
<1>1. CASE ShowLogin \/ SetStatus \/ UNCHANGED vars
  BY <1>1, SeenKept DEF ShowLogin, SetStatus, vars, Learns
<1>2. CASE Logout \/ Expire
  <2>1. \A u \in Accounts : active'[u] \in {active[u], 0}
    BY <1>2 DEF Logout, Expire, TypeOK
  <2>. QED
    BY <1>2, <2>1, SeenKept DEF Logout, Expire, Learns
<1>3. ASSUME NEW r \in Requests, Fail(r) PROVE SeenInv'
  BY <1>3, SeenKept, GoLearns DEF Fail
<1>. QED
  BY <1>1, <1>2, <1>3, SeenServe DEF Next

\* Only SetActiveSession replaces one session with another, and the one it replaces began
\* after this login had seen that there was none (or had ended the one it was told of).
LEMMA ReplacesSeen ==
  ASSUME TypeOK, SeenInv, Next, NEW u \in Accounts, active[u] # 0,
         active'[u] \notin {0, active[u]}
  PROVE  active[u] > page'[active'[u]].looked
<1>1. PICK r \in Requests : SetActiveSession(r)
  BY DEF TypeOK, Next, Serve, ShowLogin, Logout, SetStatus, Expire, Fail,
     VerifyCaptcha, VerifyCredentials, LookForSession, CreateConflictToken, CreateLoginCode,
     ConsumeConflictToken, InvalidateSession, CheckStatus, VerifyLoginCode, GetActor
<1>2. request[r] # None /\ request[r] \in Request /\ Issue(r, "session")
  BY <1>1 DEF SetActiveSession, At, TypeOK
<1>3. page'[issued + 1].looked = request[r].looked
  BY <1>2, IssueType DEF Kinds
<1>4. u = request[r].account /\ active'[u] = issued + 1
  BY <1>1 DEF SetActiveSession, TypeOK
<1>5. Seen(u, request[r].looked)
  BY <1>2, <1>4 DEF SeenInv, RequestsSeen
<1>. QED
  BY <1>3, <1>4, <1>5 DEF Seen

\* A login replaces a session it did not ask about only if that session began after the
\* login had seen that the account had none: the answer of /login to an account that is
\* logged in is the question, and the race the code leaves open is this one alone.
THEOREM ReplacedKnowingly == Spec => AskedBeforeReplaced
<1>1. Init => SeenInv
  <2>. SUFFICES ASSUME Init PROVE SeenInv
    OBVIOUS
  <2>1. issued = 0 /\ \A r \in Requests : request[r] = None
    BY DEF Init
  <2>. QED
    BY <2>1 DEF SeenInv, PagesSeen, RequestsSeen
<1> DEFINE A == \A u \in Accounts :
                  active[u] # 0 /\ active'[u] \notin {0, active[u]} =>
                    active[u] > page'[active'[u]].looked
<1>2. TypeOK /\ SeenInv /\ [Next]_vars => [A]_vars
  BY ReplacesSeen
<1>. QED
  BY <1>1, <1>2, SeenNext, SessionTypes, PTL DEF Spec, AskedBeforeReplaced
=============================================================================
