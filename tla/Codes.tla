-------------------------------- MODULE Codes -------------------------------
(***************************************************************************)
(* The codes that prove the e-mail address of a new agent: they are sent,  *)
(* at a limited rate, verified, and used up when the account is created    *)
(* (otp_service.py, the routes /children and /children/email-otp/...).     *)
(* Each await is a step of its own, and so is each look of a request at    *)
(* the database: other workers go on in between.                           *)
(***************************************************************************)
EXTENDS Integers, Sequences, FiniteSets

CONSTANTS
  Creators, Emails,
  Requests,  \* requests that may be in progress
  Cooldown, Window, MaxPerWindow,  \* COOLDOWN, WINDOW and MAX_PER_WINDOW, in ticks
  MaxIssued,  \* bound on the codes sent
  None

VARIABLES
  stamps,   \* otp_rate:<creator>:<email>: how long ago codes were sent in the window
  sends,    \* all of them; some stamps get overwritten
  codes,    \* the address each token was issued for
  live,     \* tokens whose key child_otp:<token> exists
  marked,   \* those among them with "verified": true
  proven,   \* tokens whose code has been entered
  agents,   \* accounts.email: the accounts with each address
  uses,     \* how many accounts each token has led to; 2 stands for more
  shared,   \* tokens used by overlapping requests, or by one that failed after the use
  request   \* requests being served

times == <<stamps, sends>>
records == <<codes, live, marked, proven>>
accounts == <<agents, uses, shared>>
vars == <<times, records, accounts, request>>

Tokens == 1 .. MaxIssued
Ages == 0 .. Window - 1
Address == [by : Creators, email : Emails]
Request == [at : {"rate", "issue", "mark", "look", "insert", "consume"}, address : Address,
            token : Tokens \cup {None}, seen : Seq(Ages)]

ASSUME CodesAssumption ==
  /\ IsFiniteSet(Requests)
  /\ MaxIssued \in Nat /\ MaxPerWindow \in Nat
  /\ Cooldown \in Nat \ {0} /\ Window \in Nat \ {0}
  /\ None \notin Request \cup Nat

Issued == DOMAIN codes

TypeOK ==
  /\ stamps \in [Address -> Seq(Ages)] /\ sends \in [Address -> Seq(Ages)]
  /\ codes \in Seq(Address) /\ Len(codes) <= MaxIssued
  /\ marked \subseteq live \cap proven /\ live \subseteq Issued /\ proven \subseteq Issued
  /\ agents \in [Emails -> Seq([by : Creators, token : Tokens])]
  /\ uses \in [Tokens -> 0 .. 2] /\ shared \subseteq Issued
  /\ request \in [Requests -> Request \cup {None}]

Init ==
  /\ stamps = [a \in Address |-> <<>>] /\ sends = stamps
  /\ codes = <<>> /\ live = {} /\ marked = {} /\ proven = {}
  /\ agents = [m \in Emails |-> <<>>]
  /\ uses = [t \in Tokens |-> 0] /\ shared = {}
  /\ request = [r \in Requests |-> None]

-----------------------------------------------------------------------------
Begin(r, at, a, t, seen) ==
  request' = [request EXCEPT ![r] =
    [at |-> at, address |-> a, token |-> t, seen |-> seen]]
Go(r, at) == request' = [request EXCEPT ![r].at = at]
Answer(r) == request' = [request EXCEPT ![r] = None]
At(r, at) == request[r] # None /\ request[r].at = at
Overlaps(r, t) == \E q \in Requests \ {r} : request[q] # None /\ request[q].token = t

-----------------------------------------------------------------------------
(* POST /children/email-otp/send *)

FaultyMayPass(s) ==  \* each send waits for the cooldown only
  s # <<>> => s[Len(s)] >= Cooldown
\* check_otp_send_rate, on the stamps in the window.
MayPass(s) ==
  /\ s # <<>> => s[Len(s)] >= Cooldown
  /\ Len(s) < MaxPerWindow

\* The stamps are read; the look for the e-mail before it is not repeated later and is
\* taken together with them ...
ReadStamps(r) ==
  /\ request[r] = None
  /\ \E a \in Address :
       /\ agents[a.email] = <<>>
       /\ MayPass(stamps[a])
       /\ Begin(r, "rate", a, None, stamps[a])
  /\ UNCHANGED <<times, records, accounts>>

\* ... and written, over those of others who have read the same ones ...
WriteStamps(r) ==
  /\ At(r, "rate")
  /\ LET a == request[r].address
     IN  /\ stamps' = [stamps EXCEPT ![a] = Append(request[r].seen, 0)]
         /\ sends' = [sends EXCEPT ![a] = Append(@, 0)]
  /\ Go(r, "issue")
  /\ UNCHANGED <<records, accounts>>

\* ... and a code is issued and sent.
CreateChildEmailOtp(r) ==
  /\ At(r, "issue") /\ Len(codes) < MaxIssued
  /\ codes' = Append(codes, request[r].address)
  /\ live' = live \cup {Len(codes) + 1}
  /\ Answer(r)
  /\ UNCHANGED <<times, marked, proven, accounts>>

-----------------------------------------------------------------------------
(* POST /children/email-otp/verify *)

\* The right code, for the address it was sent to ...
ReadCode(r) ==
  /\ request[r] = None
  /\ \E t \in live :
       /\ proven' = proven \cup {t}
       /\ Begin(r, "mark", codes[t], t, <<>>)
  /\ UNCHANGED <<times, codes, live, marked, accounts>>

FaultyMark(r) ==  \* the mark is on the address, not on the token
  /\ At(r, "mark")
  /\ marked' = marked \cup {t \in Issued : codes[t] = codes[request[r].token]}
  /\ live' = live \cup {request[r].token}
  /\ Answer(r)
  /\ UNCHANGED <<times, codes, proven, accounts>>

\* ... is marked, and its key set anew, whether or not it still exists.
Mark(r) ==
  /\ At(r, "mark")
  /\ marked' = marked \cup {request[r].token}
  /\ live' = live \cup {request[r].token}
  /\ Answer(r)
  /\ UNCHANGED <<times, codes, proven, accounts>>

-----------------------------------------------------------------------------
(* POST /children *)

FaultyVerified(t, a) == t \in marked
\* require_verified_child_email
Verified(t, a) == t \in marked /\ codes[t] = a

Require(r) ==
  /\ request[r] = None
  /\ \E t \in Issued, a \in Address : Verified(t, a) /\ Begin(r, "look", a, t, <<>>)
  /\ UNCHANGED <<times, records, accounts>>

\* create_child looks for the e-mail ...
EmailExists(r) ==
  /\ At(r, "look")
  /\ IF agents[request[r].address.email] = <<>> THEN Go(r, "insert") ELSE Answer(r)
  /\ UNCHANGED <<times, records, accounts>>

Accepts(e) == agents[e] = <<>>   \* idx_accounts_email_unique

\* ... and inserts the account ...
CreateChild(r) ==
  /\ At(r, "insert")
  /\ LET a == request[r].address
         t == request[r].token
     IN  IF Accepts(a.email)
         THEN /\ agents' = [agents EXCEPT ![a.email] = Append(@, [by |-> a.by, token |-> t])]
              /\ uses' = [uses EXCEPT ![t] = IF @ < 2 THEN @ + 1 ELSE 2]
              /\ shared' = shared \cup {u \in {t} : Overlaps(r, u)}
              /\ Go(r, "consume")
         ELSE Answer(r) /\ UNCHANGED accounts
  /\ UNCHANGED <<times, records>>

FaultyConsume(r) ==  \* the code stays
  /\ At(r, "consume")
  /\ shared' = shared \cup {u \in {request[r].token} : Overlaps(r, u)}
  /\ Answer(r)
  /\ UNCHANGED <<times, records, agents, uses>>
\* ... and the code is used up.
Consume(r) ==
  /\ At(r, "consume")
  /\ live' = live \ {request[r].token} /\ marked' = marked \ {request[r].token}
  /\ shared' = shared \cup {u \in {request[r].token} : Overlaps(r, u)}
  /\ Answer(r)
  /\ UNCHANGED <<times, codes, proven, agents, uses>>

-----------------------------------------------------------------------------
\* A worker ends or a call raises, for example the mail on the account that was created.
Fail(r) ==
  /\ request[r] # None /\ Answer(r)
  /\ shared' = IF request[r].at = "consume" THEN shared \cup {request[r].token} ELSE shared
  /\ UNCHANGED <<times, records, agents, uses>>

DeleteAgent ==
  /\ \E m \in Emails : agents[m] # <<>> /\ agents' = [agents EXCEPT ![m] = Tail(@)]
  /\ UNCHANGED <<times, records, uses, shared, request>>

Expire ==
  /\ \E t \in live : live' = live \ {t} /\ marked' = marked \ {t}
  /\ UNCHANGED <<times, codes, proven, accounts, request>>

\* What has left the window does not count any more; the oldest come first.
Older(s) == [i \in DOMAIN s |-> s[i] + 1]
InWindow(s) == SubSeq(s, Cardinality({i \in DOMAIN s : s[i] >= Window}) + 1, Len(s))

\* A tick is longer than it takes to read the stamps and write them.
Tick ==
  /\ \A r \in Requests : ~At(r, "rate")
  /\ stamps' = [a \in Address |-> InWindow(Older(stamps[a]))]
  /\ sends' = [a \in Address |-> InWindow(Older(sends[a]))]
  /\ UNCHANGED <<records, accounts, request>>

Serve(r) ==
  \/ ReadStamps(r) \/ WriteStamps(r) \/ CreateChildEmailOtp(r)
  \/ ReadCode(r) \/ Mark(r)
  \/ Require(r) \/ EmailExists(r) \/ CreateChild(r) \/ Consume(r)

Next ==
  \/ DeleteAgent \/ Expire \/ Tick
  \/ \E r \in Requests : Serve(r) \/ Fail(r)

Spec == Init /\ [][Next]_vars

-----------------------------------------------------------------------------
\* There is one account for an e-mail, and its creator has been sent a code to it and has
\* entered it, whatever other codes and requests there are.
EmailProven ==
  \A m \in Emails :
    /\ Len(agents[m]) <= 1
    /\ \A i \in DOMAIN agents[m] :
         LET g == agents[m][i] IN g.token \in proven /\ codes[g.token] = [by |-> g.by, email |-> m]

\* A code makes a second account, after the deletion of the first, only where its first
\* use overlapped another request with it or failed before the code was used up: a
\* verification under way brings a used code back (otp_service.py:82).
UsedOnce == \A t \in Issued : uses[t] > 1 => t \in shared

\* In any window a code is sent to an address no more often than MaxPerWindow for each
\* request that may be under way: those that overlap pass together and count as one.
SendsLimited ==
  \A a \in Address :
    Len(sends[a]) <= MaxPerWindow * Cardinality(Requests)
=============================================================================
