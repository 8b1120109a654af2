---------------------------- MODULE CodesProofs ----------------------------
(***************************************************************************)
(* What holds of Codes for any number of creators, addresses and requests, *)
(* whatever the limits of the rate: the types, that an account has the     *)
(* address whose code was entered, that a code makes one account unless    *)
(* requests overlapped, and how many codes an address is sent in a window. *)
(***************************************************************************)
EXTENDS Codes, FiniteSetTheorems, SequenceTheorems, TLAPS

USE CodesAssumption

Ats == {"rate", "issue", "mark", "look", "insert", "consume"}

-----------------------------------------------------------------------------
(* Stamps.  A sequence of stamps is in order, the oldest first, so that    *)
(* those that have left the window are its beginning.                      *)

InOrder(s) == \A i, j \in 1 .. Len(s) : i < j => s[i] >= s[j]
Stamps == {s \in Seq(Ages) : InOrder(s)}

LEMMA EmptyStamps == <<>> \in Stamps
  BY DEF Stamps, InOrder

LEMMA StampAdded == ASSUME NEW s \in Stamps PROVE Append(s, 0) \in Stamps
<1>1. s \in Seq(Ages) /\ 0 \in Ages
  BY DEF Stamps, Ages
<1>2. Append(s, 0) \in Seq(Ages) /\ Len(Append(s, 0)) = Len(s) + 1
      /\ Len(s) \in Nat /\ Append(s, 0)[Len(s) + 1] = 0
  BY <1>1
<1>3. \A i \in 1 .. Len(s) : Append(s, 0)[i] = s[i] /\ s[i] \in Nat
  BY <1>1 DEF Ages
<1>4. \A i, j \in 1 .. Len(s) + 1 : i < j => Append(s, 0)[i] >= Append(s, 0)[j]
  <2>. SUFFICES ASSUME NEW i \in 1 .. Len(s) + 1, NEW j \in 1 .. Len(s) + 1, i < j
                PROVE  Append(s, 0)[i] >= Append(s, 0)[j]
    OBVIOUS
  <2>1. i \in 1 .. Len(s)
    BY <1>2
  <2>2. CASE j \in 1 .. Len(s)
    <3>1. s[i] >= s[j]
      BY <2>1, <2>2 DEF Stamps, InOrder
    <3>. QED
      BY <1>3, <2>1, <2>2, <3>1
  <2>3. CASE j = Len(s) + 1
    BY <1>2, <1>3, <2>1, <2>3
  <2>. QED
    BY <1>2, <2>2, <2>3
<1>. QED
  BY <1>2, <1>4 DEF Stamps, InOrder

\* How many stamps leave the window with the next tick.
Gone(s) == Cardinality({i \in DOMAIN Older(s) : Older(s)[i] >= Window})

LEMMA OlderStamps ==
  ASSUME NEW s \in Stamps
  PROVE  /\ Older(s) \in Seq(Nat) /\ Len(Older(s)) = Len(s) /\ DOMAIN Older(s) = 1 .. Len(s)
         /\ Len(s) \in Nat
         /\ \A i \in 1 .. Len(s) : Older(s)[i] = s[i] + 1 /\ s[i] \in Ages
<1>1. s \in Seq(Ages) /\ DOMAIN s = 1 .. Len(s) /\ Len(s) \in Nat
  BY DEF Stamps
<1>2. \A i \in 1 .. Len(s) : s[i] \in Ages
  BY <1>1
<1>3. Older(s) = [i \in 1 .. Len(s) |-> s[i] + 1]
  BY <1>1 DEF Older
<1>4. \A i \in 1 .. Len(s) : s[i] + 1 \in Nat
  BY <1>2 DEF Ages
<1>5. Older(s) \in [1 .. Len(s) -> Nat]
  BY <1>3, <1>4
<1>6. Older(s) \in Seq(Nat) /\ Len(Older(s)) = Len(s)
  BY <1>1, <1>5, IsASeq, LenProperties
<1>. QED
  BY <1>1, <1>2, <1>3, <1>6

\* Those that leave are the first ones.
LEMMA GoneFirst ==
  ASSUME NEW s \in Stamps
  PROVE  /\ Gone(s) \in 0 .. Len(s)
         /\ \A i \in 1 .. Len(s) : i > Gone(s) => s[i] + 1 < Window
<1> DEFINE old == {i \in DOMAIN Older(s) : Older(s)[i] >= Window}
<1>1. old = {i \in 1 .. Len(s) : s[i] + 1 >= Window}
  BY OlderStamps
<1>2. Len(s) \in Nat /\ IsFiniteSet(1 .. Len(s)) /\ Cardinality(1 .. Len(s)) = Len(s)
  <2>1. Len(s) \in Nat
    BY OlderStamps
  <2>. QED
    BY <2>1, FS_Interval
<1>3. IsFiniteSet(old) /\ Cardinality(old) \in 0 .. Len(s)
  <2>1. old \subseteq 1 .. Len(s)
    BY <1>1
  <2>2. IsFiniteSet(old) /\ Cardinality(old) <= Len(s)
    BY <1>2, <2>1, FS_Subset
  <2>3. Cardinality(old) \in Nat
    BY <2>2, FS_CardinalityType
  <2>. QED
    BY <1>2, <2>2, <2>3
<1>4. ASSUME NEW i \in 1 .. Len(s), ~(s[i] + 1 < Window) PROVE i <= Cardinality(old)
  <2>1. \A j \in 1 .. i : j \in 1 .. Len(s) /\ (j < i => s[j] >= s[i])
    BY <1>2 DEF Stamps, InOrder
  <2>2. \A j \in 1 .. Len(s) : s[j] \in Nat
    BY OlderStamps DEF Ages
  <2>3. \A j \in 1 .. i : s[j] + 1 >= Window
    BY <1>2, <1>4, <2>1, <2>2
  <2>4. 1 .. i \subseteq old
    BY <1>1, <2>1, <2>3
  <2>5. Cardinality(1 .. i) = i /\ i \in Nat
    BY <1>2, FS_Interval
  <2>6. Cardinality(1 .. i) <= Cardinality(old)
    BY <1>3, <2>4, FS_Subset
  <2>. QED
    BY <2>5, <2>6
<1>5. Gone(s) = Cardinality(old)
  BY DEF Gone
<1>. HIDE DEF old
<1>6. \A i \in 1 .. Len(s) : i > Gone(s) => s[i] + 1 < Window
  BY <1>2, <1>3, <1>4, <1>5
<1>. QED
  BY <1>3, <1>5, <1>6

\* What is left, one tick later.
LEMMA StampsLeft ==
  ASSUME NEW s \in Stamps
  PROVE  /\ Len(InWindow(Older(s))) = Len(s) - Gone(s)
         /\ \A i \in 1 .. Len(s) - Gone(s) : InWindow(Older(s))[i] = s[i + Gone(s)] + 1
         /\ InWindow(Older(s)) \in Stamps
<1> DEFINE n == Len(s)
           k == Gone(s)
           t == InWindow(Older(s))
<1>1. n \in Nat /\ k \in 0 .. n
  BY OlderStamps, GoneFirst
<1>2. t = SubSeq(Older(s), k + 1, n)
  BY OlderStamps DEF InWindow, Gone
<1>3. /\ Len(t) = n - k
      /\ \A i \in 1 .. n - k : t[i] = Older(s)[i + k]
      /\ t \in Seq(Nat)
  <2>1. Older(s) \in Seq(Nat) /\ k + 1 \in 1 .. n + 1 /\ n \in k .. n /\ Len(Older(s)) = n
    BY <1>1, OlderStamps
  <2>2. /\ SubSeq(Older(s), k + 1, n) \in Seq(Nat)
        /\ Len(SubSeq(Older(s), k + 1, n)) = IF k + 1 <= n THEN n - (k + 1) + 1 ELSE 0
        /\ \A i \in 1 .. n - (k + 1) + 1 :
             SubSeq(Older(s), k + 1, n)[i] = Older(s)[(k + 1) + i - 1]
    BY <2>1, SubSeqProperties
  <2>3. Len(t) = n - k
    BY <1>1, <1>2, <2>2
  <2>4. \A i \in 1 .. n - k : (k + 1) + i - 1 = i + k /\ i \in 1 .. n - (k + 1) + 1
    BY <1>1
  <2>5. \A i \in 1 .. n - k : t[i] = Older(s)[i + k]
    <3>. SUFFICES ASSUME NEW i \in 1 .. n - k PROVE t[i] = Older(s)[i + k]
      OBVIOUS
    <3>1. (k + 1) + i - 1 = i + k /\ i \in 1 .. n - (k + 1) + 1
      BY <2>4
    <3>. HIDE DEF t, n, k
    <3>2. t[i] = Older(s)[(k + 1) + i - 1]
      BY <1>2, <2>2, <3>1
    <3>. QED
      BY <3>1, <3>2
  <2>. QED
    BY <1>2, <2>2, <2>3, <2>5
<1>4. \A i \in 1 .. n - k : i + k \in 1 .. n
  BY <1>1
<1>5. \A i \in 1 .. n - k : t[i] = s[i + k] + 1
  BY <1>3, <1>4, OlderStamps
<1>6. \A i \in 1 .. n - k : t[i] \in Ages
  <2>1. \A i \in 1 .. n - k : i + k > k /\ s[i + k] \in Ages
    BY <1>1, <1>4, OlderStamps
  <2>2. \A i \in 1 .. n - k : s[i + k] + 1 < Window
    BY <1>4, <2>1, GoneFirst
  <2>. QED
    BY <1>5, <2>1, <2>2 DEF Ages
<1>7. t \in Seq(Ages)
  <2>1. t \in [1 .. n - k -> Ages]
    BY <1>3, <1>6
  <2>. QED
    BY <1>1, <2>1, IsASeq
<1>8. InOrder(t)
  <2>. SUFFICES ASSUME NEW i \in 1 .. n - k, NEW j \in 1 .. n - k, i < j PROVE t[i] >= t[j]
    BY <1>3 DEF InOrder
  <2>1. i + k < j + k
    BY <1>1
  <2>2. s[i + k] >= s[j + k]
    BY <1>4, <2>1 DEF Stamps, InOrder
  <2>3. s[i + k] \in Nat /\ s[j + k] \in Nat
    BY <1>4, OlderStamps DEF Ages
  <2>. QED
    BY <1>5, <2>2, <2>3
<1>. QED
  BY <1>3, <1>5, <1>7, <1>8 DEF Stamps


-----------------------------------------------------------------------------
(* Types, with the order of the stamps. *)

StampsInOrder ==
  /\ stamps \in [Address -> Stamps] /\ sends \in [Address -> Stamps]
  /\ \A r \in Requests : request[r] # None => request[r].seen \in Stamps
TypeInv == TypeOK /\ StampsInOrder

RequestOK == request \in [Requests -> Request \cup {None}]
SeenOK == \A r \in Requests : request[r] # None => request[r].seen \in Stamps

LEMMA StampsType == Stamps \subseteq Seq(Ages)
  BY DEF Stamps

\* A request begins ...
LEMMA Begins ==
  ASSUME TypeInv, NEW r \in Requests, NEW step \in Ats, NEW a \in Address,
         NEW t \in Tokens \cup {None}, NEW seen \in Stamps, Begin(r, step, a, t, seen)
  PROVE  /\ RequestOK' /\ SeenOK'
         /\ request'[r] # None /\ request'[r].at = step /\ request'[r].address = a
         /\ request'[r].token = t /\ request'[r].seen = seen
         /\ \A q \in Requests \ {r} : request'[q] = request[q]
<1> DEFINE x == [at |-> step, address |-> a, token |-> t, seen |-> seen]
<1>1. x \in Request
  BY StampsType DEF Request, Ats
<1>2. x.at = step /\ x.address = a /\ x.token = t /\ x.seen = seen
  OBVIOUS
<1>3. request' = [request EXCEPT ![r] = x] /\ RequestOK
  BY DEF Begin, TypeInv, TypeOK, RequestOK
<1>. HIDE DEF x
<1>4. x # None
  BY <1>1
<1>5. \A q \in Requests : request'[q] = IF q = r THEN x ELSE request[q]
  BY <1>3 DEF RequestOK
<1>6. RequestOK'
  BY <1>1, <1>3 DEF RequestOK
<1>7. SeenOK'
  BY <1>2, <1>5 DEF SeenOK, TypeInv, StampsInOrder
<1>. QED
  BY <1>2, <1>4, <1>5, <1>6, <1>7

\* ... goes on ...
LEMMA GoesOn ==
  ASSUME TypeInv, NEW r \in Requests, request[r] # None, NEW step \in Ats, Go(r, step)
  PROVE  /\ RequestOK' /\ SeenOK'
         /\ request'[r] # None /\ request'[r].at = step
         /\ request'[r].address = request[r].address /\ request'[r].token = request[r].token
         /\ request'[r].seen = request[r].seen
         /\ \A q \in Requests \ {r} : request'[q] = request[q]
<1> DEFINE x == [request[r] EXCEPT !.at = step]
<1>0. request[r] \in Request /\ RequestOK
  BY DEF TypeInv, TypeOK, RequestOK
<1>1. x \in Request
  BY <1>0 DEF Request, Ats
<1>2. /\ x.at = step /\ x.address = request[r].address /\ x.token = request[r].token
      /\ x.seen = request[r].seen
  BY <1>0 DEF Request
<1>3. request' = [request EXCEPT ![r] = x]
  BY DEF Go
<1>. HIDE DEF x
<1>4. x # None
  BY <1>1
<1>5. \A q \in Requests : request'[q] = IF q = r THEN x ELSE request[q]
  BY <1>0, <1>3 DEF RequestOK
<1>6. RequestOK'
  BY <1>0, <1>1, <1>3 DEF RequestOK
<1>7. SeenOK'
  BY <1>2, <1>5 DEF SeenOK, TypeInv, StampsInOrder
<1>. QED
  BY <1>2, <1>4, <1>5, <1>6, <1>7

\* ... and is answered.
LEMMA Answered ==
  ASSUME TypeInv, NEW r \in Requests, Answer(r)
  PROVE  /\ RequestOK' /\ SeenOK' /\ request'[r] = None
         /\ \A q \in Requests \ {r} : request'[q] = request[q]
<1>1. RequestOK
  BY DEF TypeInv, TypeOK, RequestOK
<1>2. \A q \in Requests : request'[q] = IF q = r THEN None ELSE request[q]
  BY <1>1 DEF Answer, RequestOK
<1>3. RequestOK'
  BY <1>1 DEF Answer, RequestOK
<1>. QED
  BY <1>2, <1>3 DEF SeenOK, TypeInv, StampsInOrder

\* What a pending request holds.
LEMMA Pending ==
  ASSUME TypeInv, NEW r \in Requests, request[r] # None
  PROVE  /\ request[r].at \in Ats /\ request[r].address \in Address
         /\ request[r].token \in Tokens \cup {None} /\ request[r].seen \in Stamps
<1>1. request[r] \in Request
  BY DEF TypeInv, TypeOK
<1>2. request[r].at \in Ats /\ request[r].address \in Address
      /\ request[r].token \in Tokens \cup {None}
  BY <1>1 DEF Request, Ats
<1>. QED
  BY <1>2 DEF TypeInv, StampsInOrder

\* The tokens that have been issued are those of the codes.
LEMMA IssuedTokens ==
  ASSUME TypeInv
  PROVE  /\ codes \in Seq(Address) /\ Len(codes) \in Nat /\ Issued = 1 .. Len(codes)
         /\ Issued \subseteq Tokens /\ \A t \in Issued : codes[t] \in Address
         /\ None \notin Tokens
<1>1. codes \in Seq(Address) /\ Len(codes) <= MaxIssued
  BY DEF TypeInv, TypeOK
<1>2. Len(codes) \in Nat /\ Issued = 1 .. Len(codes) /\ \A t \in 1 .. Len(codes) : codes[t] \in Address
  BY <1>1 DEF Issued
<1>. QED
  BY <1>1, <1>2 DEF Tokens

\* What the requests in the routes for verifying and for using a code have in their hands.
CodeInHand ==
  \A r \in Requests :
    request[r] # None /\ request[r].at \in {"mark", "look", "insert", "consume"} =>
      request[r].token \in proven /\ codes[request[r].token] = request[r].address

LEMMA TypeInit == Init => TypeInv /\ CodeInHand
<1>. SUFFICES ASSUME Init PROVE TypeInv /\ CodeInHand
  OBVIOUS
<1>1. \A r \in Requests : request[r] = None
  BY DEF Init
<1>2. StampsInOrder
  BY <1>1, EmptyStamps DEF Init, StampsInOrder
<1>3. TypeOK
  BY <1>2, StampsType DEF Init, TypeOK, StampsInOrder, Issued
<1>. QED
  BY <1>1, <1>2, <1>3 DEF TypeInv, CodeInHand


\* The steps of a request.  A code that is verified is the one for the address its request
\* read, and a token is required only for its own address.
LEMMA TypeServe ==
  ASSUME TypeInv, CodeInHand, NEW r \in Requests, Serve(r)
  PROVE  TypeInv' /\ CodeInHand'
<1>0. TypeOK /\ StampsInOrder /\ RequestOK
  BY DEF TypeInv, TypeOK, RequestOK
\* Where a request only begins or goes on, its type and what it has in hand are all there is.
<1>a. ASSUME UNCHANGED <<times, records, accounts>>, RequestOK', SeenOK' PROVE TypeInv'
  BY <1>0, <1>a DEF times, records, accounts, TypeInv, TypeOK, StampsInOrder, RequestOK, SeenOK,
     Issued
<1>b. ASSUME UNCHANGED <<codes, proven>>,
             \A q \in Requests \ {r} : request'[q] = request[q],
             request'[r] # None /\ request'[r].at \in {"mark", "look", "insert", "consume"} =>
               request'[r].token \in proven /\ codes[request'[r].token] = request'[r].address
      PROVE  CodeInHand'
  BY <1>b DEF CodeInHand
<1>1. CASE ReadStamps(r)
  <2>1. PICK a \in Address : Begin(r, "rate", a, None, stamps[a])
    BY <1>1 DEF ReadStamps
  <2>2. stamps[a] \in Stamps
    BY <1>0 DEF StampsInOrder
  <2>3. /\ RequestOK' /\ SeenOK' /\ request'[r].at = "rate"
        /\ \A q \in Requests \ {r} : request'[q] = request[q]
    BY <2>1, <2>2, Begins DEF Ats
  <2>4. UNCHANGED <<times, records, accounts>>
    BY <1>1 DEF ReadStamps
  <2>. QED
    BY <1>a, <1>b, <2>3, <2>4 DEF records
<1>2. CASE WriteStamps(r)
  <2>1. request[r] # None /\ request[r].address \in Address /\ request[r].seen \in Stamps
    BY <1>2, Pending DEF WriteStamps, At
  <2>2. /\ RequestOK' /\ SeenOK' /\ request'[r].at = "issue"
        /\ \A q \in Requests \ {r} : request'[q] = request[q]
    BY <1>2, <2>1, GoesOn DEF WriteStamps, Ats
  <2>3. CodeInHand'
    BY <1>2, <1>b, <2>2 DEF WriteStamps, records
  <2>4. stamps' = [stamps EXCEPT ![request[r].address] = Append(request[r].seen, 0)]
        /\ sends' = [sends EXCEPT ![request[r].address] = Append(sends[request[r].address], 0)]
    BY <1>2 DEF WriteStamps
  <2>5. Append(request[r].seen, 0) \in Stamps
        /\ Append(sends[request[r].address], 0) \in Stamps
    <3>1. sends[request[r].address] \in Stamps
      BY <1>0, <2>1 DEF StampsInOrder
    <3>. QED
      BY <2>1, <3>1, StampAdded
  <2>6. stamps' \in [Address -> Stamps] /\ sends' \in [Address -> Stamps]
    BY <1>0, <2>4, <2>5 DEF StampsInOrder
  <2>7. StampsInOrder'
    BY <2>2, <2>6 DEF StampsInOrder, SeenOK
  <2>8. stamps' \in [Address -> Seq(Ages)] /\ sends' \in [Address -> Seq(Ages)]
    BY <2>6, StampsType
  <2>9. TypeOK'
    BY <1>0, <1>2, <2>2, <2>8 DEF WriteStamps, records, accounts, TypeOK, RequestOK, Issued
  <2>. QED
    BY <2>3, <2>7, <2>9 DEF TypeInv
<1>3. CASE CreateChildEmailOtp(r)
  <2>1. request[r] # None /\ request[r].address \in Address
    BY <1>3, Pending DEF CreateChildEmailOtp, At
  <2>2. /\ RequestOK' /\ SeenOK' /\ request'[r] = None
        /\ \A q \in Requests \ {r} : request'[q] = request[q]
    BY <1>3, Answered DEF CreateChildEmailOtp
  <2>3. /\ codes' = Append(codes, request[r].address) /\ Len(codes) < MaxIssued
        /\ live' = live \cup {Len(codes) + 1}
        /\ UNCHANGED <<times, marked, proven, accounts>>
    BY <1>3 DEF CreateChildEmailOtp
  <2>4. /\ codes' \in Seq(Address) /\ Len(codes') = Len(codes) + 1
        /\ Issued' = Issued \cup {Len(codes) + 1} /\ \A t \in Issued : codes'[t] = codes[t]
    BY <2>1, <2>3, IssuedTokens DEF Issued
  <2>5. Len(codes') <= MaxIssued
    BY <2>3, <2>4, IssuedTokens
  <2>6. CodeInHand'
    BY <1>0, <2>2, <2>3, <2>4 DEF CodeInHand, TypeOK
  <2>7. TypeOK'
    BY <1>0, <2>2, <2>3, <2>4, <2>5 DEF TypeOK, times, accounts, RequestOK
  <2>8. StampsInOrder'
    BY <1>0, <2>2, <2>3 DEF StampsInOrder, times, SeenOK
  <2>. QED
    BY <2>6, <2>7, <2>8 DEF TypeInv
<1>4. CASE ReadCode(r)
  <2>1. PICK t \in live : proven' = proven \cup {t} /\ Begin(r, "mark", codes[t], t, <<>>)
    BY <1>4 DEF ReadCode
  <2>2. t \in Issued /\ t \in Tokens /\ codes[t] \in Address
    BY <1>0, <2>1, IssuedTokens DEF TypeOK
  <2>3. /\ RequestOK' /\ SeenOK' /\ request'[r].at = "mark" /\ request'[r].token = t
        /\ request'[r].address = codes[t]
        /\ \A q \in Requests \ {r} : request'[q] = request[q]
    BY <2>1, <2>2, EmptyStamps, Begins DEF Ats
  <2>4. UNCHANGED <<times, codes, live, marked, accounts>>
    BY <1>4 DEF ReadCode
  <2>5. CodeInHand'
    BY <2>1, <2>3, <2>4 DEF CodeInHand
  <2>6. TypeOK'
    BY <1>0, <2>1, <2>2, <2>3, <2>4 DEF TypeOK, times, accounts, RequestOK, Issued
  <2>7. StampsInOrder'
    BY <1>0, <2>3, <2>4 DEF StampsInOrder, times, SeenOK
  <2>. QED
    BY <2>5, <2>6, <2>7 DEF TypeInv
<1>5. CASE Mark(r)
  <2>1. request[r] # None /\ request[r].token \in proven
    BY <1>5 DEF Mark, At, CodeInHand
  <2>2. /\ RequestOK' /\ SeenOK' /\ request'[r] = None
        /\ \A q \in Requests \ {r} : request'[q] = request[q]
    BY <1>5, Answered DEF Mark
  <2>3. /\ marked' = marked \cup {request[r].token} /\ live' = live \cup {request[r].token}
        /\ UNCHANGED <<times, codes, proven, accounts>>
    BY <1>5 DEF Mark
  <2>4. CodeInHand'
    BY <1>b, <2>2, <2>3
  <2>5. TypeOK'
    BY <1>0, <2>1, <2>2, <2>3 DEF TypeOK, times, accounts, RequestOK, Issued
  <2>6. StampsInOrder'
    BY <1>0, <2>2, <2>3 DEF StampsInOrder, times, SeenOK
  <2>. QED
    BY <2>4, <2>5, <2>6 DEF TypeInv
<1>6. CASE Require(r)
  <2>1. PICK t \in Issued, a \in Address : Verified(t, a) /\ Begin(r, "look", a, t, <<>>)
    BY <1>6 DEF Require
  <2>2. t \in Tokens /\ t \in proven /\ codes[t] = a
    BY <1>0, <2>1, IssuedTokens DEF Verified, TypeOK
  <2>3. /\ RequestOK' /\ SeenOK' /\ request'[r].token = t /\ request'[r].address = a
        /\ \A q \in Requests \ {r} : request'[q] = request[q]
    BY <2>1, <2>2, EmptyStamps, Begins DEF Ats
  <2>4. UNCHANGED <<times, records, accounts>>
    BY <1>6 DEF Require
  <2>. QED
    BY <1>a, <1>b, <2>2, <2>3, <2>4 DEF records
<1>7. CASE EmailExists(r)
  <2>0. request[r] # None /\ request[r].token \in proven
        /\ codes[request[r].token] = request[r].address
    BY <1>7 DEF EmailExists, At, CodeInHand
  <2>1. UNCHANGED <<times, records, accounts>> /\ (Go(r, "insert") \/ Answer(r))
    BY <1>7 DEF EmailExists
  <2>2. /\ RequestOK' /\ SeenOK' /\ \A q \in Requests \ {r} : request'[q] = request[q]
        /\ request'[r] # None => request'[r].token = request[r].token
                                 /\ request'[r].address = request[r].address
    BY <2>0, <2>1, GoesOn, Answered DEF Ats
  <2>. QED
    BY <1>a, <1>b, <2>0, <2>1, <2>2 DEF records
<1>8. CASE CreateChild(r)
  <2>0. /\ request[r] # None /\ request[r].token \in proven /\ request[r].address \in Address
        /\ codes[request[r].token] = request[r].address
    BY <1>8, Pending DEF CreateChild, At, CodeInHand
  <2>1. /\ request[r].token \in Issued /\ request[r].token \in Tokens
        /\ request[r].address.by \in Creators /\ request[r].address.email \in Emails
    BY <1>0, <2>0, IssuedTokens DEF TypeOK, Address
  <2>2. UNCHANGED <<times, records>> /\ (Go(r, "consume") \/ Answer(r))
    BY <1>8 DEF CreateChild
  <2>3. /\ RequestOK' /\ SeenOK' /\ \A q \in Requests \ {r} : request'[q] = request[q]
        /\ request'[r] # None => request'[r].token = request[r].token
                                 /\ request'[r].address = request[r].address
    BY <2>0, <2>2, GoesOn, Answered DEF Ats
  <2>4. CodeInHand'
    BY <1>b, <2>0, <2>2, <2>3 DEF records
  <2>5. CASE Accepts(request[r].address.email)
    <3> DEFINE m == request[r].address.email
               t == request[r].token
               g == [by |-> request[r].address.by, token |-> t]
    <3>1. /\ agents' = [agents EXCEPT ![m] = Append(agents[m], g)]
          /\ uses' = [uses EXCEPT ![t] = IF uses[t] < 2 THEN uses[t] + 1 ELSE 2]
          /\ shared' = shared \cup {u \in {t} : Overlaps(r, u)}
      BY <1>8, <2>5 DEF CreateChild
    <3>2. g \in [by : Creators, token : Tokens]
      BY <2>1
    <3>3. agents \in [Emails -> Seq([by : Creators, token : Tokens])]
      BY <1>0 DEF TypeOK
    <3>4. agents' \in [Emails -> Seq([by : Creators, token : Tokens])]
      <4> DEFINE G == [by : Creators, token : Tokens]
      <4>1. g \in G /\ agents \in [Emails -> Seq(G)] /\ m \in Emails
            /\ agents' = [agents EXCEPT ![m] = Append(agents[m], g)]
        BY <2>1, <3>1, <3>2, <3>3
      <4>. HIDE DEF G, g, m
      <4>2. Append(agents[m], g) \in Seq(G)
        BY <4>1
      <4>3. agents' \in [Emails -> Seq(G)]
        BY <4>1, <4>2
      <4>. QED
        BY <4>3 DEF G
    <3>. HIDE DEF g
    <3>5. uses' \in [Tokens -> 0 .. 2]
      <4>1. uses \in [Tokens -> 0 .. 2]
        BY <1>0 DEF TypeOK
      <4>2. (IF uses[t] < 2 THEN uses[t] + 1 ELSE 2) \in 0 .. 2
        BY <2>1, <4>1
      <4>. QED
        BY <3>1, <4>1, <4>2
    <3>6. shared' \subseteq Issued
      BY <1>0, <2>1, <3>1 DEF TypeOK
    <3>7. TypeOK'
      BY <1>0, <2>2, <2>3, <3>4, <3>5, <3>6 DEF TypeOK, times, records, RequestOK, Issued
    <3>. QED
      BY <1>0, <2>2, <2>3, <2>4, <3>7 DEF TypeInv, StampsInOrder, times, SeenOK
  <2>6. CASE ~Accepts(request[r].address.email)
    <3>1. UNCHANGED accounts
      BY <1>8, <2>6 DEF CreateChild
    <3>. QED
      BY <1>a, <2>2, <2>3, <2>4, <3>1
  <2>. QED
    BY <2>5, <2>6
<1>9. CASE Consume(r)
  <2>0. request[r] # None /\ request[r].token \in Issued
    BY <1>0, <1>9 DEF Consume, At, CodeInHand, TypeOK
  <2>1. /\ RequestOK' /\ SeenOK' /\ request'[r] = None
        /\ \A q \in Requests \ {r} : request'[q] = request[q]
    BY <1>9, Answered DEF Consume
  <2>2. /\ live' = live \ {request[r].token} /\ marked' = marked \ {request[r].token}
        /\ shared' \subseteq shared \cup {request[r].token}
        /\ UNCHANGED <<times, codes, proven, agents, uses>>
    BY <1>9 DEF Consume
  <2>3. CodeInHand'
    BY <1>b, <2>1, <2>2
  <2>4. TypeOK'
    BY <1>0, <2>0, <2>1, <2>2 DEF TypeOK, times, RequestOK, Issued
  <2>5. StampsInOrder'
    BY <1>0, <2>1, <2>2 DEF StampsInOrder, times, SeenOK
  <2>. QED
    BY <2>3, <2>4, <2>5 DEF TypeInv
<1>. QED
  BY <1>1, <1>2, <1>3, <1>4, <1>5, <1>6, <1>7, <1>8, <1>9 DEF Serve

LEMMA TypeNext == TypeInv /\ CodeInHand /\ [Next]_vars => TypeInv' /\ CodeInHand'
<1>. SUFFICES ASSUME TypeInv, CodeInHand, [Next]_vars PROVE TypeInv' /\ CodeInHand'
  OBVIOUS
<1>0. TypeOK /\ StampsInOrder
  BY DEF TypeInv
<1>1. CASE DeleteAgent
  <2>1. PICK m \in Emails : agents[m] # <<>> /\ agents' = [agents EXCEPT ![m] = Tail(agents[m])]
    BY <1>1 DEF DeleteAgent
  <2>2. agents' \in [Emails -> Seq([by : Creators, token : Tokens])]
    <3> DEFINE G == [by : Creators, token : Tokens]
    <3>1. agents \in [Emails -> Seq(G)]
      BY <1>0 DEF TypeOK
    <3>. HIDE DEF G
    <3>2. Tail(agents[m]) \in Seq(G)
      BY <2>1, <3>1
    <3>3. agents' \in [Emails -> Seq(G)]
      BY <2>1, <3>1, <3>2
    <3>. QED
      BY <3>3 DEF G
  <2>3. UNCHANGED <<times, records, uses, shared, request>>
    BY <1>1 DEF DeleteAgent
  <2>. QED
    BY <1>0, <2>2, <2>3 DEF TypeInv, TypeOK, StampsInOrder, CodeInHand, times, records, Issued
<1>2. CASE Expire
  BY <1>0, <1>2 DEF Expire, TypeInv, TypeOK, StampsInOrder, CodeInHand, times, accounts, Issued
<1>3. CASE Tick
  <2>1. /\ stamps' = [a \in Address |-> InWindow(Older(stamps[a]))]
        /\ sends' = [a \in Address |-> InWindow(Older(sends[a]))]
        /\ UNCHANGED <<records, accounts, request>>
    BY <1>3 DEF Tick
  <2>2. \A a \in Address : InWindow(Older(stamps[a])) \in Stamps
                           /\ InWindow(Older(sends[a])) \in Stamps
    BY <1>0, StampsLeft DEF StampsInOrder
  <2>3. stamps' \in [Address -> Stamps] /\ sends' \in [Address -> Stamps]
    BY <2>1, <2>2
  <2>4. stamps' \in [Address -> Seq(Ages)] /\ sends' \in [Address -> Seq(Ages)]
    BY <2>3, StampsType
  <2>5. TypeOK'
    BY <1>0, <2>1, <2>4 DEF TypeOK, records, accounts, Issued
  <2>. QED
    BY <1>0, <2>1, <2>3, <2>5 DEF TypeInv, StampsInOrder, CodeInHand, records
<1>4. ASSUME NEW r \in Requests, Fail(r) PROVE TypeInv' /\ CodeInHand'
  <2>1. /\ RequestOK' /\ SeenOK' /\ request'[r] = None
        /\ \A q \in Requests \ {r} : request'[q] = request[q]
    BY <1>4, Answered DEF Fail
  <2>2. UNCHANGED <<times, records, agents, uses>>
    BY <1>4 DEF Fail
  <2>3. shared' \subseteq Issued
    BY <1>0, <1>4 DEF Fail, TypeOK, CodeInHand
  <2>4. TypeOK'
    BY <1>0, <2>1, <2>2, <2>3 DEF TypeOK, times, records, RequestOK, Issued
  <2>. QED
    BY <1>0, <2>1, <2>2, <2>4 DEF TypeInv, StampsInOrder, CodeInHand, times, records, SeenOK
<1>5. CASE UNCHANGED vars
  BY <1>0, <1>5 DEF vars, times, records, accounts, TypeInv, TypeOK, StampsInOrder, CodeInHand,
     Issued
<1>. QED
  BY <1>1, <1>2, <1>3, <1>4, <1>5, TypeServe DEF Next

\* The keys in Redis, the accounts and the requests keep their types: a key that says it is
\* verified is that of a token whose code has been entered.
THEOREM CodesTypes == Spec => []TypeOK
<1>1. TypeInv => TypeOK
  BY DEF TypeInv
<1>. QED
  BY <1>1, TypeInit, TypeNext, PTL DEF Spec


-----------------------------------------------------------------------------
(* The address of an account is proven. *)

Proven(g, m) == g.token \in proven /\ codes[g.token] = [by |-> g.by, email |-> m]

LEMMA ProvenStays ==
  ASSUME TypeInv, EmailProven, agents' = agents, proven \subseteq proven',
         \A t \in Issued : codes'[t] = codes[t]
  PROVE  EmailProven'
<1>1. proven \subseteq Issued
  BY DEF TypeInv, TypeOK
<1>. QED
  BY <1>1 DEF EmailProven

LEMMA ShortTail ==
  ASSUME NEW S, NEW s \in Seq(S), s # <<>>, Len(s) <= 1
  PROVE  Tail(s) = <<>>
<1>1. Tail(s) \in Seq(S) /\ Len(Tail(s)) = Len(s) - 1
  BY HeadTailProperties
<1>2. Len(s) \in Nat /\ Len(Tail(s)) \in Nat
  BY <1>1, LenProperties
<1>3. Len(Tail(s)) = 0
  BY <1>1, <1>2
<1>. QED
  BY <1>1, <1>3, EmptySeq

LEMMA ProvenNext ==
  ASSUME TypeInv, CodeInHand, EmailProven, [Next]_vars
  PROVE  EmailProven'
<1>0. agents \in [Emails -> Seq([by : Creators, token : Tokens])]
  BY DEF TypeInv, TypeOK
<1>1. ASSUME NEW r \in Requests, CreateChild(r) PROVE EmailProven'
  <2>1. /\ request[r].token \in proven /\ request[r].address \in Address
        /\ codes[request[r].token] = request[r].address /\ UNCHANGED records
    BY <1>1, Pending DEF CreateChild, At, CodeInHand
  <2>2. CASE ~Accepts(request[r].address.email)
    BY <1>1, <2>1, <2>2, ProvenStays DEF CreateChild, records, accounts
  <2>3. CASE Accepts(request[r].address.email)
    <3> DEFINE n == request[r].address.email
               g == [by |-> request[r].address.by, token |-> request[r].token]
    <3>1. agents' = [agents EXCEPT ![n] = Append(agents[n], g)]
      BY <1>1, <2>3 DEF CreateChild
    <3>2. n \in Emails /\ g.by = request[r].address.by /\ g.token = request[r].token
          /\ agents[n] = <<>>
          /\ request[r].address = [by |-> request[r].address.by, email |-> n]
      BY <2>1, <2>3 DEF Address, Accepts
    <3>. HIDE DEF n, g
    <3>3. \A m \in Emails : agents'[m] = IF m = n THEN <<g>> ELSE agents[m]
      BY <1>0, <3>1, <3>2
    <3>4. Proven(g, n)
      BY <2>1, <3>2 DEF Proven
    <3>5. \A m \in Emails \ {n} :
            /\ Len(agents'[m]) <= 1
            /\ \A i \in DOMAIN agents'[m] : Proven(agents'[m][i], m)
      BY <3>3 DEF EmailProven, Proven
    <3>6. agents'[n] = <<g>>
      BY <3>2, <3>3
    <3>7. Len(agents'[n]) <= 1 /\ \A i \in DOMAIN agents'[n] : Proven(agents'[n][i], n)
      <4>1. Len(<<g>>) = 1 /\ DOMAIN <<g>> = {1} /\ <<g>>[1] = g
        OBVIOUS
      <4>. QED
        BY <3>4, <3>6, <4>1
    <3>8. \A m \in Emails :
            /\ Len(agents'[m]) <= 1
            /\ \A i \in DOMAIN agents'[m] : Proven(agents'[m][i], m)
      BY <3>5, <3>7
    <3>. QED
      BY <2>1, <3>8 DEF EmailProven, Proven, records
  <2>. QED
    BY <2>2, <2>3
<1>2. CASE DeleteAgent
  <2>1. PICK n \in Emails : agents[n] # <<>> /\ agents' = [agents EXCEPT ![n] = Tail(agents[n])]
    BY <1>2 DEF DeleteAgent
  <2>2. \A m \in Emails : agents'[m] = IF m = n THEN Tail(agents[n]) ELSE agents[m]
    BY <1>0, <2>1
  <2>3. Tail(agents[n]) = <<>>
    <3> DEFINE G == [by : Creators, token : Tokens]
    <3>1. agents[n] \in Seq(G) /\ Len(agents[n]) <= 1
      BY <1>0, <2>1 DEF EmailProven
    <3>. HIDE DEF G
    <3>. QED
      BY <2>1, <3>1, ShortTail
  <2>4. UNCHANGED records
    BY <1>2 DEF DeleteAgent
  <2>. QED
    <3>1. Len(<<>>) = 0 /\ DOMAIN <<>> = {}
      OBVIOUS
    <3>2. \A m \in Emails :
            /\ Len(agents'[m]) <= 1
            /\ \A i \in DOMAIN agents'[m] : Proven(agents'[m][i], m)
      <4>. SUFFICES ASSUME NEW m \in Emails
                    PROVE  /\ Len(agents'[m]) <= 1
                           /\ \A i \in DOMAIN agents'[m] : Proven(agents'[m][i], m)
        OBVIOUS
      <4>1. CASE m = n
        <5>1. agents'[m] = <<>>
          BY <2>2, <2>3, <4>1
        <5>. QED
          BY <3>1, <5>1
      <4>2. CASE m # n
        BY <2>2, <4>2 DEF EmailProven, Proven
      <4>. QED
        BY <4>1, <4>2
    <3>. QED
      BY <2>4, <3>2 DEF EmailProven, Proven, records
<1>3. ASSUME NEW r \in Requests, CreateChildEmailOtp(r) PROVE EmailProven'
  <2>1. codes' = Append(codes, request[r].address) /\ UNCHANGED <<proven, agents>>
    BY <1>3 DEF CreateChildEmailOtp, accounts
  <2>2. request[r].address \in Address
    BY <1>3, Pending DEF CreateChildEmailOtp, At
  <2>3. \A t \in Issued : codes'[t] = codes[t]
    BY <2>1, <2>2, IssuedTokens
  <2>. QED
    BY <2>1, <2>3, ProvenStays
<1>4. CASE UNCHANGED <<codes, agents>> /\ proven \subseteq proven'
  BY <1>4, ProvenStays
<1>. QED
  BY <1>1, <1>2, <1>3, <1>4 DEF Next, Serve, Fail, Expire, Tick, vars, times, records, accounts,
     ReadStamps, WriteStamps, ReadCode, Mark, Require, EmailExists, Consume

\* One account for an e-mail, and its creator has entered a code sent to it: between the
\* look at the code and the insertion nothing takes the proof back, and the unique index
\* keeps a second request from inserting after both have found the e-mail free.
THEOREM AccountsProven == Spec => []EmailProven
<1>1. Init => EmailProven
  BY DEF Init, EmailProven
<1>. QED
  BY <1>1, TypeInit, TypeNext, ProvenNext, PTL DEF Spec

-----------------------------------------------------------------------------
(***************************************************************************)
(* A code makes one account.  The invariant: a token that made one without *)
(* an overlap is either in the hands of the request that is about to use   *)
(* it up, or its key is gone and nobody has it in hand, who could bring    *)
(* the key back.                                                           *)
(***************************************************************************)
Has(r, t) == request[r] # None /\ request[r].token = t
Using(t) == \E r \in Requests : At(r, "consume") /\ request[r].token = t
Idle(t) == t \notin live /\ \A r \in Requests : ~Has(r, t)
Used(t) ==
  uses[t] > 0 => /\ t \in Issued
                 /\ \/ t \in shared
                    \/ uses[t] = 1 /\ (Using(t) \/ Idle(t))
UsesInv == \A t \in Tokens : Used(t)

\* A request that has nothing in its hands but a stamp, or goes on with what it has, does
\* not change this, nor does a token that is new.
LEMMA UsedStays ==
  ASSUME TypeInv, NEW t \in Tokens, Used(t), uses'[t] = uses[t], Issued \subseteq Issued',
         shared \subseteq shared',
         Using(t) => t \in shared' \/ Using(t)' \/ Idle(t)',
         Idle(t) /\ uses[t] > 0 => Idle(t)'
  PROVE  Used(t)'
  BY DEF Used

LEMMA UsesServe ==
  ASSUME TypeInv, CodeInHand, UsesInv, TypeInv', NEW r \in Requests, Serve(r), NEW t \in Tokens
  PROVE  Used(t)'
<1>0. Used(t) /\ TypeOK /\ t # None
  BY IssuedTokens DEF UsesInv, TypeInv
<1>1. CASE ReadStamps(r)
  <2>1. PICK a \in Address : Begin(r, "rate", a, None, stamps[a])
    BY <1>1 DEF ReadStamps
  <2>2. stamps[a] \in Stamps
    BY DEF TypeInv, StampsInOrder
  <2>3. request'[r].token = None /\ \A q \in Requests \ {r} : request'[q] = request[q]
    BY <2>1, <2>2, Begins DEF Ats
  <2>4. request[r] = None /\ UNCHANGED <<times, records, accounts>>
    BY <1>1 DEF ReadStamps
  <2>5. Using(t) => Using(t)'
    BY <2>3, <2>4 DEF Using, At
  <2>6. Idle(t) => Idle(t)'
    BY <1>0, <2>3, <2>4 DEF Idle, Has, records
  <2>. QED
    BY <1>0, <2>4, <2>5, <2>6, UsedStays DEF records, accounts, Issued
<1>2. CASE WriteStamps(r)
  <2>1. request[r] # None /\ request[r].at = "rate" /\ UNCHANGED <<records, accounts>>
        /\ Go(r, "issue")
    BY <1>2 DEF WriteStamps, At
  <2>2. /\ request'[r] # None /\ request'[r].token = request[r].token
        /\ \A q \in Requests \ {r} : request'[q] = request[q]
    BY <2>1, GoesOn DEF Ats
  <2>3. Using(t) => Using(t)'
    BY <2>1, <2>2 DEF Using, At
  <2>4. Idle(t) => Idle(t)'
    BY <2>1, <2>2 DEF Idle, Has, records
  <2>. QED
    BY <1>0, <2>1, <2>3, <2>4, UsedStays DEF records, accounts, Issued
<1>3. CASE CreateChildEmailOtp(r)
  <2>1. /\ request[r] # None /\ request[r].at = "issue"
        /\ codes' = Append(codes, request[r].address) /\ live' = live \cup {Len(codes) + 1}
        /\ UNCHANGED <<uses, shared>> /\ Answer(r)
    BY <1>3 DEF CreateChildEmailOtp, At, accounts
  <2>2. request'[r] = None /\ \A q \in Requests \ {r} : request'[q] = request[q]
    BY <2>1, Answered
  <2>3. request[r].address \in Address
    BY <2>1, Pending
  <2>4. Issued \subseteq Issued' /\ Len(codes) + 1 \notin Issued
    BY <2>1, <2>3, IssuedTokens DEF Issued
  <2>5. Using(t) => Using(t)'
    BY <2>1, <2>2 DEF Using, At
  <2>6. Idle(t) /\ uses[t] > 0 => Idle(t)'
    <3>1. uses[t] > 0 => t \in Issued
      BY <1>0 DEF Used
    <3>2. Idle(t) /\ t \in Issued => Idle(t)'
      BY <2>1, <2>2, <2>4 DEF Idle, Has
    <3>. QED
      BY <3>1, <3>2
  <2>. QED
    BY <1>0, <2>1, <2>4, <2>5, <2>6, UsedStays
<1>4. CASE ReadCode(r) \/ Require(r)
  <2>1. PICK u \in live, step \in {"mark", "look"}, a \in Address : Begin(r, step, a, u, <<>>)
    BY <1>0, <1>4, IssuedTokens DEF ReadCode, Require, Verified, TypeOK
  <2>2. u \in Tokens
    BY <1>0, <2>1, IssuedTokens DEF TypeOK
  <2>3. request'[r].token = u /\ \A q \in Requests \ {r} : request'[q] = request[q]
    BY <2>1, <2>2, EmptyStamps, Begins DEF Ats
  <2>4. request[r] = None /\ UNCHANGED <<codes, live, uses, shared>>
    BY <1>4 DEF ReadCode, Require, records, accounts
  <2>5. Using(t) => Using(t)'
    BY <2>3, <2>4 DEF Using, At
  <2>6. Idle(t) => Idle(t)'
    BY <2>1, <2>3, <2>4 DEF Idle, Has
  <2>. QED
    BY <1>0, <2>4, <2>5, <2>6, UsedStays DEF Issued
<1>5. CASE Mark(r)
  <2>1. /\ request[r] # None /\ request[r].at = "mark" /\ live' = live \cup {request[r].token}
        /\ UNCHANGED <<codes, uses, shared>> /\ Answer(r)
    BY <1>5 DEF Mark, At, accounts
  <2>2. request'[r] = None /\ \A q \in Requests \ {r} : request'[q] = request[q]
    BY <2>1, Answered
  <2>3. Using(t) => Using(t)'
    BY <2>1, <2>2 DEF Using, At
  <2>4. Idle(t) => Idle(t)'
    BY <2>1, <2>2 DEF Idle, Has
  <2>. QED
    BY <1>0, <2>1, <2>3, <2>4, UsedStays DEF Issued
<1>6. CASE EmailExists(r)
  <2>1. /\ request[r] # None /\ request[r].at = "look" /\ UNCHANGED <<times, records, accounts>>
        /\ (Go(r, "insert") \/ Answer(r))
    BY <1>6 DEF EmailExists, At
  <2>2. /\ request'[r] # None => request'[r].token = request[r].token
        /\ \A q \in Requests \ {r} : request'[q] = request[q]
    BY <2>1, GoesOn, Answered DEF Ats
  <2>3. Using(t) => Using(t)'
    BY <2>1, <2>2 DEF Using, At
  <2>4. Idle(t) => Idle(t)'
    BY <2>1, <2>2 DEF Idle, Has, records
  <2>. QED
    BY <1>0, <2>1, <2>3, <2>4, UsedStays DEF records, accounts, Issued
<1>7. CASE CreateChild(r)
  <2>0. /\ request[r] # None /\ request[r].at = "insert" /\ UNCHANGED records
        /\ request[r].token \in Issued /\ request[r].token \in Tokens
    BY <1>0, <1>7, IssuedTokens DEF CreateChild, At, CodeInHand, TypeOK
  <2>1. CASE ~Accepts(request[r].address.email)
    <3>1. Answer(r) /\ UNCHANGED accounts
      BY <1>7, <2>1 DEF CreateChild
    <3>2. request'[r] = None /\ \A q \in Requests \ {r} : request'[q] = request[q]
      BY <3>1, Answered
    <3>3. Using(t) => Using(t)'
      BY <2>0, <3>2 DEF Using, At
    <3>4. Idle(t) => Idle(t)'
      BY <2>0, <3>2 DEF Idle, Has, records
    <3>. QED
      BY <1>0, <2>0, <3>1, <3>3, <3>4, UsedStays DEF records, accounts, Issued
  <2>2. CASE Accepts(request[r].address.email)
    <3> DEFINE u == request[r].token
    <3>1. /\ uses' = [uses EXCEPT ![u] = IF uses[u] < 2 THEN uses[u] + 1 ELSE 2]
          /\ shared' = shared \cup {x \in {u} : Overlaps(r, x)} /\ Go(r, "consume")
      BY <1>7, <2>2 DEF CreateChild
    <3>2. /\ request'[r] # None /\ request'[r].token = u /\ request'[r].at = "consume"
          /\ \A q \in Requests \ {r} : request'[q] = request[q]
      BY <2>0, <3>1, GoesOn DEF Ats
    <3>3. uses \in [Tokens -> 0 .. 2]
      BY <1>0 DEF TypeOK
    <3>4. CASE t # u
      <4>1. uses'[t] = uses[t]
        BY <3>1, <3>3, <3>4
      <4>2. Using(t) => Using(t)'
        BY <2>0, <3>2 DEF Using, At
      <4>3. Idle(t) => Idle(t)'
        BY <2>0, <3>2, <3>4 DEF Idle, Has, records
      <4>. QED
        BY <1>0, <2>0, <3>1, <4>1, <4>2, <4>3, UsedStays DEF records, Issued
    <3>5. CASE t = u
      <4>1. t \in Issued'
        BY <2>0, <3>5 DEF records, Issued
      <4>2. Using(t)'
        BY <3>2, <3>5 DEF Using, At
      <4>3. CASE t \in shared \/ Overlaps(r, t)
        <5>1. t \in shared'
          BY <3>1, <3>5, <4>3
        <5>. QED
          BY <4>1, <5>1 DEF Used
      <4>4. CASE t \notin shared /\ ~Overlaps(r, t)
        <5>1. ~Idle(t)
          BY <2>0, <3>5 DEF Idle, Has
        <5>2. ~Using(t)
          BY <2>0, <3>5, <4>4 DEF Using, At, Overlaps
        <5>3. ~(uses[t] > 0)
          BY <1>0, <4>4, <5>1, <5>2 DEF Used
        <5>4. uses[t] = 0
          BY <3>3, <5>3
        <5>5. uses'[t] = 1
          BY <3>1, <3>3, <3>5, <5>4
        <5>. QED
          BY <4>1, <4>2, <5>5 DEF Used
      <4>. QED
        BY <4>3, <4>4
    <3>. QED
      BY <3>4, <3>5
  <2>. QED
    BY <2>1, <2>2
<1>8. CASE Consume(r)
  <2>1. /\ request[r] # None /\ request[r].at = "consume"
        /\ live' = live \ {request[r].token}
        /\ shared' = shared \cup {x \in {request[r].token} : Overlaps(r, x)}
        /\ UNCHANGED <<codes, uses>> /\ Answer(r)
    BY <1>8 DEF Consume, At
  <2>2. request'[r] = None /\ \A q \in Requests \ {r} : request'[q] = request[q]
    BY <2>1, Answered
  <2>3. Idle(t) => Idle(t)'
    BY <2>1, <2>2 DEF Idle, Has
  <2>4. Using(t) => t \in shared' \/ Using(t)' \/ Idle(t)'
    <3>1. CASE request[r].token # t
      BY <2>1, <2>2, <3>1 DEF Using, At
    <3>2. CASE request[r].token = t /\ Overlaps(r, t)
      BY <2>1, <3>2
    <3>3. CASE request[r].token = t /\ ~Overlaps(r, t)
      BY <2>1, <2>2, <3>3 DEF Overlaps, Idle, Has
    <3>. QED
      BY <3>1, <3>2, <3>3
  <2>. QED
    BY <1>0, <2>1, <2>3, <2>4, UsedStays DEF Issued
<1>. QED
  BY <1>1, <1>2, <1>3, <1>4, <1>5, <1>6, <1>7, <1>8 DEF Serve

LEMMA UsesNext ==
  ASSUME TypeInv, CodeInHand, UsesInv, TypeInv', [Next]_vars
  PROVE  UsesInv'
<1>. SUFFICES ASSUME NEW t \in Tokens PROVE Used(t)'
  BY DEF UsesInv
<1>0. Used(t)
  BY DEF UsesInv
<1>1. CASE DeleteAgent \/ Tick \/ UNCHANGED vars
  <2>1. UNCHANGED <<codes, live, uses, shared, request>>
    BY <1>1 DEF DeleteAgent, Tick, vars, times, records, accounts
  <2>. QED
    BY <1>0, <2>1 DEF Used, Using, Idle, Has, At, Issued
<1>2. CASE Expire
  <2>1. live' \subseteq live /\ UNCHANGED <<codes, uses, shared, request>>
    BY <1>2 DEF Expire, accounts
  <2>. QED
    BY <1>0, <2>1 DEF Used, Using, Idle, Has, At, Issued
<1>3. ASSUME NEW r \in Requests, Fail(r) PROVE Used(t)'
  <2>1. /\ request[r] # None /\ Answer(r) /\ UNCHANGED <<codes, live, uses>>
        /\ shared \subseteq shared'
        /\ request[r].at = "consume" => request[r].token \in shared'
    BY <1>3 DEF Fail, records
  <2>2. request'[r] = None /\ \A q \in Requests \ {r} : request'[q] = request[q]
    BY <2>1, Answered
  <2>3. Using(t) => t \in shared' \/ Using(t)'
    BY <2>1, <2>2 DEF Using, At
  <2>4. Idle(t) => Idle(t)'
    BY <2>1, <2>2 DEF Idle, Has
  <2>. QED
    BY <1>0, <2>1, <2>3, <2>4, UsedStays DEF Issued
<1>. QED
  BY <1>1, <1>2, <1>3, UsesServe DEF Next

\* A code that has made an account makes another only where requests with it overlapped at
\* its use, or the one that used it failed before the key was deleted.
THEOREM CodesUsedOnce == Spec => []UsedOnce
<1>1. Init => UsesInv
  BY DEF Init, UsesInv, Used
<1>2. TypeInv /\ UsesInv => UsedOnce
  <2>. SUFFICES ASSUME TypeInv, UsesInv, NEW t \in Issued, uses[t] > 1 PROVE t \in shared
    BY DEF UsedOnce
  <2>1. t \in Tokens
    BY IssuedTokens
  <2>2. uses[t] \in 0 .. 2
    BY <2>1 DEF TypeInv, TypeOK
  <2>3. uses[t] > 0 /\ uses[t] # 1
    BY <2>2
  <2>. QED
    BY <2>1, <2>3 DEF UsesInv, Used
<1>. QED
  BY <1>1, <1>2, TypeInit, TypeNext, UsesNext, PTL DEF Spec


-----------------------------------------------------------------------------
(***************************************************************************)
(* How often a code is sent.  Requests that overlap read the same stamps   *)
(* and write one stamp between them, so that for each stamp that is no     *)
(* older than some age there are at most as many sends as requests.        *)
(***************************************************************************)
Upto(s, g) == {i \in 1 .. Len(s) : s[i] <= g}
Newer(s, g) == Cardinality(Upto(s, g))

LEMMA NewerType ==
  ASSUME NEW s \in Stamps, NEW g
  PROVE  /\ IsFiniteSet(Upto(s, g)) /\ Newer(s, g) \in 0 .. Len(s) /\ Len(s) \in Nat
<1>1. Len(s) \in Nat
  BY OlderStamps
<1>2. IsFiniteSet(1 .. Len(s)) /\ Cardinality(1 .. Len(s)) = Len(s)
  BY <1>1, FS_Interval
<1>3. Upto(s, g) \subseteq 1 .. Len(s)
  BY DEF Upto
<1>4. IsFiniteSet(Upto(s, g)) /\ Cardinality(Upto(s, g)) <= Len(s)
  BY <1>2, <1>3, FS_Subset
<1>5. Cardinality(Upto(s, g)) \in Nat
  BY <1>4, FS_CardinalityType
<1>. QED
  BY <1>1, <1>4, <1>5 DEF Newer

LEMMA NewerGrows ==
  ASSUME NEW s \in Stamps, NEW g \in Int, NEW h \in Int, g <= h
  PROVE  Newer(s, g) <= Newer(s, h)
<1>1. \A i \in 1 .. Len(s) : s[i] \in Nat
  BY OlderStamps DEF Ages
<1>2. Upto(s, g) \subseteq Upto(s, h)
  BY <1>1 DEF Upto
<1>. QED
  BY <1>2, NewerType, FS_Subset DEF Newer

LEMMA NewerAll == ASSUME NEW s \in Stamps PROVE Newer(s, Window - 1) = Len(s)
<1>1. Len(s) \in Nat /\ \A i \in 1 .. Len(s) : s[i] \in Ages
  BY OlderStamps
<1>2. Upto(s, Window - 1) = 1 .. Len(s)
  BY <1>1 DEF Upto, Ages
<1>3. Cardinality(1 .. Len(s)) = Len(s)
  <2>1. Len(s) \in Nat
    BY <1>1
  <2>. QED
    BY <2>1, FS_Interval
<1>. QED
  BY <1>2, <1>3 DEF Newer

LEMMA NewerNone == ASSUME NEW s \in Stamps PROVE Newer(s, 0 - 1) = 0
<1>1. \A i \in 1 .. Len(s) : s[i] \in Nat
  BY OlderStamps DEF Ages
<1>2. Upto(s, 0 - 1) = {}
  BY <1>1 DEF Upto
<1>. QED
  BY <1>2, FS_EmptySet DEF Newer

LEMMA NewerAdded ==
  ASSUME NEW s \in Stamps, NEW g \in Nat
  PROVE  Newer(Append(s, 0), g) = Newer(s, g) + 1
<1> DEFINE t == Append(s, 0)
<1>1. s \in Seq(Ages) /\ 0 \in Ages /\ Len(s) \in Nat
  BY OlderStamps DEF Stamps, Ages
<1>2. Len(t) = Len(s) + 1 /\ t[Len(s) + 1] = 0 /\ \A i \in 1 .. Len(s) : t[i] = s[i]
  BY <1>1, AppendProperties
<1>. HIDE DEF t
<1>3. 1 .. Len(t) = 1 .. Len(s) \cup {Len(s) + 1} /\ Len(s) + 1 \notin 1 .. Len(s)
  BY <1>1, <1>2
<1>4. Upto(t, g) = Upto(s, g) \cup {Len(s) + 1}
  <2>1. \A i : i \in Upto(t, g) <=> i \in 1 .. Len(s) \cup {Len(s) + 1} /\ t[i] <= g
    BY <1>3 DEF Upto
  <2>2. \A i \in 1 .. Len(s) : i \in Upto(t, g) <=> i \in Upto(s, g)
    BY <1>2, <2>1 DEF Upto
  <2>3. Len(s) + 1 \in Upto(t, g)
    BY <1>2, <2>1
  <2>4. Upto(s, g) \subseteq 1 .. Len(s)
    BY DEF Upto
  <2>. QED
    BY <2>1, <2>2, <2>3, <2>4
<1>5. Len(s) + 1 \notin Upto(s, g)
  BY <1>3 DEF Upto
<1>6. IsFiniteSet(Upto(s, g))
  BY NewerType
<1>7. Cardinality(Upto(s, g) \cup {Len(s) + 1}) = Cardinality(Upto(s, g)) + 1
  BY <1>5, <1>6, FS_AddElement
<1>. QED
  BY <1>4, <1>7 DEF Newer, t

\* Of those that are left after a tick, there are as many of an age as were younger before.
LEMMA NewerLeft ==
  ASSUME NEW s \in Stamps, NEW g \in Ages
  PROVE  Newer(InWindow(Older(s)), g) = Newer(s, g - 1)
<1> DEFINE t == InWindow(Older(s))
           k == Gone(s)
           f == [i \in Upto(t, g) |-> i + k]
<1>1. /\ Len(t) = Len(s) - k /\ \A i \in 1 .. Len(s) - k : t[i] = s[i + k] + 1
      /\ t \in Stamps
  BY StampsLeft
<1>2. /\ k \in 0 .. Len(s) /\ Len(s) \in Nat /\ \A i \in 1 .. Len(s) : s[i] \in Nat
      /\ g \in Nat /\ g < Window
  BY GoneFirst, OlderStamps DEF Ages
<1>3. \A j \in 1 .. Len(s) : s[j] + 1 < Window => j > k
  <2> DEFINE old == {i \in DOMAIN Older(s) : Older(s)[i] >= Window}
  <2>1. old = {i \in 1 .. Len(s) : s[i] + 1 >= Window} /\ k = Cardinality(old)
    BY OlderStamps DEF Gone
  <2>2. IsFiniteSet(1 .. k) /\ Cardinality(1 .. k) = k
    BY <1>2, FS_Interval
  <2>3. \A i \in old : i <= k
    <3>1. \A i \in 1 .. Len(s) : i > k => s[i] + 1 < Window
      BY GoneFirst
    <3>. HIDE DEF k
    <3>. QED
      BY <1>2, <2>1, <3>1
  <2>. HIDE DEF old, k
  <2>4. old \subseteq 1 .. k
    BY <1>2, <2>1, <2>3
  <2>5. old = 1 .. k
    BY <2>1, <2>2, <2>4, FS_Subset
  <2>. SUFFICES ASSUME NEW j \in 1 .. Len(s), s[j] + 1 < Window PROVE j > k
    OBVIOUS
  <2>6. s[j] \in Nat /\ j \in Nat
    BY <1>2
  <2>7. j \notin old
    BY <2>1, <2>6
  <2>8. ~(j \in 1 .. k)
    BY <2>5, <2>7
  <2>. QED
    BY <1>2, <2>6, <2>8
<1>. HIDE DEF t, k
<1>4. \A i \in Upto(t, g) : i \in 1 .. Len(s) - k /\ i + k \in Upto(s, g - 1)
  <2>. SUFFICES ASSUME NEW i \in Upto(t, g)
                PROVE  i \in 1 .. Len(s) - k /\ i + k \in Upto(s, g - 1)
    OBVIOUS
  <2>1. i \in 1 .. Len(s) - k /\ t[i] <= g
    BY <1>1 DEF Upto
  <2>2. i + k \in 1 .. Len(s)
    BY <1>2, <2>1
  <2>3. s[i + k] <= g - 1
    BY <1>1, <1>2, <2>1, <2>2
  <2>. QED
    BY <2>1, <2>2, <2>3 DEF Upto
<1>5. \A j \in Upto(s, g - 1) : j - k \in Upto(t, g) /\ (j - k) + k = j
  <2>. SUFFICES ASSUME NEW j \in Upto(s, g - 1)
                PROVE  j - k \in Upto(t, g) /\ (j - k) + k = j
    OBVIOUS
  <2>1. j \in 1 .. Len(s) /\ s[j] <= g - 1
    BY DEF Upto
  <2>2. s[j] + 1 < Window
    BY <1>2, <2>1
  <2>3. j > k
    BY <1>3, <2>1, <2>2
  <2>4. j - k \in 1 .. Len(s) - k /\ (j - k) + k = j
    BY <1>2, <2>1, <2>3
  <2>5. t[j - k] <= g
    BY <1>1, <1>2, <2>1, <2>4
  <2>. QED
    BY <1>1, <2>4, <2>5 DEF Upto
<1>6. f \in Bijection(Upto(t, g), Upto(s, g - 1))
  <2>1. f \in [Upto(t, g) -> Upto(s, g - 1)]
    BY <1>4
  <2>2. \A i, j \in Upto(t, g) : f[i] = f[j] => i = j
    BY <1>2, <1>4
  <2>3. \A j \in Upto(s, g - 1) : \E i \in Upto(t, g) : f[i] = j
    BY <1>5
  <2>. HIDE DEF f
  <2>. QED
    BY <2>1, <2>2, <2>3 DEF Bijection, Injection, IsInjective, Surjection
<1>7. IsFiniteSet(Upto(t, g))
  BY <1>1, NewerType
<1>. HIDE DEF f
<1>8. Cardinality(Upto(s, g - 1)) = Cardinality(Upto(t, g))
  BY <1>6, <1>7, FS_Bijection DEF ExistsBijection
<1>. QED
  BY <1>8 DEF Newer, t

\* Who may pass has no stamp of this tick: the cooldown is longer.
LEMMA PassNotFresh == ASSUME NEW s \in Stamps, MayPass(s) PROVE Newer(s, 0) = 0
<1>1. Len(s) \in Nat /\ \A i \in 1 .. Len(s) : s[i] \in Nat
  BY OlderStamps DEF Ages
<1>2. ASSUME NEW i \in 1 .. Len(s) PROVE s[i] > 0
  <2>1. Len(s) \in 1 .. Len(s) /\ i <= Len(s)
    BY <1>1
  <2>2. s # <<>>
    BY <1>1, <2>1
  <2>3. s[Len(s)] >= Cooldown
    BY <2>2 DEF MayPass
  <2>4. s[i] >= s[Len(s)]
    BY <1>1, <2>1 DEF Stamps, InOrder
  <2>. QED
    BY <1>1, <2>1, <2>3, <2>4
<1>3. Upto(s, 0) = {}
  BY <1>1, <1>2 DEF Upto
<1>. QED
  BY <1>3, FS_EmptySet DEF Newer


\* Requests that have read the stamps of an address and not yet written them.
Writing(a) == {r \in Requests : At(r, "rate") /\ request[r].address = a}
N == Cardinality(Requests)

Reads(a) ==
  \A r \in Writing(a) :
    /\ MayPass(request[r].seen)
    /\ stamps[a] = request[r].seen \/ stamps[a] = Append(request[r].seen, 0)
Shared(a) ==
  \A g \in Ages :
    Newer(sends[a], g) - Newer(sends[a], 0) <= N * (Newer(stamps[a], g) - Newer(stamps[a], 0))
Fresh(a) ==
  Newer(sends[a], 0) > 0 =>
    Newer(stamps[a], 0) > 0 /\ Newer(sends[a], 0) + Cardinality(Writing(a)) <= N
Sent(a) == Len(stamps[a]) <= MaxPerWindow /\ Reads(a) /\ Shared(a) /\ Fresh(a)
SendsInv == \A a \in Address : Sent(a)

LEMMA Writers ==
  ASSUME NEW a
  PROVE  /\ IsFiniteSet(Writing(a)) /\ Cardinality(Writing(a)) \in 0 .. N /\ N \in Nat
<1>1. IsFiniteSet(Requests) /\ Writing(a) \subseteq Requests
  BY DEF Writing
<1>2. IsFiniteSet(Writing(a)) /\ Cardinality(Writing(a)) <= N
  BY <1>1, FS_Subset DEF N
<1>3. Cardinality(Writing(a)) \in Nat /\ N \in Nat
  BY <1>1, <1>2, FS_CardinalityType DEF N
<1>. QED
  BY <1>2, <1>3

\* The bound for each age, from that for what is older than this tick and that for what
\* is of this tick.
LEMMA Product ==
  ASSUME NEW n \in Nat, NEW x \in Nat, NEW z \in Nat, NEW y \in Nat, NEW w \in Nat,
         x - z <= n * (y - w), z > 0 => w > 0 /\ z <= n
  PROVE  x <= n * y
<1>1. n * (y - w) = n * y - n * w
  OBVIOUS
<1>2. n * y \in Nat /\ n * w \in Nat
  OBVIOUS
<1>3. z <= n * w
  <2>1. CASE z = 0
    BY <1>2, <2>1
  <2>2. CASE z > 0
    <3>1. w - 1 \in Nat
      BY <2>2
    <3>2. n * (w - 1) \in Nat
      BY <3>1
    <3>3. n * (w - 1) = n * w - n
      OBVIOUS
    <3>. QED
      BY <1>2, <2>2, <3>2, <3>3
  <2>. QED
    BY <2>1, <2>2
<1>. QED
  BY <1>1, <1>2, <1>3

LEMMA SentUpto ==
  ASSUME TypeInv, NEW a \in Address, Sent(a), NEW g \in Ages
  PROVE  Newer(sends[a], g) <= N * Newer(stamps[a], g)
<1>1. stamps[a] \in Stamps /\ sends[a] \in Stamps
  BY DEF TypeInv, StampsInOrder
<1> DEFINE x == Newer(sends[a], g)
           z == Newer(sends[a], 0)
           y == Newer(stamps[a], g)
           w == Newer(stamps[a], 0)
<1>2. x \in Nat /\ z \in Nat /\ y \in Nat /\ w \in Nat
  BY <1>1, NewerType
<1>3. x - z <= N * (y - w)
  BY DEF Sent, Shared
<1>4. z > 0 => w > 0 /\ z + Cardinality(Writing(a)) <= N
  BY DEF Sent, Fresh
<1>. HIDE DEF x, y, z, w
<1>5. Cardinality(Writing(a)) \in Nat /\ N \in Nat
  BY Writers
<1>6. z > 0 => w > 0 /\ z <= N
  BY <1>2, <1>4, <1>5
<1>7. x <= N * y
  BY <1>2, <1>3, <1>5, <1>6, Product
<1>. QED
  BY <1>7 DEF x, y

LEMMA SentBound ==
  ASSUME TypeInv, NEW a \in Address, Sent(a)
  PROVE  Len(sends[a]) <= MaxPerWindow * N
<1>1. stamps[a] \in Stamps /\ sends[a] \in Stamps
  BY DEF TypeInv, StampsInOrder
<1>2. Window - 1 \in Ages
  BY DEF Ages
<1>3. Newer(sends[a], Window - 1) <= N * Newer(stamps[a], Window - 1)
  BY <1>2, SentUpto
<1>4. Len(sends[a]) <= N * Len(stamps[a])
  BY <1>1, <1>3, NewerAll
<1>5. Len(sends[a]) \in Nat /\ Len(stamps[a]) \in Nat /\ N \in Nat
  BY <1>1, NewerType, Writers
<1> DEFINE x == Len(sends[a])
           y == Len(stamps[a])
<1>6. y <= MaxPerWindow
  BY DEF Sent
<1>7. x <= N * y /\ x \in Nat /\ y \in Nat
  BY <1>4, <1>5
<1>. HIDE DEF x, y
<1>8. N * (MaxPerWindow - y) \in Nat
  <2>1. MaxPerWindow - y \in Nat
    BY <1>6, <1>7
  <2>. QED
    BY <1>5, <2>1
<1>9. N * (MaxPerWindow - y) = MaxPerWindow * N - N * y
  BY <1>5, <1>7
<1>10. x <= MaxPerWindow * N
  <2>1. MaxPerWindow * N \in Nat /\ N * y \in Nat
    BY <1>5, <1>7
  <2>. QED
    BY <1>7, <1>8, <1>9, <2>1
<1>. QED
  BY <1>10 DEF x

\* A step that writes no stamps and after which nobody else has read them.
LEMMA SentKept ==
  ASSUME TypeInv, NEW a \in Address, Sent(a), UNCHANGED <<stamps[a], sends[a]>>,
         \A r \in Writing(a)' : r \in Writing(a) /\ request'[r] = request[r]
  PROVE  Sent(a)'
<1>1. Reads(a)'
  BY DEF Sent, Reads
<1>2. Shared(a)'
  BY DEF Sent, Shared
<1>3. Cardinality(Writing(a)') <= Cardinality(Writing(a))
  <2>1. IsFiniteSet(Writing(a)) /\ Writing(a)' \subseteq Writing(a)
    BY Writers
  <2>. QED
    BY <2>1, FS_Subset
<1>4. Fresh(a)'
  <2> DEFINE z == Newer(sends[a], 0)
  <2>1. sends[a] \in Stamps
    BY DEF TypeInv, StampsInOrder
  <2>2. z \in Nat /\ Cardinality(Writing(a)) \in Nat /\ N \in Nat
    BY <2>1, NewerType, Writers
  <2>3. Cardinality(Writing(a)') \in Nat
    <3>1. IsFiniteSet(Writing(a)) /\ Writing(a)' \subseteq Writing(a)
      BY Writers
    <3>. QED
      BY <3>1, FS_Subset, FS_CardinalityType
  <2>4. z > 0 => Newer(stamps[a], 0) > 0 /\ z + Cardinality(Writing(a)) <= N
    BY DEF Sent, Fresh
  <2>. HIDE DEF z
  <2>5. z > 0 => Newer(stamps[a], 0) > 0 /\ z + Cardinality(Writing(a)') <= N
    BY <1>3, <2>2, <2>3, <2>4
  <2>. QED
    BY <2>5 DEF Fresh, z
<1>. QED
  BY <1>1, <1>2, <1>4 DEF Sent


\* Who reads the stamps and may pass finds no stamp of this tick.
LEMMA SentReads ==
  ASSUME TypeInv, NEW r \in Requests, ReadStamps(r), NEW a \in Address, Sent(a)
  PROVE  Sent(a)'
<1>1. PICK b \in Address : MayPass(stamps[b]) /\ Begin(r, "rate", b, None, stamps[b])
  BY DEF ReadStamps
<1>2. stamps[a] \in Stamps /\ stamps[b] \in Stamps /\ sends[a] \in Stamps
  BY DEF TypeInv, StampsInOrder
<1>3. UNCHANGED <<stamps, sends>>
  BY DEF ReadStamps, times
<1>4. /\ request'[r].address = b /\ request'[r].seen = stamps[b]
      /\ \A q \in Requests \ {r} : request'[q] = request[q]
  BY <1>1, <1>2, Begins DEF Ats
<1>5. CASE a # b
  <2>1. \A q \in Writing(a)' : q \in Writing(a) /\ request'[q] = request[q]
    BY <1>4, <1>5 DEF Writing, At
  <2>. QED
    BY <1>3, <2>1, SentKept
<1>6. CASE a = b
  <2>1. Newer(stamps[a], 0) = 0
    BY <1>1, <1>2, <1>6, PassNotFresh
  <2>2. Newer(sends[a], 0) = 0
    <3>1. Newer(sends[a], 0) \in Nat
      BY <1>2, NewerType
    <3>. QED
      BY <2>1, <3>1 DEF Sent, Fresh
  <2>3. Fresh(a)'
    BY <1>3, <2>2 DEF Fresh
  <2>4. Reads(a)'
    BY <1>1, <1>3, <1>4, <1>6 DEF Sent, Reads, Writing, At
  <2>. QED
    BY <1>3, <2>3, <2>4 DEF Sent, Shared
<1>. QED
  BY <1>5, <1>6

\* Those who overlap have read the same stamps.
LEMMA SameRead ==
  ASSUME TypeInv, NEW a \in Address, Reads(a), NEW q \in Writing(a), NEW r \in Writing(a)
  PROVE  request[q].seen = request[r].seen
<1>1. request[q].seen \in Stamps /\ request[r].seen \in Stamps
  BY Pending DEF Writing, At
<1> DEFINE s == request[q].seen
           t == request[r].seen
<1>2. /\ s \in Stamps /\ t \in Stamps
      /\ MayPass(s) /\ MayPass(t)
      /\ stamps[a] = s \/ stamps[a] = Append(s, 0)
      /\ stamps[a] = t \/ stamps[a] = Append(t, 0)
  BY <1>1 DEF Reads
<1>. HIDE DEF s, t
<1>3. Newer(s, 0) = 0 /\ Newer(t, 0) = 0
  BY <1>2, PassNotFresh
<1>4. Newer(Append(s, 0), 0) = 1 /\ Newer(Append(t, 0), 0) = 1
  <2>1. Newer(Append(s, 0), 0) = Newer(s, 0) + 1 /\ Newer(Append(t, 0), 0) = Newer(t, 0) + 1
    BY <1>2, NewerAdded
  <2>. QED
    BY <1>3, <2>1
<1>5. Append(s, 0) = Append(t, 0) => s = t
  <2>1. s \in Seq(Ages) /\ t \in Seq(Ages) /\ 0 \in Ages
    BY <1>2 DEF Stamps, Ages
  <2>. QED
    BY <2>1, AppendInjective
<1>6. s # Append(t, 0) /\ t # Append(s, 0)
  <2>1. s = Append(t, 0) => Newer(s, 0) = Newer(Append(t, 0), 0)
    BY Zenon
  <2>2. t = Append(s, 0) => Newer(t, 0) = Newer(Append(s, 0), 0)
    BY Zenon
  <2>. QED
    BY <1>3, <1>4, <2>1, <2>2
<1>7. s = t
  BY <1>2, <1>5, <1>6, Zenon
<1>. QED
  BY <1>7 DEF s, t

LEMMA SentWrites ==
  ASSUME TypeInv, NEW r \in Requests, WriteStamps(r), NEW a \in Address, Sent(a)
  PROVE  Sent(a)'
<1> DEFINE b == request[r].address
           seen == request[r].seen
<1>1. /\ request[r] # None /\ request[r].at = "rate" /\ r \in Writing(b)
      /\ b \in Address /\ seen \in Stamps
  BY Pending DEF WriteStamps, At, Writing
<1>2. /\ stamps' = [stamps EXCEPT ![b] = Append(seen, 0)]
      /\ sends' = [sends EXCEPT ![b] = Append(sends[b], 0)] /\ Go(r, "issue")
  BY DEF WriteStamps
<1>3. request'[r].at = "issue" /\ \A q \in Requests \ {r} : request'[q] = request[q]
  BY <1>1, <1>2, GoesOn DEF Ats
<1>4. stamps \in [Address -> Stamps] /\ sends \in [Address -> Stamps]
  BY DEF TypeInv, StampsInOrder
<1>. HIDE DEF b, seen
<1>5. CASE a # b
  <2>1. UNCHANGED <<stamps[a], sends[a]>>
    BY <1>2, <1>4, <1>5
  <2>2. \A q \in Writing(a)' : q \in Writing(a) /\ request'[q] = request[q]
    BY <1>3 DEF Writing, At
  <2>. QED
    BY <2>1, <2>2, SentKept
<1>6. CASE a = b
  <2>1. stamps'[a] = Append(seen, 0) /\ sends'[a] = Append(sends[a], 0)
    BY <1>1, <1>2, <1>4, <1>6
  <2>2. /\ r \in Writing(a) /\ MayPass(seen)
        /\ stamps[a] = seen \/ stamps[a] = Append(seen, 0)
    BY <1>1, <1>6 DEF Sent, Reads, seen
  <2>3. stamps[a] \in Stamps /\ sends[a] \in Stamps
    BY <1>4
  <2>4. Len(stamps'[a]) <= MaxPerWindow
    <3>1. Len(Append(seen, 0)) = Len(seen) + 1 /\ Len(seen) \in Nat
      <4>1. seen \in Seq(Ages) /\ 0 \in Ages
        BY <1>1 DEF Stamps, Ages
      <4>. QED
        BY <4>1, AppendProperties, LenProperties
    <3>2. Len(seen) < MaxPerWindow
      BY <2>2 DEF MayPass
    <3>. QED
      BY <2>1, <3>1, <3>2
  <2>5. Writing(a)' = Writing(a) \ {r}
    BY <1>3 DEF Writing, At
  <2>6. Reads(a)'
    <3>1. \A q \in Writing(a) : request[q].seen = seen
      BY <2>2, SameRead DEF Sent, seen
    <3>. QED
      BY <1>3, <2>1, <2>2, <2>5, <3>1 DEF Reads, Writing
  <2>7. ASSUME NEW g \in Nat
        PROVE  /\ Newer(sends[a], g)' = Newer(sends[a], g) + 1
               /\ Newer(stamps[a], g)' = Newer(seen, g) + 1
               /\ Newer(stamps[a], g) = Newer(seen, g)
                  \/ Newer(stamps[a], g) = Newer(seen, g) + 1
    <3>1. Newer(Append(sends[a], 0), g) = Newer(sends[a], g) + 1
          /\ Newer(Append(seen, 0), g) = Newer(seen, g) + 1
      BY <1>1, <2>3, NewerAdded
    <3>2. Newer(sends[a], g)' = Newer(Append(sends[a], 0), g)
          /\ Newer(stamps[a], g)' = Newer(Append(seen, 0), g)
      BY <2>1 DEF Newer, Upto
    <3>. QED
      BY <2>2, <3>1, <3>2
  <2>8. Newer(seen, 0) = 0
    BY <1>1, <2>2, PassNotFresh
  <2>9. Shared(a)'
    <3>. SUFFICES ASSUME NEW g \in Ages
                  PROVE  Newer(sends[a], g)' - Newer(sends[a], 0)' <=
                         N * (Newer(stamps[a], g)' - Newer(stamps[a], 0)')
      BY DEF Shared
    <3> DEFINE x == Newer(sends[a], g)
               z == Newer(sends[a], 0)
               y == Newer(stamps[a], g)
               w == Newer(stamps[a], 0)
               u == Newer(seen, g)
    <3>1. x \in Nat /\ z \in Nat /\ y \in Nat /\ w \in Nat /\ u \in Nat
      BY <1>1, <2>3, NewerType
    <3>2. x - z <= N * (y - w)
      BY DEF Sent, Shared
    <3>3. g \in Nat /\ 0 \in Nat
      BY DEF Ages
    <3>4. /\ Newer(sends[a], g)' = x + 1 /\ Newer(sends[a], 0)' = z + 1
          /\ Newer(stamps[a], g)' = u + 1 /\ Newer(stamps[a], 0)' = 1
      BY <2>7, <2>8, <3>3
    <3>5. y - w = u
      <4>1. CASE stamps[a] = seen
        BY <2>8, <3>1, <4>1
      <4>2. CASE stamps[a] = Append(seen, 0)
        <5>1. y = u + 1 /\ w = Newer(seen, 0) + 1
          BY <1>1, <3>3, <4>2, NewerAdded
        <5>. QED
          BY <2>8, <3>1, <5>1
      <4>. QED
        BY <2>2, <4>1, <4>2
    <3>. HIDE DEF x, y, z, w, u
    <3>6. (x + 1) - (z + 1) = x - z /\ (u + 1) - 1 = u
      BY <3>1
    <3>. QED
      BY <3>2, <3>4, <3>5, <3>6
  <2>10. Fresh(a)'
    <3> DEFINE z == Newer(sends[a], 0)
    <3>1. Newer(sends[a], 0)' = z + 1 /\ Newer(stamps[a], 0)' = 1
      BY <2>7, <2>8
    <3>2. z \in Nat
      BY <2>3, NewerType
    <3>3. Cardinality(Writing(a)') = Cardinality(Writing(a)) - 1
      <4>1. IsFiniteSet(Writing(a))
        BY Writers
      <4>. QED
        BY <2>2, <2>5, <4>1, FS_RemoveElement
    <3>4. Cardinality(Writing(a)) \in 0 .. N /\ N \in Nat
      BY Writers
    <3>5. z > 0 => z + Cardinality(Writing(a)) <= N
      BY DEF Sent, Fresh
    <3>. HIDE DEF z
    <3>6. (z + 1) + Cardinality(Writing(a)') <= N
      BY <3>2, <3>3, <3>4, <3>5
    <3>. QED
      BY <3>1, <3>6 DEF Fresh
  <2>. QED
    BY <2>4, <2>6, <2>9, <2>10 DEF Sent
<1>. QED
  BY <1>5, <1>6

\* With a tick, what was of this tick becomes older, and nobody is about to write.
LEMMA SentTick ==
  ASSUME TypeInv, Tick, NEW a \in Address, Sent(a)
  PROVE  Sent(a)'
<1>1. stamps[a] \in Stamps /\ sends[a] \in Stamps
  BY DEF TypeInv, StampsInOrder
<1>2. stamps'[a] = InWindow(Older(stamps[a])) /\ sends'[a] = InWindow(Older(sends[a]))
  BY DEF Tick
<1>3. Writing(a)' = {}
  BY DEF Tick, Writing, At
<1>4. Len(stamps'[a]) <= MaxPerWindow
  <2>1. Len(stamps'[a]) = Len(stamps[a]) - Gone(stamps[a])
    BY <1>1, <1>2, StampsLeft
  <2>2. Gone(stamps[a]) \in 0 .. Len(stamps[a]) /\ Len(stamps[a]) \in Nat
    BY <1>1, GoneFirst, OlderStamps
  <2>3. Len(stamps[a]) <= MaxPerWindow
    BY DEF Sent
  <2>. QED
    BY <2>1, <2>2, <2>3
<1>5. ASSUME NEW g \in Ages
      PROVE  /\ Newer(sends[a], g)' = Newer(sends[a], g - 1)
             /\ Newer(stamps[a], g)' = Newer(stamps[a], g - 1)
  <2>1. /\ Newer(sends[a], g)' = Newer(InWindow(Older(sends[a])), g)
        /\ Newer(stamps[a], g)' = Newer(InWindow(Older(stamps[a])), g)
    BY <1>2 DEF Newer, Upto
  <2>. QED
    BY <1>1, <2>1, NewerLeft
<1>6. Newer(sends[a], 0)' = 0 /\ Newer(stamps[a], 0)' = 0
  <2>1. 0 \in Ages
    BY DEF Ages
  <2>. QED
    BY <1>1, <1>5, <2>1, NewerNone
<1>7. ASSUME NEW g \in Ages
      PROVE  Newer(sends[a], g - 1) <= N * Newer(stamps[a], g - 1)
  <2>1. CASE g = 0
    <3>1. Newer(sends[a], 0 - 1) = 0 /\ Newer(stamps[a], 0 - 1) = 0
      BY <1>1, NewerNone
    <3>2. N \in Nat
      BY Writers
    <3>. QED
      BY <2>1, <3>1, <3>2
  <2>2. CASE g # 0
    <3>1. g - 1 \in Ages
      BY <2>2 DEF Ages
    <3>. QED
      BY <3>1, SentUpto
  <2>. QED
    BY <2>1, <2>2
<1>8. Shared(a)'
  <2>. SUFFICES ASSUME NEW g \in Ages
                PROVE  Newer(sends[a], g)' - Newer(sends[a], 0)' <=
                       N * (Newer(stamps[a], g)' - Newer(stamps[a], 0)')
    BY DEF Shared
  <2> DEFINE x == Newer(sends[a], g - 1)
             y == Newer(stamps[a], g - 1)
  <2>1. /\ Newer(sends[a], g)' = x /\ Newer(stamps[a], g)' = y
        /\ x <= N * y
    BY <1>5, <1>7
  <2>2. x \in Nat /\ y \in Nat
    BY <1>1, NewerType
  <2>. HIDE DEF x, y
  <2>. QED
    BY <1>6, <2>1, <2>2
<1>9. Fresh(a)'
  BY <1>6 DEF Fresh
<1>10. Reads(a)'
  BY <1>3 DEF Reads
<1>. QED
  BY <1>4, <1>8, <1>9, <1>10 DEF Sent

LEMMA SentNext ==
  ASSUME TypeInv, SendsInv, [Next]_vars
  PROVE  SendsInv'
<1>. SUFFICES ASSUME NEW a \in Address PROVE Sent(a)'
  BY DEF SendsInv
<1>0. Sent(a)
  BY DEF SendsInv
<1>1. ASSUME UNCHANGED times,
             \A q \in Requests : request'[q] = request[q] \/ request'[q] = None
                                 \/ request'[q].at # "rate"
      PROVE  Sent(a)'
  <2>1. \A q \in Writing(a)' : q \in Writing(a) /\ request'[q] = request[q]
    BY <1>1 DEF Writing, At
  <2>. QED
    BY <1>0, <1>1, <2>1, SentKept DEF times
<1>2. ASSUME NEW r \in Requests, Serve(r) PROVE Sent(a)'
  <2>1. CASE ReadStamps(r)
    BY <1>0, <2>1, SentReads
  <2>2. CASE WriteStamps(r)
    BY <1>0, <2>2, SentWrites
  <2>3. CASE ReadCode(r) \/ Require(r)
    <3>1. PICK step \in {"mark", "look"}, b \in Address, t \in Tokens :
            Begin(r, step, b, t, <<>>)
      BY <2>3, IssuedTokens DEF ReadCode, Require, Verified, TypeInv, TypeOK
    <3>2. request'[r].at # "rate" /\ \A q \in Requests \ {r} : request'[q] = request[q]
      BY <3>1, EmptyStamps, Begins DEF Ats
    <3>. QED
      BY <1>1, <2>3, <3>2 DEF ReadCode, Require
  <2>4. CASE CreateChildEmailOtp(r) \/ Mark(r) \/ EmailExists(r) \/ CreateChild(r) \/ Consume(r)
    <3>1. request[r] # None /\ (Answer(r) \/ \E step \in {"insert", "consume"} : Go(r, step))
          /\ UNCHANGED times
      BY <2>4 DEF CreateChildEmailOtp, Mark, EmailExists, CreateChild, Consume, At
    <3>2. /\ \A q \in Requests \ {r} : request'[q] = request[q]
          /\ request'[r] = None \/ request'[r].at # "rate"
      BY <3>1, Answered, GoesOn DEF Ats
    <3>. QED
      BY <1>1, <3>1, <3>2
  <2>. QED
    BY <1>2, <2>1, <2>2, <2>3, <2>4 DEF Serve
<1>3. ASSUME NEW r \in Requests, Fail(r) PROVE Sent(a)'
  BY <1>1, <1>3, Answered DEF Fail
<1>4. CASE DeleteAgent \/ Expire \/ UNCHANGED vars
  BY <1>1, <1>4 DEF DeleteAgent, Expire, vars
<1>. QED
  BY <1>0, <1>2, <1>3, <1>4, SentTick DEF Next

LEMMA SentInit == Init => SendsInv
<1>. SUFFICES ASSUME Init, NEW a \in Address PROVE Sent(a)
  BY DEF SendsInv
<1>1. stamps[a] = <<>> /\ sends[a] = <<>>
  BY DEF Init
<1>2. Len(<<>>) = 0 /\ 0 - 0 = 0
  OBVIOUS
<1>3. \A g : Upto(<<>>, g) = {}
  BY DEF Upto
<1>4. \A g : Newer(<<>>, g) = 0
  BY <1>3, FS_EmptySet DEF Newer
<1>5. Writing(a) = {}
  BY DEF Init, Writing, At
<1>6. Shared(a)
  <2>1. N \in Nat
    BY Writers
  <2>2. 0 - 0 <= N * (0 - 0)
    BY <2>1
  <2>. QED
    BY <1>1, <1>4, <2>2 DEF Shared
<1>7. Fresh(a) /\ Reads(a)
  BY <1>1, <1>4, <1>5 DEF Fresh, Reads
<1>. QED
  BY <1>1, <1>2, <1>6, <1>7 DEF Sent

\* However requests overlap, no address is sent more than MaxPerWindow codes for each
\* request that may be under way in any window: the stamps that get overwritten cost the
\* limit a factor, never the limit itself.
THEOREM SendsAreLimited == Spec => []SendsLimited
<1>1. TypeInv /\ SendsInv => SendsLimited
  BY SentBound DEF SendsInv, SendsLimited, N
<1>. QED
  BY <1>1, TypeInit, TypeNext, SentInit, SentNext, PTL DEF Spec
=============================================================================
