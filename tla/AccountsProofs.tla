--------------------------- MODULE AccountsProofs ---------------------------
(***************************************************************************)
(* What holds of Accounts for any number of accounts, bets, ledger rows    *)
(* and requests: the types, that no row is left behind that refers to an   *)
(* account which has gone, that wallets agree with the ledger, and of      *)
(* Races, that no account is active below an inactive one, but for the     *)
(* races it names.  That a queued deletion is carried out in the end is    *)
(* liveness and is left to TLC.                                            *)
(***************************************************************************)
EXTENDS Races, MoneyProofs

USE AccountsAssumption

Processes == Requests \cup Sweepers

-----------------------------------------------------------------------------
(* The subtree of an account: the least set that has the account and the   *)
(* children of its members.                                                *)

\* With each account a set has its children.
Below(ids) == \A a \in Ids : Live(a) /\ account[a].parent \in ids => a \in ids

LEMMA SubtreeLive == ASSUME NEW c PROVE Subtree(c) \subseteq {a \in Ids : Live(a)}
  BY DEF Subtree

LEMMA SubtreeSelf == ASSUME NEW c \in Ids, Live(c) PROVE c \in Subtree(c)
  BY DEF Subtree

LEMMA SubtreeBelow == ASSUME NEW c PROVE Below(Subtree(c))
<1>. SUFFICES ASSUME NEW a \in Ids, Live(a), account[a].parent \in Subtree(c)
              PROVE  a \in Subtree(c)
  BY DEF Below
<1>. SUFFICES ASSUME NEW S \in SUBSET Ids, c \in S,
                     \A x \in Ids : Live(x) /\ account[x].parent \in S => x \in S
              PROVE  a \in S
  BY DEF Subtree
<1>1. account[a].parent \in S
  BY DEF Subtree
<1>. QED
  BY <1>1

\* Whoever is in a subtree and not its root has a parent in it: without such an account
\* the subtree would still be closed, and smaller.
LEMMA SubtreeAbove ==
  ASSUME NEW c \in Ids, Live(c), NEW a \in Subtree(c), a # c
  PROVE  account[a].parent \in Subtree(c)
<1> DEFINE S == Subtree(c) \ {a}
<1>. SUFFICES ASSUME account[a].parent \notin Subtree(c) PROVE FALSE
  OBVIOUS
<1>1. S \in SUBSET Ids /\ c \in S
  BY SubtreeLive, SubtreeSelf
<1>2. ASSUME NEW x \in Ids, Live(x), account[x].parent \in S PROVE x \in S
  BY <1>2, SubtreeBelow DEF Below
<1>3. a \in S
  <2>. HIDE DEF S
  <2>. QED
    BY <1>1, <1>2 DEF Subtree
<1>. QED
  BY <1>3

LEMMA GoneBelow ==
  ASSUME NEW ids
  PROVE  Gone(ids) \subseteq {a \in Ids : Live(a)} /\ Below(Gone(ids))
<1>1. Gone(ids) \subseteq {a \in Ids : Live(a)}
  BY SubtreeLive DEF Gone
<1>2. ASSUME NEW a \in Ids, Live(a), account[a].parent \in Gone(ids) PROVE a \in Gone(ids)
  <2>1. PICK c \in ids : account[a].parent \in Subtree(c)
    BY <1>2 DEF Gone
  <2>. QED
    BY <1>2, <2>1, SubtreeBelow DEF Below, Gone
<1>. QED
  BY <1>1, <1>2 DEF Below

LEMMA GoneHas ==
  ASSUME NEW ids \in SUBSET Ids, \A a \in ids : Live(a) PROVE ids \subseteq Gone(ids)
  BY SubtreeSelf DEF Gone

-----------------------------------------------------------------------------
(* Types.  A request fixes when it starts what it writes later.            *)

\* What a request has fixed when it comes to write.
Fit(q) ==
  /\ q.at = "insert" => q.who \in Ids \cup {Root} /\ q.arg \in Roles
  /\ q.at = "update" => q.arg \in Status
  /\ q.at = "bet" => q.who \in Ids \cup {Root}
  /\ q.at \in {"bet", "transfer"} => q.amount \in Amounts

ProcessesFit ==
  /\ process \in [Processes -> Process]
  /\ \A x \in Processes : Fit(process[x])

TablesOK ==
  /\ account \in [Ids -> Account]
  /\ wallet \in [Wallets -> Nat]
  /\ ledger \in [TxIds -> Row]
  /\ bets \in [BetIds -> Bet]
  /\ pending \in [Ids -> {"none", "recent", "old"}]

LEMMA BothParts == TablesOK /\ ProcessesFit => TypeOK
  BY DEF TablesOK, ProcessesFit, TypeOK, Processes

LEMMA IdleFits == Idle \in Process /\ Fit(Idle)
<1>1. Idle \in Process
  BY DEF Idle, Process
<1>2. Idle.at = "idle"
  BY DEF Idle
<1>. QED
  BY <1>1, <1>2 DEF Fit

\* A process changes, the others stay.
LEMMA ToFits ==
  ASSUME ProcessesFit, NEW x \in Processes, NEW p \in Process, Fit(p), To(x, p)
  PROVE  ProcessesFit'
  BY DEF ProcessesFit, To

LEMMA EndFits ==
  ASSUME ProcessesFit, NEW x \in Processes, End(x) PROVE ProcessesFit'
  BY IdleFits, ToFits DEF End

\* A process goes on to a step at which it does not write what Fit is about.
LEMMA StepFits ==
  ASSUME ProcessesFit, NEW x \in Processes, NEW at,
         NEW next \in {"look", "mark", "queue", "rows", "commit", "dequeue", "next"},
         Step(x, at, next)
  PROVE  ProcessesFit'
<1>1. process[x] \in Process
  BY DEF ProcessesFit
<1> DEFINE p == [process[x] EXCEPT !.at = next]
<1>2. p \in Process /\ p.at = next
  BY <1>1 DEF Process
<1>3. To(x, p)
  BY DEF Step
<1>. HIDE DEF p
<1>4. Fit(p)
  BY <1>2 DEF Fit
<1>. QED
  BY <1>2, <1>3, <1>4, ToFits

LEMMA TypesInit == Init => TablesOK /\ ProcessesFit
<1>. SUFFICES ASSUME Init PROVE TablesOK /\ ProcessesFit
  OBVIOUS
<1>1. TablesOK
  BY DEF Init, TablesOK, Account, Row, Bet, NoAccount, NoRow, NoBet, Wallets
<1>2. ProcessesFit
  BY IdleFits DEF Init, ProcessesFit, Processes
<1>. QED
  BY <1>1, <1>2

LEMMA LiveIsAccount == ASSUME NEW a, Live(a) PROVE a \in Wallets
  BY DEF Live, Wallets

LEMMA BookTyped ==
  ASSUME TablesOK, NEW from \in Wallets \cup {None}, NEW to \in Wallets \cup {None},
         NEW n \in Amounts, Book(from, to, n)
  PROVE  ledger' \in [TxIds -> Row]
<1>1. [from |-> from, to |-> to, amount |-> n] \in Row
  BY DEF Row
<1>. QED
  BY <1>1 DEF Book, TablesOK

LEMMA PayTyped ==
  ASSUME TablesOK, NEW from, NEW to \in Wallets, NEW n \in Amounts,
         Covers(from, n), Pay(from, to, n)
  PROVE  wallet' \in [Wallets -> Nat]
<1>1. from \in Wallets /\ wallet[from] >= n
  BY LiveIsAccount DEF Covers
<1>2. n \in Nat /\ wallet \in [Wallets -> Nat]
  BY DEF TablesOK
<1>. QED
  BY <1>1, <1>2 DEF Pay

LEMMA SetStatusTyped ==
  ASSUME TablesOK, NEW ids, NEW status \in Status, SetStatus(ids, status)
  PROVE  account' \in [Ids -> Account]
<1>1. account \in [Ids -> Account]
  BY DEF TablesOK
<1>2. ASSUME NEW a \in Ids
      PROVE  [account[a] EXCEPT !.status = status,
                !.changed = IF status = "INACTIVE" THEN "recent" ELSE "null"] \in Account
  BY <1>1 DEF Account
<1>. QED
  BY <1>1, <1>2 DEF SetStatus

-----------------------------------------------------------------------------
(* The tables, one action after the other.                                 *)

LEMMA TablesInsert ==
  ASSUME TablesOK, ProcessesFit, NEW r \in Requests, InsertChild(r) PROVE TablesOK'
<1> DEFINE row == [life |-> "live", parent |-> process[r].who, role |-> process[r].arg,
                   status |-> "ACTIVE", changed |-> "null"]
<1>1. process[r].who \in Ids \cup {Root} /\ process[r].arg \in Roles
  BY DEF ProcessesFit, Processes, Fit, InsertChild
<1>2. row \in Account
  BY <1>1 DEF Account, Status
<1>3. UNCHANGED account \/ \E c \in Ids : account' = [account EXCEPT ![c] = row]
  BY DEF InsertChild
<1>. HIDE DEF row
<1>4. account' \in [Ids -> Account]
  BY <1>2, <1>3 DEF TablesOK
<1>. QED
  BY <1>4 DEF InsertChild, TablesOK

LEMMA TablesUpdate ==
  ASSUME TablesOK, ProcessesFit, NEW r \in Requests, UpdateStatus(r) PROVE TablesOK'
<1>1. process[r].arg \in Status
  BY DEF ProcessesFit, Processes, Fit, UpdateStatus
<1>2. account' \in [Ids -> Account]
  BY <1>1, SetStatusTyped DEF UpdateStatus
<1>. QED
  BY <1>2 DEF UpdateStatus, TablesOK

LEMMA TablesMark ==
  ASSUME TablesOK, NEW r \in Requests, MarkInactive(r) PROVE TablesOK'
<1>1. account' \in [Ids -> Account]
  BY SetStatusTyped DEF MarkInactive, Status
<1>. QED
  BY <1>1 DEF MarkInactive, TablesOK

LEMMA TablesQueue ==
  ASSUME TablesOK, NEW r \in Requests, Queue(r) PROVE TablesOK'
<1>1. pending' \in [Ids -> {"none", "recent", "old"}]
  BY DEF Queue, TablesOK
<1>. QED
  BY <1>1 DEF Queue, TablesOK

LEMMA TablesTransfer ==
  ASSUME TablesOK, ProcessesFit, NEW r \in Requests, CommitTransfer(r)
  PROVE  TablesOK'
<1> DEFINE q == process[r]
<1>3. q.amount \in Amounts
  BY DEF ProcessesFit, Processes, Fit, CommitTransfer
<1>1. CASE Covers(q.who, q.amount) /\ Live(q.root)
  <2>1. q.who \in Wallets /\ q.root \in Wallets
    BY <1>1, LiveIsAccount DEF Covers
  <2>2. Book(q.who, q.root, q.amount) /\ Pay(q.who, q.root, q.amount)
    BY <1>1 DEF CommitTransfer
  <2>3. ledger' \in [TxIds -> Row] /\ wallet' \in [Wallets -> Nat]
    BY <1>1, <1>3, <2>1, <2>2, BookTyped, PayTyped
  <2>. QED
    BY <2>3 DEF CommitTransfer, TablesOK
<1>2. CASE ~(Covers(q.who, q.amount) /\ Live(q.root))
  BY <1>2 DEF CommitTransfer, TablesOK
<1>. QED
  BY <1>1, <1>2

LEMMA TablesAdjust ==
  ASSUME TablesOK, NEW r \in Requests, AdjustRoot(r) PROVE TablesOK'
<1>1. PICK n \in Amounts :
        \/ Book(None, Root, n) /\ wallet' = [wallet EXCEPT ![Root] = @ + n]
        \/ /\ Covers(Root, n)
           /\ Book(Root, None, n) /\ wallet' = [wallet EXCEPT ![Root] = @ - n]
  BY DEF AdjustRoot
<1>2. ledger' \in [TxIds -> Row]
  BY <1>1, BookTyped DEF Wallets
<1>3. wallet' \in [Wallets -> Nat]
  <2>1. n \in Nat /\ wallet \in [Wallets -> Nat] /\ Root \in Wallets
    BY DEF TablesOK, Wallets
  <2>. QED
    BY <1>1, <2>1 DEF Covers
<1>. QED
  BY <1>2, <1>3 DEF AdjustRoot, TablesOK

LEMMA TablesBet ==
  ASSUME TablesOK, ProcessesFit, NEW r \in Requests, PlaceBet(r)
  PROVE  TablesOK'
<1> DEFINE q == process[r]
<1>3. q.amount \in Amounts
  BY DEF ProcessesFit, Processes, Fit, PlaceBet
<1>1. CASE Covers(q.who, q.amount)
  <2>1. q.who \in Ids \cup {Root} /\ Pool \in Wallets
    BY DEF ProcessesFit, Processes, Fit, PlaceBet, Wallets
  <2>2. PICK b \in BetIds :
          /\ bets' = [bets EXCEPT ![b] = [player |-> q.who, state |-> "active"]]
          /\ Book(q.who, Pool, q.amount) /\ Pay(q.who, Pool, q.amount)
    BY <1>1 DEF PlaceBet
  <2>3. ledger' \in [TxIds -> Row] /\ wallet' \in [Wallets -> Nat]
    <3>1. q.who \in Wallets
      BY <2>1 DEF Wallets
    <3>. QED
      BY <1>1, <1>3, <2>1, <2>2, <3>1, BookTyped, PayTyped
  <2>4. [player |-> q.who, state |-> "active"] \in Bet
    BY <2>1 DEF Bet
  <2>5. bets' \in [BetIds -> Bet]
    BY <2>2, <2>4 DEF TablesOK
  <2>. QED
    BY <2>3, <2>5 DEF PlaceBet, TablesOK
<1>2. CASE ~Covers(q.who, q.amount)
  BY <1>2 DEF PlaceBet, TablesOK
<1>. QED
  BY <1>1, <1>2

LEMMA TablesDelete ==
  ASSUME TablesOK, NEW x \in Processes, DeleteAccounts(x) PROVE TablesOK'
<1> DEFINE gone == Gone({c \in process[x].ids : Live(c)})
           rows == process[x].seen \cap Referring(process[x].ids)
<1>1. CASE UNCHANGED <<account, wallet, ledger, bets, pending>>
  BY <1>1 DEF TablesOK
<1>2. CASE /\ account' = [a \in Ids |->
                IF a \in gone THEN [NoAccount EXCEPT !.life = "gone"] ELSE account[a]]
           /\ wallet' = [o \in Wallets |-> IF o \in gone THEN 0 ELSE wallet[o]]
           /\ bets' = [b \in BetIds |-> IF b \in rows THEN NoBet ELSE bets[b]]
           /\ ledger' = [t \in TxIds |-> IF t \in rows THEN NoRow ELSE ledger[t]]
           /\ pending' = [a \in Ids |-> IF a \in process[x].ids THEN "none" ELSE pending[a]]
  <2>. HIDE DEF gone, rows
  <2>1. account' \in [Ids -> Account]
    BY <1>2 DEF TablesOK, Account, NoAccount
  <2>2. NoBet \in Bet /\ NoRow \in Row
    BY DEF NoBet, Bet, NoRow, Row
  <2>3. /\ wallet' \in [Wallets -> Nat] /\ ledger' \in [TxIds -> Row]
        /\ bets' \in [BetIds -> Bet] /\ pending' \in [Ids -> {"none", "recent", "old"}]
    BY <1>2, <2>2 DEF TablesOK
  <2>. QED
    BY <2>1, <2>3 DEF TablesOK
<1>. QED
  BY <1>1, <1>2 DEF DeleteAccounts

LEMMA TablesRest ==
  ASSUME TablesOK,
         \/ \E b \in BetIds : EndRound(b)
         \/ PassTime
         \/ \E x \in Sweepers : TakeNext(x) \/ Dequeue(x)
  PROVE  TablesOK'
<1>1. CASE \E b \in BetIds : EndRound(b)
  <2>1. bets' \in [BetIds -> Bet]
    BY <1>1 DEF EndRound, TablesOK, Bet
  <2>. QED
    BY <1>1, <2>1 DEF EndRound, TablesOK
<1>2. CASE PassTime
  <2>1. account' \in [Ids -> Account]
    BY <1>2 DEF PassTime, TablesOK, Account
  <2>2. pending' \in [Ids -> {"none", "recent", "old"}]
    BY <1>2 DEF PassTime, TablesOK
  <2>. QED
    BY <1>2, <2>1, <2>2 DEF PassTime, TablesOK
<1>3. CASE \E x \in Sweepers : TakeNext(x) \/ Dequeue(x)
  <2>1. pending' \in [Ids -> {"none", "recent", "old"}]
    BY <1>3 DEF TakeNext, Dequeue, TablesOK
  <2>. QED
    BY <1>3, <2>1 DEF TakeNext, Dequeue, TablesOK
<1>. QED
  BY <1>1, <1>2, <1>3

\* The other actions of a process change the process and nothing else.
OnlyProcess(x) ==
  \/ StartCreate(x) \/ StartStatus(x) \/ StartDelete(x) \/ LookForGames(x)
  \/ StartTransfer(x) \/ StartBet(x) \/ DeleteRows(x) \/ LookAgain(x) \/ EndSweep(x)
Sweeping == StartPending \/ StartStuck \/ StartInactive

tables == <<account, wallet, ledger, bets, pending>>

LEMMA OnlyProcessTables ==
  ASSUME NEW x, OnlyProcess(x) \/ Sweeping PROVE UNCHANGED tables
  BY DEF OnlyProcess, Sweeping, tables, StartCreate, StartStatus, StartDelete, LookForGames,
     StartTransfer, StartBet, DeleteRows, LookAgain, EndSweep, StartPending, StartStuck,
     StartInactive, Sweep

\* Every step is one of these.
LEMMA Steps ==
  ASSUME [Next]_vars
  PROVE  \/ \E r \in Requests :
              InsertChild(r) \/ UpdateStatus(r) \/ MarkInactive(r) \/ Queue(r)
                \/ CommitTransfer(r) \/ AdjustRoot(r) \/ PlaceBet(r)
         \/ \E x \in Processes : DeleteAccounts(x)
         \/ \E x \in Sweepers : TakeNext(x) \/ Dequeue(x)
         \/ \E b \in BetIds : EndRound(b)
         \/ PassTime
         \/ (\E x \in Processes : OnlyProcess(x)) \/ Sweeping \/ UNCHANGED vars
  BY DEF Next, Serve, Continue, Processes, OnlyProcess, Sweeping

LEMMA TablesNext == ASSUME TablesOK, ProcessesFit, [Next]_vars PROVE TablesOK'
<1>1. UNCHANGED tables => TablesOK'
  BY DEF tables, TablesOK
<1>2. UNCHANGED vars => UNCHANGED tables
  BY DEF vars, tables
<1>. QED
  BY <1>1, <1>2, Steps, OnlyProcessTables, TablesInsert, TablesUpdate, TablesMark, TablesQueue,
     TablesTransfer, TablesAdjust, TablesBet, TablesDelete, TablesRest

-----------------------------------------------------------------------------
(* The processes.                                                          *)

\* A request starts from idle.
LEMMA AskFits ==
  ASSUME ProcessesFit, NEW r \in Requests, NEW p \in Process, Fit(p), Ask(r, p)
  PROVE  ProcessesFit'
  BY ToFits DEF Ask, Processes

LEMMA StartsFit ==
  ASSUME ProcessesFit, NEW r \in Requests,
         \/ StartCreate(r) \/ StartStatus(r) \/ StartDelete(r) \/ StartTransfer(r) \/ StartBet(r)
  PROVE  ProcessesFit'
<1>0. \A c : Subtree(c) \in SUBSET Ids
  BY SubtreeLive
<1>1. CASE StartCreate(r)
  <2>1. PICK p \in Ids \cup {Root} : \E role \in Roles :
          Ask(r, [Idle EXCEPT !.op = "create", !.at = "insert", !.who = p, !.arg = role])
    BY <1>1 DEF StartCreate
  <2>2. PICK role \in Roles :
          Ask(r, [Idle EXCEPT !.op = "create", !.at = "insert", !.who = p, !.arg = role])
    BY <2>1
  <2> DEFINE q == [Idle EXCEPT !.op = "create", !.at = "insert", !.who = p, !.arg = role]
  <2>3. q \in Process /\ Fit(q)
    BY DEF Idle, Process, Fit, Wallets
  <2>. QED
    BY <2>2, <2>3, AskFits
<1>2. CASE StartStatus(r)
  <2>1. PICK c \in Ids : \E status \in Status :
          Ask(r, [Idle EXCEPT !.op = "status", !.at = "update", !.root = c, !.arg = status,
                    !.ids = IF account[c].role = "AGENT" THEN Subtree(c) ELSE {c}])
    BY <1>2 DEF StartStatus
  <2>2. PICK status \in Status :
          Ask(r, [Idle EXCEPT !.op = "status", !.at = "update", !.root = c, !.arg = status,
                    !.ids = IF account[c].role = "AGENT" THEN Subtree(c) ELSE {c}])
    BY <2>1
  <2> DEFINE ids == IF account[c].role = "AGENT" THEN Subtree(c) ELSE {c}
             q   == [Idle EXCEPT !.op = "status", !.at = "update", !.root = c, !.arg = status,
                                !.ids = ids]
  <2>3. ids \in SUBSET Ids
    BY <1>0
  <2>4. q \in Process /\ Fit(q)
    <3>. HIDE DEF ids
    <3>. QED
      BY <2>3 DEF Idle, Process, Fit, Wallets
  <2>. QED
    BY <2>2, <2>4, AskFits
<1>3. CASE StartDelete(r)
  <2>1. PICK c \in Ids :
          Ask(r, [Idle EXCEPT !.op = "delete", !.at = "look", !.root = c, !.ids = Subtree(c)])
    BY <1>3 DEF StartDelete
  <2> DEFINE q == [Idle EXCEPT !.op = "delete", !.at = "look", !.root = c, !.ids = Subtree(c)]
  <2>2. q \in Process /\ Fit(q)
    BY <1>0 DEF Idle, Process, Fit, Wallets
  <2>. QED
    BY <2>1, <2>2, AskFits
<1>4. CASE StartTransfer(r)
  <2>1. PICK p \in Ids \cup {Root} : \E c \in Ids, n \in Amounts, credit \in BOOLEAN :
          Ask(r, [Idle EXCEPT !.op = "transfer", !.at = "transfer", !.amount = n,
                    !.who = IF credit THEN p ELSE c, !.root = IF credit THEN c ELSE p])
    BY <1>4 DEF StartTransfer
  <2>2. PICK c \in Ids, n \in Amounts, credit \in BOOLEAN :
          Ask(r, [Idle EXCEPT !.op = "transfer", !.at = "transfer", !.amount = n,
                    !.who = IF credit THEN p ELSE c, !.root = IF credit THEN c ELSE p])
    BY <2>1
  <2> DEFINE q == [Idle EXCEPT !.op = "transfer", !.at = "transfer", !.amount = n,
                    !.who = IF credit THEN p ELSE c, !.root = IF credit THEN c ELSE p]
  <2>3. q \in Process /\ Fit(q)
    BY DEF Idle, Process, Fit, Wallets
  <2>. QED
    BY <2>2, <2>3, AskFits
<1>5. CASE StartBet(r)
  <2>1. PICK u \in Ids \cup {Root}, n \in Amounts :
          Ask(r, [Idle EXCEPT !.op = "bet", !.at = "bet", !.who = u, !.amount = n])
    BY <1>5 DEF StartBet
  <2> DEFINE q == [Idle EXCEPT !.op = "bet", !.at = "bet", !.who = u, !.amount = n]
  <2>2. q \in Process /\ Fit(q)
    BY DEF Idle, Process, Fit, Wallets
  <2>. QED
    BY <2>1, <2>2, AskFits
<1>. QED
  BY <1>1, <1>2, <1>3, <1>4, <1>5

LEMMA SweepsFit == ASSUME ProcessesFit, Sweeping PROVE ProcessesFit'
<1>1. ASSUME NEW x \in Sweepers, NEW op \in {"pending", "stuck", "inactive"},
             NEW roots \in SUBSET Ids, Sweep(x, op, roots)
      PROVE  ProcessesFit'
  <2> DEFINE q == [Idle EXCEPT !.op = op, !.at = "next", !.todo = roots]
  <2>1. q \in Process /\ Fit(q)
    BY DEF Idle, Process, Fit
  <2>. QED
    BY <1>1, <2>1, ToFits DEF Sweep, Processes
<1>. QED
  BY <1>1 DEF Sweeping, StartPending, StartStuck, StartInactive, Sweepers

LEMMA TakeNextFits ==
  ASSUME ProcessesFit, NEW x \in Sweepers, TakeNext(x) PROVE ProcessesFit'
<1> DEFINE q == process[x]
           rest(c) == [q EXCEPT !.todo = q.todo \ {c}, !.root = c, !.ids = {}, !.seen = {}]
           look(c) == [rest(c) EXCEPT !.at = "look", !.ids = Subtree(c)]
<1>1. q \in Process /\ q.at = "next" /\ Fit(q)
  BY DEF TakeNext, ProcessesFit, Processes
<1>2. PICK c \in q.todo : To(x, rest(c)) \/ To(x, look(c))
  BY DEF TakeNext
<1>3. rest(c) \in Process /\ rest(c).at = "next"
  BY <1>1 DEF Process, Wallets
<1>4. look(c) \in Process /\ look(c).at = "look"
  <2>. HIDE DEF rest
  <2>1. Subtree(c) \in SUBSET Ids
    BY SubtreeLive
  <2>. QED
    BY <1>3, <2>1 DEF Process
<1>. HIDE DEF q, rest, look
<1>5. Fit(rest(c)) /\ Fit(look(c))
  BY <1>3, <1>4 DEF Fit
<1>. QED
  BY <1>2, <1>3, <1>4, <1>5, ToFits DEF Processes

LEMMA DeleteRowsFits ==
  ASSUME ProcessesFit, NEW x \in Processes, DeleteRows(x) PROVE ProcessesFit'
<1> DEFINE p == [process[x] EXCEPT !.at = "commit", !.seen = Referring(process[x].ids)]
<1>1. process[x] \in Process /\ Referring(process[x].ids) \in SUBSET (BetIds \cup TxIds)
  BY DEF ProcessesFit, Referring
<1>2. p \in Process /\ p.at = "commit"
  BY <1>1 DEF Process
<1>3. To(x, p)
  BY DEF DeleteRows
<1>. HIDE DEF p
<1>4. Fit(p)
  BY <1>2 DEF Fit
<1>. QED
  BY <1>2, <1>3, <1>4, ToFits

LEMMA DeleteAccountsFits ==
  ASSUME ProcessesFit, NEW x \in Processes, DeleteAccounts(x) PROVE ProcessesFit'
<1> DEFINE q    == process[x]
           rows == q.seen \cap Referring(q.ids)
           left(y) == [process[y] EXCEPT !.seen = @ \ rows]
           done == IF q.op = "delete" THEN Idle
                   ELSE [q EXCEPT !.at = IF q.op = "inactive" THEN "next" ELSE "dequeue"]
<1>1. CASE End(x)
  BY <1>1, EndFits
<1>2. CASE process' = [y \in DOMAIN process |-> IF y # x THEN left(y) ELSE done]
  <2>1. \A y \in Processes : process[y] \in Process /\ Fit(process[y])
    BY DEF ProcessesFit
  <2>2. ASSUME NEW y \in Processes PROVE left(y) \in Process /\ Fit(left(y))
    <3>1. process[y] \in Process /\ Fit(process[y])
      BY <2>1
    <3>. HIDE DEF rows
    <3>2. left(y) \in Process
      BY <3>1 DEF Process
    <3>3. left(y).at = process[y].at /\ left(y).who = process[y].who
          /\ left(y).arg = process[y].arg /\ left(y).amount = process[y].amount
      BY <3>1 DEF Process
    <3>. HIDE DEF left
    <3>. QED
      BY <3>1, <3>2, <3>3 DEF Fit
  <2>3. done \in Process /\ Fit(done)
    <3>1. CASE q.op = "delete"
      BY <3>1, IdleFits
    <3>2. CASE q.op # "delete"
      <4>1. q \in Process
        BY <2>1
      <4>2. done \in Process /\ done.at \in {"next", "dequeue"}
        BY <3>2, <4>1 DEF Process
      <4>. HIDE DEF done
      <4>. QED
        BY <4>2 DEF Fit
    <3>. QED
      BY <3>1, <3>2
  <2>. HIDE DEF left, done
  <2>4. DOMAIN process = Processes
    BY DEF ProcessesFit
  <2>. QED
    BY <1>2, <2>2, <2>3, <2>4 DEF ProcessesFit
<1>. QED
  BY <1>1, <1>2 DEF DeleteAccounts

LEMMA FitsNext == ASSUME ProcessesFit, [Next]_vars PROVE ProcessesFit'
<1>1. UNCHANGED process => ProcessesFit'
  BY DEF ProcessesFit
<1>2. ASSUME NEW r \in Requests,
             \/ InsertChild(r) \/ UpdateStatus(r) \/ MarkInactive(r) \/ Queue(r)
             \/ CommitTransfer(r) \/ AdjustRoot(r) \/ PlaceBet(r)
      PROVE  ProcessesFit'
  <2>1. End(r) \/ Step(r, "mark", "queue") \/ UNCHANGED process
    BY <1>2 DEF InsertChild, UpdateStatus, MarkInactive, Queue, CommitTransfer, AdjustRoot,
       PlaceBet
  <2>. QED
    BY <1>1, <2>1, EndFits, StepFits DEF Processes
<1>3. ASSUME NEW x \in Processes, LookForGames(x) \/ LookAgain(x) \/ EndSweep(x)
      PROVE  ProcessesFit'
  <2>1. \/ Step(x, "look", "mark") \/ Step(x, "look", "rows") \/ Step(x, "look", "next")
        \/ End(x)
    BY <1>3 DEF LookForGames, LookAgain, EndSweep
  <2>. QED
    BY <2>1, EndFits, StepFits
<1>4. ASSUME NEW x \in Sweepers, Dequeue(x) PROVE ProcessesFit'
  BY <1>4, StepFits DEF Dequeue, Processes
<1>5. (\E b \in BetIds : EndRound(b)) \/ PassTime \/ UNCHANGED vars => ProcessesFit'
  BY <1>1 DEF EndRound, PassTime, vars
<1>6. (\E r \in Requests : Serve(r)) => ProcessesFit'
  BY <1>2, <1>3, StartsFit, DeleteRowsFits, DeleteAccountsFits DEF Serve, Processes
<1>7. (\E x \in Sweepers : Continue(x)) => ProcessesFit'
  BY <1>3, <1>4, TakeNextFits, DeleteRowsFits, DeleteAccountsFits DEF Continue, Processes
<1>8. StartPending \/ StartStuck \/ StartInactive => ProcessesFit'
  BY SweepsFit DEF Sweeping
<1>. QED
  BY <1>5, <1>6, <1>7, <1>8 DEF Next

TypesInv == TablesOK /\ ProcessesFit

LEMMA TypesAlways == Spec => []TypesInv
<1>1. Init => TypesInv
  BY TypesInit DEF TypesInv
<1>2. TypesInv /\ [Next]_vars => TypesInv'
  BY TablesNext, FitsNext DEF TypesInv
<1>. QED
  BY <1>1, <1>2, PTL DEF Spec

\* Every reachable state is well typed: in particular no wallet is ever overdrawn,
\* whichever transfers, bets and adjustments overlap.
THEOREM AccountTypes == Spec => []TypeOK
<1>1. TypesInv => TypeOK
  BY BothParts DEF TypesInv
<1>. QED
  BY <1>1, TypesAlways, PTL

-----------------------------------------------------------------------------
(* References.  While a deletion is between its statements others add rows *)
(* and children; the deletion goes through only when whatever refers to    *)
(* the accounts it takes, the new children included, is among the rows it  *)
(* deletes.  For that these rows must still refer to its accounts when it  *)
(* commits.                                                                *)

SeenRefers ==
  \A x \in Processes :
    process[x].at = "commit" => process[x].seen \subseteq Referring(process[x].ids)

RefersInv == NoDangling /\ SeenRefers

LEMMA RefersInit == Init => RefersInv
<1>. SUFFICES ASSUME Init PROVE RefersInv
  OBVIOUS
<1>1. NoDangling
  BY DEF Init, NoDangling, NoAccount, NoRow, Live
<1>2. SeenRefers
  BY DEF Init, SeenRefers, Processes, Idle
<1>. QED
  BY <1>1, <1>2 DEF RefersInv

\* Accounts stay, and whoever comes has a parent.
Kept ==
  /\ \A a : Live(a) => Live(a)'
  /\ \A a \in Ids : Live(a)' => Live(account'[a].parent)

LEMMA KeptAlone ==
  ASSUME NoDangling, UNCHANGED account PROVE Kept
  BY DEF NoDangling, Kept, Live

LEMMA KeptInsert ==
  ASSUME TypesInv, NoDangling, NEW r \in Requests, InsertChild(r) PROVE Kept
<1>1. CASE UNCHANGED account
  BY <1>1, KeptAlone
<1>2. CASE Live(process[r].who) /\ ~UNCHANGED account
  <2>1. PICK c \in Ids :
          /\ account[c].life = "new"
          /\ account' = [account EXCEPT ![c] =
               [life |-> "live", parent |-> process[r].who, role |-> process[r].arg,
                status |-> "ACTIVE", changed |-> "null"]]
    BY <1>2 DEF InsertChild
  <2>2. DOMAIN account = Ids
    BY DEF TypesInv, TablesOK
  <2>. QED
    BY <1>2, <2>1, <2>2 DEF NoDangling, Kept, Live
<1>. QED
  BY <1>1, <1>2 DEF InsertChild

LEMMA SetStatusKeeps ==
  ASSUME TypesInv, NEW ids, NEW status, SetStatus(ids, status), NEW a \in Ids
  PROVE  /\ account'[a].life = account[a].life /\ account'[a].parent = account[a].parent
         /\ account'[a].role = account[a].role
<1>1. account[a] \in Account
  BY DEF TypesInv, TablesOK
<1>2. account'[a] = IF a \in ids /\ Live(a)
        THEN [account[a] EXCEPT !.status = status,
                !.changed = IF status = "INACTIVE" THEN "recent" ELSE "null"]
        ELSE account[a]
  BY DEF SetStatus
<1>. QED
  BY <1>1, <1>2 DEF Account

LEMMA KeptStatus ==
  ASSUME TypesInv, NoDangling, NEW r, UpdateStatus(r) \/ MarkInactive(r) PROVE Kept
<1>1. \A a \in Ids : account'[a].life = account[a].life /\ account'[a].parent = account[a].parent
  BY SetStatusKeeps DEF UpdateStatus, MarkInactive
<1>. QED
  BY <1>1 DEF NoDangling, Kept, Live

LEMMA KeptTime == ASSUME TypesInv, NoDangling, PassTime PROVE Kept
<1>1. \A a \in Ids : account'[a].life = account[a].life /\ account'[a].parent = account[a].parent
  BY DEF PassTime, TypesInv, TablesOK, Account
<1>. QED
  BY <1>1 DEF NoDangling, Kept, Live

\* A row that is added refers to accounts that are there.
RowsKept ==
  /\ \A b \in BetIds : bets'[b] # NoBet => Live(bets'[b].player)
  /\ \A t \in TxIds : \A o \in {ledger'[t].from, ledger'[t].to} : o # None => Live(o)

LEMMA NoneDangles == ASSUME Kept, RowsKept PROVE NoDangling'
  BY DEF Kept, RowsKept, NoDangling

LEMMA RowsAlone == ASSUME NoDangling, UNCHANGED <<bets, ledger>> PROVE RowsKept
  BY DEF NoDangling, RowsKept

LEMMA BookKeeps ==
  ASSUME TypesInv, NoDangling, NEW from, NEW to, NEW n, Book(from, to, n),
         from = None \/ Live(from), to = None \/ Live(to),
         NEW t \in TxIds, NEW o \in {ledger'[t].from, ledger'[t].to}, o # None
  PROVE  Live(o)
  BY DEF Book, NoDangling, TypesInv, TablesOK

LEMMA RowsTransfer ==
  ASSUME TypesInv, NoDangling, NEW r \in Requests, CommitTransfer(r) PROVE RowsKept
<1> DEFINE q == process[r]
<1>1. CASE Covers(q.who, q.amount) /\ Live(q.root)
  <2>1. Book(q.who, q.root, q.amount) /\ Live(q.who) /\ UNCHANGED bets
    BY <1>1 DEF CommitTransfer, Covers
  <2>. QED
    BY <1>1, <2>1, BookKeeps DEF RowsKept, NoDangling
<1>2. CASE ~(Covers(q.who, q.amount) /\ Live(q.root))
  BY <1>2, RowsAlone DEF CommitTransfer
<1>. QED
  BY <1>1, <1>2

LEMMA RowsAdjust ==
  ASSUME TypesInv, NoDangling, NEW r \in Requests, AdjustRoot(r) PROVE RowsKept
<1>1. PICK n \in Amounts : Book(None, Root, n) \/ Book(Root, None, n)
  BY DEF AdjustRoot
<1>2. Live(Root) /\ UNCHANGED bets
  BY DEF Live, AdjustRoot
<1>. QED
  BY <1>1, <1>2, BookKeeps DEF RowsKept, NoDangling

LEMMA RowsBet ==
  ASSUME TypesInv, NoDangling, NEW r \in Requests, PlaceBet(r) PROVE RowsKept
<1> DEFINE q == process[r]
<1>1. CASE Covers(q.who, q.amount)
  <2>1. PICK b \in BetIds :
          /\ bets' = [bets EXCEPT ![b] = [player |-> q.who, state |-> "active"]]
          /\ Book(q.who, Pool, q.amount)
    BY <1>1 DEF PlaceBet
  <2>2. Live(q.who) /\ Live(Pool)
    BY <1>1 DEF Covers, Live
  <2>3. \A c \in BetIds : bets'[c] # NoBet => Live(bets'[c].player)
    BY <2>1, <2>2 DEF NoDangling, TypesInv, TablesOK
  <2>. QED
    BY <2>1, <2>2, <2>3, BookKeeps DEF RowsKept
<1>2. CASE ~Covers(q.who, q.amount)
  BY <1>2, RowsAlone DEF PlaceBet
<1>. QED
  BY <1>1, <1>2

LEMMA RowsEnd ==
  ASSUME TypesInv, NoDangling, NEW b \in BetIds, EndRound(b) PROVE RowsKept
<1>1. bets[b] # NoBet
  BY DEF EndRound, NoBet
<1>2. \A c \in BetIds : bets'[c].player = bets[c].player /\ (c # b => bets'[c] = bets[c])
  BY DEF EndRound, TypesInv, TablesOK, Bet
<1>. QED
  BY <1>1, <1>2 DEF RowsKept, NoDangling, EndRound

\* A deletion that goes through: what it takes, and what with it.
Deletes(x) ==
  LET q    == process[x]
      gone == Gone({c \in q.ids : Live(c)})
      rows == q.seen \cap Referring(q.ids)
  IN /\ q.at = "commit" /\ ~Blocked(x, gone)
     /\ account' = [a \in Ids |->
          IF a \in gone THEN [NoAccount EXCEPT !.life = "gone"] ELSE account[a]]
     /\ wallet' = [o \in Wallets |-> IF o \in gone THEN 0 ELSE wallet[o]]
     /\ bets' = [b \in BetIds |-> IF b \in rows THEN NoBet ELSE bets[b]]
     /\ ledger' = [t \in TxIds |-> IF t \in rows THEN NoRow ELSE ledger[t]]
     /\ process' = [y \in DOMAIN process |->
          IF y # x THEN [process[y] EXCEPT !.seen = @ \ rows]
          ELSE IF q.op = "delete" THEN Idle
          ELSE [q EXCEPT !.at = IF q.op = "inactive" THEN "next" ELSE "dequeue"]]

LEMMA DeleteOrNot ==
  ASSUME NEW x, DeleteAccounts(x)
  PROVE  Deletes(x) \/ (End(x) /\ UNCHANGED <<account, wallet, ledger, bets, pending>>)
  BY DEF DeleteAccounts, Deletes

LEMMA DeleteKeepsNone ==
  ASSUME TypesInv, RefersInv, NEW x \in Processes, Deletes(x) PROVE NoDangling'
<1> DEFINE q    == process[x]
           gone == Gone({c \in q.ids : Live(c)})
           rows == q.seen \cap Referring(q.ids)
<1>1. Referring(gone) \subseteq rows
  <2>1. q.seen \subseteq Referring(q.ids)
    BY DEF RefersInv, SeenRefers, Deletes
  <2>. QED
    BY <2>1 DEF Deletes, Blocked
<1>2. gone \subseteq {a \in Ids : Live(a)} /\ Below(gone)
  BY GoneBelow
<1>3. /\ account' = [a \in Ids |->
           IF a \in gone THEN [NoAccount EXCEPT !.life = "gone"] ELSE account[a]]
      /\ bets' = [b \in BetIds |-> IF b \in rows THEN NoBet ELSE bets[b]]
      /\ ledger' = [t \in TxIds |-> IF t \in rows THEN NoRow ELSE ledger[t]]
  BY DEF Deletes
<1>4. account \in [Ids -> Account]
  BY DEF TypesInv, TablesOK
<1>. HIDE DEF gone, rows
<1>5. \A a \in Ids : /\ a \notin gone => account'[a] = account[a]
                     /\ account'[a].life = IF a \in gone THEN "gone" ELSE account[a].life
  BY <1>3, <1>4 DEF Account, NoAccount
<1>6. ASSUME NEW o, Live(o), o \notin gone PROVE Live(o)'
  BY <1>5, <1>6 DEF Live
<1>7. ASSUME NEW b \in BetIds, bets'[b] # NoBet PROVE Live(bets[b].player)'
  <2>1. bets'[b] = bets[b] /\ b \notin rows
    BY <1>3, <1>7
  <2>2. Live(bets[b].player) /\ bets[b].player \notin gone
    BY <1>1, <1>7, <2>1 DEF RefersInv, NoDangling, Referring
  <2>3. \A o : o = bets[b].player => Live(o)'
    BY <1>6, <2>2
  <2>. QED
    BY <2>1, <2>3
<1>8. ASSUME NEW t \in TxIds, NEW o \in {ledger'[t].from, ledger'[t].to}, o # None
      PROVE  Live(o)'
  <2>1. ledger'[t] = ledger[t] /\ t \notin rows
    BY <1>3, <1>8 DEF NoRow
  <2>2. Live(o) /\ o \notin gone
    BY <1>1, <1>8, <2>1 DEF RefersInv, NoDangling, Referring
  <2>. QED
    BY <1>6, <2>2
<1>9. ASSUME NEW a \in Ids, Live(a)' PROVE Live(account[a].parent)'
  <2>1. Live(a) /\ a \notin gone /\ account'[a] = account[a]
    BY <1>2, <1>5, <1>9 DEF Live
  <2>2. Live(account[a].parent) /\ account[a].parent \notin gone
    BY <1>2, <2>1 DEF RefersInv, NoDangling, Below
  <2>3. \A o : o = account[a].parent => Live(o)'
    BY <1>6, <2>2
  <2>. QED
    BY <2>1, <2>3
<1>. QED
  BY <1>7, <1>8, <1>9 DEF NoDangling

LEMMA DanglingNext ==
  ASSUME TypesInv, RefersInv, [Next]_vars PROVE NoDangling'
<1>1. NoDangling
  BY DEF RefersInv
<1>2. UNCHANGED <<account, bets, ledger>> => NoDangling'
  BY <1>1, KeptAlone, RowsAlone, NoneDangles
<1>3. ASSUME NEW r \in Requests,
             \/ InsertChild(r) \/ UpdateStatus(r) \/ MarkInactive(r) \/ Queue(r)
             \/ CommitTransfer(r) \/ AdjustRoot(r) \/ PlaceBet(r)
      PROVE  NoDangling'
  <2>1. CASE InsertChild(r) \/ UpdateStatus(r) \/ MarkInactive(r)
    <3>1. UNCHANGED <<bets, ledger>>
      BY <2>1 DEF InsertChild, UpdateStatus, MarkInactive
    <3>. QED
      BY <1>1, <2>1, <3>1, KeptInsert, KeptStatus, RowsAlone, NoneDangles
  <2>2. CASE CommitTransfer(r) \/ AdjustRoot(r) \/ PlaceBet(r)
    <3>1. UNCHANGED account
      BY <2>2 DEF CommitTransfer, AdjustRoot, PlaceBet
    <3>. QED
      BY <1>1, <2>2, <3>1, KeptAlone, RowsTransfer, RowsAdjust, RowsBet, NoneDangles
  <2>3. CASE Queue(r)
    BY <1>2, <2>3 DEF Queue
  <2>. QED
    BY <1>3, <2>1, <2>2, <2>3
<1>4. ASSUME NEW x \in Processes, DeleteAccounts(x) PROVE NoDangling'
  BY <1>2, <1>4, DeleteOrNot, DeleteKeepsNone
<1>5. ASSUME NEW b \in BetIds, EndRound(b) PROVE NoDangling'
  <2>1. UNCHANGED account
    BY <1>5 DEF EndRound
  <2>. QED
    BY <1>1, <1>5, <2>1, KeptAlone, RowsEnd, NoneDangles
<1>6. ASSUME PassTime PROVE NoDangling'
  <2>1. UNCHANGED <<bets, ledger>>
    BY <1>6 DEF PassTime
  <2>. QED
    BY <1>1, <1>6, <2>1, KeptTime, RowsAlone, NoneDangles
<1>7. ASSUME NEW x \in Sweepers, TakeNext(x) \/ Dequeue(x) PROVE NoDangling'
  BY <1>2, <1>7 DEF TakeNext, Dequeue
<1>8. UNCHANGED tables => NoDangling'
  BY <1>2 DEF tables
<1>9. UNCHANGED vars => UNCHANGED tables
  BY DEF vars, tables
<1>. QED
  BY <1>3, <1>4, <1>5, <1>6, <1>7, <1>8, <1>9, Steps, OnlyProcessTables

\* Rows only come, and refer to what they referred to.
RowsStay ==
  /\ \A b \in BetIds : bets[b] # NoBet => bets'[b].player = bets[b].player
  /\ \A t \in TxIds : ledger[t] # NoRow =>
       ledger'[t].from = ledger[t].from /\ ledger'[t].to = ledger[t].to

LEMMA ReferringStays ==
  ASSUME RowsStay, NEW ids \in SUBSET Ids PROVE Referring(ids) \subseteq Referring(ids)'
<1>1. \A b \in BetIds : bets[b].player \in ids => bets[b] # NoBet
  BY DEF NoBet
<1>2. \A t \in TxIds : ledger[t].from \in ids \/ ledger[t].to \in ids => ledger[t] # NoRow
  BY DEF NoRow
<1>. QED
  BY <1>1, <1>2 DEF RowsStay, Referring

\* A process that commits has just looked for its rows, or goes on as it was.
LEMMA SeenKept ==
  ASSUME TypesInv, SeenRefers, RowsStay,
         \A x \in Processes : process'[x].at = "commit" =>
           \/ process'[x] = process[x]
           \/ UNCHANGED tables /\ process'[x].seen = Referring(process[x].ids)
                /\ process'[x].ids = process[x].ids
  PROVE  SeenRefers'
<1>. SUFFICES ASSUME NEW x \in Processes, process'[x].at = "commit"
              PROVE  process'[x].seen \subseteq Referring(process[x].ids)'
  BY DEF SeenRefers
<1>1. CASE process'[x] = process[x]
  <2>1. process[x].ids \in SUBSET Ids
    BY DEF TypesInv, ProcessesFit, Process
  <2>2. process[x].seen \subseteq Referring(process[x].ids)
    BY <1>1 DEF SeenRefers
  <2>3. \A ids : ids = process[x].ids => Referring(process[x].ids) \subseteq Referring(ids)'
    BY <2>1, ReferringStays
  <2>. QED
    BY <1>1, <2>2, <2>3 DEF Referring
<1>2. CASE UNCHANGED tables /\ process'[x].seen = Referring(process[x].ids)
           /\ process'[x].ids = process[x].ids
  BY <1>2 DEF Referring, tables
<1>. QED
  BY <1>1, <1>2

LEMMA BookStays ==
  ASSUME TypesInv, NEW from, NEW to, NEW n, Book(from, to, n),
         NEW t \in TxIds, ledger[t] # NoRow
  PROVE  ledger'[t] = ledger[t]
  BY DEF Book, TypesInv, TablesOK

LEMMA StaysRequest ==
  ASSUME TypesInv, NEW r \in Requests, CommitTransfer(r) \/ AdjustRoot(r) \/ PlaceBet(r)
  PROVE  RowsStay
<1>1. UNCHANGED ledger \/ \E from, to, n : Book(from, to, n)
  BY DEF CommitTransfer, AdjustRoot, PlaceBet
<1>2. \A t \in TxIds : ledger[t] # NoRow => ledger'[t] = ledger[t]
  BY <1>1, BookStays
<1>3. \A b \in BetIds : bets[b] # NoBet => bets'[b] = bets[b]
  BY DEF CommitTransfer, AdjustRoot, PlaceBet, TypesInv, TablesOK
<1>. QED
  BY <1>2, <1>3 DEF RowsStay

LEMMA StaysEnd == ASSUME TypesInv, NEW b \in BetIds, EndRound(b) PROVE RowsStay
<1>1. \A c \in BetIds : bets'[c].player = bets[c].player
  BY DEF EndRound, TypesInv, TablesOK, Bet
<1>. QED
  BY <1>1 DEF RowsStay, EndRound

\* But for the deletion, steps leave rows alone or add to them.
LEMMA StaysNext ==
  ASSUME TypesInv, [Next]_vars, \A x \in Processes : ~Deletes(x)
  PROVE  RowsStay
<1>1. UNCHANGED <<bets, ledger>> => RowsStay
  BY DEF RowsStay
<1>2. ASSUME NEW r \in Requests, InsertChild(r) \/ UpdateStatus(r) \/ MarkInactive(r) \/ Queue(r)
      PROVE  RowsStay
  BY <1>1, <1>2 DEF InsertChild, UpdateStatus, MarkInactive, Queue
<1>3. ASSUME NEW x \in Processes, DeleteAccounts(x) PROVE RowsStay
  BY <1>1, <1>3, DeleteOrNot
<1>4. PassTime => RowsStay
  BY <1>1 DEF PassTime
<1>5. ASSUME NEW x \in Sweepers, TakeNext(x) \/ Dequeue(x) PROVE RowsStay
  BY <1>1, <1>5 DEF TakeNext, Dequeue
<1>6. UNCHANGED tables => RowsStay
  BY <1>1 DEF tables
<1>7. UNCHANGED vars => UNCHANGED tables
  BY DEF vars, tables
<1>. QED
  BY <1>2, <1>3, <1>4, <1>5, <1>6, <1>7, Steps, OnlyProcessTables, StaysRequest, StaysEnd

\* Who comes to commit comes from looking for the rows.
LEMMA CommitsNext ==
  ASSUME TypesInv, [Next]_vars, NEW x \in Processes,
         \A y \in Processes : ~Deletes(y),
         process'[x].at = "commit"
  PROVE  \/ process'[x] = process[x]
         \/ UNCHANGED tables /\ process'[x].seen = Referring(process[x].ids)
              /\ process'[x].ids = process[x].ids
<1>0. process[x] \in Process /\ DOMAIN process = Processes
  BY DEF TypesInv, ProcessesFit
<1>1. ASSUME NEW y, NEW p, To(y, p), p.at # "commit" PROVE process'[x] = process[x]
  BY <1>0, <1>1 DEF To
<1>2. ASSUME NEW y, End(y) PROVE process'[x] = process[x]
  BY <1>1, <1>2 DEF End, Idle
<1>3. ASSUME NEW y, NEW at, NEW next, next # "commit", Step(y, at, next)
      PROVE  process'[x] = process[x]
  BY <1>0, <1>3 DEF Step, To, Process
<1>4. ASSUME NEW y, DeleteRows(y)
      PROVE  \/ process'[x] = process[x]
             \/ UNCHANGED tables /\ process'[x].seen = Referring(process[x].ids)
                  /\ process'[x].ids = process[x].ids
  BY <1>0, <1>4 DEF DeleteRows, To, Process, tables
<1>5. ASSUME NEW y, \/ StartCreate(y) \/ StartStatus(y) \/ StartDelete(y)
                     \/ StartTransfer(y) \/ StartBet(y)
      PROVE  process'[x] = process[x]
  <2>1. \A p : Ask(y, p) => To(y, p)
    BY DEF Ask
  <2>. USE DEF Idle
  <2>2. CASE StartCreate(y)
    BY <1>1, <2>1, <2>2 DEF StartCreate
  <2>3. CASE StartStatus(y)
    BY <1>1, <2>1, <2>3 DEF StartStatus
  <2>4. CASE StartDelete(y)
    BY <1>1, <2>1, <2>4 DEF StartDelete
  <2>5. CASE StartTransfer(y)
    BY <1>1, <2>1, <2>5 DEF StartTransfer
  <2>6. CASE StartBet(y)
    BY <1>1, <2>1, <2>6 DEF StartBet
  <2>. QED
    BY <1>5, <2>2, <2>3, <2>4, <2>5, <2>6
<1>6. ASSUME NEW y, NEW op, NEW roots, Sweep(y, op, roots) PROVE process'[x] = process[x]
  BY <1>1, <1>6 DEF Sweep, Idle
<1>7. ASSUME NEW y \in Sweepers, TakeNext(y) PROVE process'[x] = process[x]
  <2> DEFINE q == process[y]
             rest(c) == [q EXCEPT !.todo = q.todo \ {c}, !.root = c, !.ids = {}, !.seen = {}]
             look(c) == [rest(c) EXCEPT !.at = "look", !.ids = Subtree(c)]
  <2>1. q \in Process /\ q.at = "next"
    BY <1>7 DEF TypesInv, ProcessesFit, Processes, TakeNext
  <2>2. PICK c \in q.todo : To(y, rest(c)) \/ To(y, look(c))
    BY <1>7 DEF TakeNext
  <2>3. rest(c).at = "next" /\ look(c).at = "look"
    BY <2>1 DEF Process
  <2>. HIDE DEF rest, look
  <2>. QED
    BY <1>1, <2>2, <2>3
<1>8. ASSUME NEW r \in Requests,
             \/ InsertChild(r) \/ UpdateStatus(r) \/ MarkInactive(r) \/ Queue(r)
             \/ CommitTransfer(r) \/ AdjustRoot(r) \/ PlaceBet(r)
      PROVE  process'[x] = process[x]
  <2>1. End(r) \/ Step(r, "mark", "queue") \/ UNCHANGED process
    BY <1>8 DEF InsertChild, UpdateStatus, MarkInactive, Queue, CommitTransfer, AdjustRoot,
       PlaceBet
  <2>. QED
    BY <1>2, <1>3, <2>1
<1>9. ASSUME NEW y, LookForGames(y) \/ LookAgain(y) \/ EndSweep(y)
      PROVE  process'[x] = process[x]
  <2>1. \/ Step(y, "look", "mark") \/ Step(y, "look", "rows") \/ Step(y, "look", "next")
        \/ End(y)
    BY <1>9 DEF LookForGames, LookAgain, EndSweep
  <2>. QED
    BY <1>2, <1>3, <2>1
<1>10. ASSUME NEW y, Dequeue(y) PROVE process'[x] = process[x]
  BY <1>3, <1>10 DEF Dequeue
<1>11. ASSUME NEW y \in Processes, DeleteAccounts(y) PROVE process'[x] = process[x]
  BY <1>2, <1>11, DeleteOrNot
<1>12. ASSUME (\E b \in BetIds : EndRound(b)) \/ PassTime \/ UNCHANGED vars
       PROVE  process'[x] = process[x]
  BY <1>12 DEF EndRound, PassTime, vars
<1>. QED
  BY <1>4, <1>5, <1>6, <1>7, <1>8, <1>9, <1>10, <1>11, <1>12, Steps
     DEF OnlyProcess, Sweeping, StartPending, StartStuck, StartInactive

LEMMA SeenDelete ==
  ASSUME TypesInv, SeenRefers, NEW x \in Processes, Deletes(x) PROVE SeenRefers'
<1> DEFINE rows == process[x].seen \cap Referring(process[x].ids)
<1>. SUFFICES ASSUME NEW y \in Processes, process'[y].at = "commit"
              PROVE  process'[y].seen \subseteq Referring(process[y].ids)'
  BY DEF SeenRefers
<1>1. /\ bets' = [b \in BetIds |-> IF b \in rows THEN NoBet ELSE bets[b]]
      /\ ledger' = [t \in TxIds |-> IF t \in rows THEN NoRow ELSE ledger[t]]
  BY DEF Deletes
<1>2. y # x /\ process'[y] = [process[y] EXCEPT !.seen = @ \ rows]
  <2>1. process[x] \in Process /\ DOMAIN process = Processes
    BY DEF TypesInv, ProcessesFit
  <2>. QED
    BY <2>1 DEF Deletes, Idle, Process
<1>. HIDE DEF rows
<1>3. /\ process'[y].at = process[y].at /\ process'[y].ids = process[y].ids
      /\ process'[y].seen = process[y].seen \ rows
  BY <1>2 DEF TypesInv, ProcessesFit, Process
<1>4. process[y].seen \subseteq Referring(process[y].ids)
  BY <1>3 DEF SeenRefers
<1>. QED
  BY <1>1, <1>3, <1>4 DEF Referring

LEMMA SeenNext == ASSUME TypesInv, SeenRefers, [Next]_vars PROVE SeenRefers'
<1>1. CASE \E x \in Processes : Deletes(x)
  BY <1>1, SeenDelete
<1>2. CASE \A x \in Processes : ~Deletes(x)
  BY <1>2, StaysNext, CommitsNext, SeenKept
<1>. QED
  BY <1>1, <1>2

LEMMA RefersAlways == Spec => []RefersInv
<1>1. Init => RefersInv
  BY RefersInit
<1>2. TypesInv /\ RefersInv /\ [Next]_vars => RefersInv'
  BY DanglingNext, SeenNext DEF RefersInv
<1>. QED
  BY <1>1, <1>2, TypesAlways, PTL DEF Spec

\* However many requests and deletions overlap, no bet, no transaction and no account
\* refers to an account that has gone: validate_wallet_integrity_job never finds any.
THEOREM NothingDangles == Spec => []NoDangling
<1>1. RefersInv => NoDangling
  BY DEF RefersInv
<1>. QED
  BY <1>1, RefersAlways, PTL

-----------------------------------------------------------------------------
(* The books.  As long as no account has gone, a deletion can only have    *)
(* been about no account at all: whatever else a process is at work on has *)
(* been there when it looked.                                              *)

IdsKnown ==
  \A x \in Processes : \A a \in process[x].ids : account[a].life # "new"

LEMMA LifeKept ==
  ASSUME TypesInv, [Next]_vars, NEW a \in Ids
  PROVE  /\ account[a].life # "new" => account'[a].life # "new"
         /\ account[a].life = "gone" => account'[a].life = "gone"
<1>1. DOMAIN account = Ids /\ account[a] \in Account
  BY DEF TypesInv, TablesOK
<1>2. UNCHANGED account =>
        /\ account[a].life # "new" => account'[a].life # "new"
        /\ account[a].life = "gone" => account'[a].life = "gone"
  OBVIOUS
<1>3. ASSUME NEW r \in Requests, UpdateStatus(r) \/ MarkInactive(r)
      PROVE  account'[a].life = account[a].life
  BY <1>3, SetStatusKeeps DEF UpdateStatus, MarkInactive
<1>4. ASSUME NEW r \in Requests, InsertChild(r), account[a].life # "new"
      PROVE  account'[a].life = account[a].life
  BY <1>1, <1>4 DEF InsertChild
<1>5. PassTime => account'[a].life = account[a].life
  BY <1>1 DEF PassTime, Account, TypesInv, TablesOK
<1>6. ASSUME NEW x \in Processes, Deletes(x)
      PROVE  account'[a].life \in {account[a].life, "gone"}
  BY <1>1, <1>6 DEF Deletes, Account, NoAccount
<1>7. ASSUME NEW x \in Processes, DeleteAccounts(x)
      PROVE  UNCHANGED account \/ account'[a].life \in {account[a].life, "gone"}
  BY <1>6, <1>7, DeleteOrNot
<1>8. ASSUME NEW r \in Requests,
             Queue(r) \/ CommitTransfer(r) \/ AdjustRoot(r) \/ PlaceBet(r)
      PROVE  UNCHANGED account
  BY <1>8 DEF Queue, CommitTransfer, AdjustRoot, PlaceBet
<1>9. ASSUME (\E b \in BetIds : EndRound(b)) \/ (\E x \in Sweepers : TakeNext(x) \/ Dequeue(x))
               \/ UNCHANGED tables \/ UNCHANGED vars
      PROVE  UNCHANGED account
  BY <1>9 DEF EndRound, TakeNext, Dequeue, tables, vars
<1>. QED
  BY <1>2, <1>3, <1>4, <1>5, <1>7, <1>8, <1>9, Steps, OnlyProcessTables

\* What a process is at work on stays, but for accounts it has just seen alive.
LEMMA IdsNext ==
  ASSUME TypesInv, [Next]_vars, NEW x \in Processes, NEW a \in process'[x].ids
  PROVE  a \in process[x].ids \/ (a \in Ids /\ Live(a))
<1> DEFINE Seen(y, p) == p.ids \subseteq process[y].ids \cup {c \in Ids : Live(c)}
<1>0. process[x] \in Process /\ DOMAIN process = Processes
  BY DEF TypesInv, ProcessesFit
<1>1. ASSUME NEW y, NEW p, To(y, p), Seen(y, p)
      PROVE  a \in process[x].ids \/ (a \in Ids /\ Live(a))
  BY <1>0, <1>1 DEF To
<1>2. ASSUME NEW y, End(y) PROVE a \in process[x].ids \/ (a \in Ids /\ Live(a))
  <2>1. Seen(y, Idle)
    BY DEF Idle
  <2>. QED
    BY <1>1, <1>2, <2>1 DEF End
<1>3. ASSUME NEW y \in Processes, NEW at, NEW next, Step(y, at, next)
      PROVE  a \in process[x].ids \/ (a \in Ids /\ Live(a))
  <2>1. Seen(y, [process[y] EXCEPT !.at = next])
    BY DEF TypesInv, ProcessesFit, Process
  <2>. QED
    BY <1>1, <1>3, <2>1 DEF Step
<1>4. \A c : Subtree(c) \subseteq {b \in Ids : Live(b)}
  BY SubtreeLive
<1>5. ASSUME NEW y, \/ StartCreate(y) \/ StartStatus(y) \/ StartDelete(y)
                     \/ StartTransfer(y) \/ StartBet(y)
      PROVE  a \in process[x].ids \/ (a \in Ids /\ Live(a))
  <2>1. \A p : Ask(y, p) => To(y, p)
    BY DEF Ask
  <2>. USE DEF Idle
  <2>2. CASE StartCreate(y)
    BY <1>1, <2>1, <2>2 DEF StartCreate
  <2>3. CASE StartStatus(y)
    BY <1>1, <1>4, <2>1, <2>3 DEF StartStatus, Child
  <2>4. CASE StartDelete(y)
    BY <1>1, <1>4, <2>1, <2>4 DEF StartDelete
  <2>5. CASE StartTransfer(y)
    BY <1>1, <2>1, <2>5 DEF StartTransfer
  <2>6. CASE StartBet(y)
    BY <1>1, <2>1, <2>6 DEF StartBet
  <2>. QED
    BY <1>5, <2>2, <2>3, <2>4, <2>5, <2>6
<1>6. ASSUME NEW y, NEW op, NEW roots, Sweep(y, op, roots)
      PROVE  a \in process[x].ids \/ (a \in Ids /\ Live(a))
  BY <1>1, <1>6 DEF Sweep, Idle
<1>7. ASSUME NEW y \in Sweepers, TakeNext(y)
      PROVE  a \in process[x].ids \/ (a \in Ids /\ Live(a))
  <2> DEFINE q == process[y]
             rest(c) == [q EXCEPT !.todo = q.todo \ {c}, !.root = c, !.ids = {}, !.seen = {}]
             look(c) == [rest(c) EXCEPT !.at = "look", !.ids = Subtree(c)]
  <2>1. q \in Process
    BY DEF TypesInv, ProcessesFit, Processes
  <2>2. PICK c \in q.todo : To(y, rest(c)) \/ To(y, look(c))
    BY <1>7 DEF TakeNext
  <2>3. rest(c).ids = {} /\ look(c).ids = Subtree(c)
    BY <2>1 DEF Process
  <2>. HIDE DEF rest, look
  <2>. QED
    BY <1>1, <1>4, <2>2, <2>3
<1>8. ASSUME NEW r \in Requests,
             \/ InsertChild(r) \/ UpdateStatus(r) \/ MarkInactive(r) \/ Queue(r)
             \/ CommitTransfer(r) \/ AdjustRoot(r) \/ PlaceBet(r)
      PROVE  a \in process[x].ids \/ (a \in Ids /\ Live(a))
  <2>1. End(r) \/ Step(r, "mark", "queue") \/ UNCHANGED process
    BY <1>8 DEF InsertChild, UpdateStatus, MarkInactive, Queue, CommitTransfer, AdjustRoot,
       PlaceBet
  <2>. QED
    BY <1>2, <1>3, <2>1 DEF Processes
<1>9. ASSUME NEW y \in Processes, LookForGames(y) \/ LookAgain(y) \/ EndSweep(y)
      PROVE  a \in process[x].ids \/ (a \in Ids /\ Live(a))
  <2>1. \/ Step(y, "look", "mark") \/ Step(y, "look", "rows") \/ Step(y, "look", "next")
        \/ End(y)
    BY <1>9 DEF LookForGames, LookAgain, EndSweep
  <2>. QED
    BY <1>2, <1>3, <2>1
<1>10. ASSUME NEW y \in Sweepers, Dequeue(y)
       PROVE  a \in process[x].ids \/ (a \in Ids /\ Live(a))
  BY <1>3, <1>10 DEF Dequeue, Processes
<1>11. ASSUME NEW y \in Processes, Deletes(y) PROVE a \in process[x].ids
  BY <1>0, <1>11 DEF Deletes, Process, Idle
<1>12. ASSUME NEW y \in Processes, DeleteAccounts(y)
       PROVE  a \in process[x].ids \/ (a \in Ids /\ Live(a))
  BY <1>2, <1>11, <1>12, DeleteOrNot
<1>13. ASSUME NEW y \in Processes, DeleteRows(y)
       PROVE  a \in process[x].ids \/ (a \in Ids /\ Live(a))
  BY <1>0, <1>13 DEF DeleteRows, To, Process
<1>14. ASSUME (\E b \in BetIds : EndRound(b)) \/ PassTime \/ UNCHANGED vars
       PROVE  a \in process[x].ids
  BY <1>14 DEF EndRound, PassTime, vars
<1>. QED
  BY <1>5, <1>6, <1>7, <1>8, <1>9, <1>10, <1>12, <1>13, <1>14, Steps
     DEF OnlyProcess, Sweeping, StartPending, StartStuck, StartInactive

LEMMA KnownNext == ASSUME TypesInv, IdsKnown, [Next]_vars PROVE IdsKnown'
<1>. SUFFICES ASSUME NEW x \in Processes, NEW a \in process'[x].ids
              PROVE  account'[a].life # "new"
  BY DEF IdsKnown
<1>1. a \in Ids
  BY IdsNext DEF TypesInv, ProcessesFit, Process
<1>2. account[a].life # "new"
  BY IdsNext DEF IdsKnown, Live
<1>. QED
  BY <1>1, <1>2, LifeKept

Out(o) == Flow({t \in TxIds : ledger[t].from = o})
In(o) == Flow({t \in TxIds : ledger[t].to = o})
Credited(o) == IF o = Root THEN RootBalance ELSE 0
Balanced == \A o \in Wallets : wallet[o] + Out(o) = Credited(o) + In(o)
NobodyGone == \A a \in Ids : account[a].life # "gone"

LEMMA BooksAre == BooksBalance <=> (NobodyGone => Balanced)
  BY DEF BooksBalance, NobodyGone, Balanced, Out, In, Credited

\* One more row, one more amount.
LEMMA FlowAdd ==
  ASSUME NEW S \in SUBSET TxIds, NEW f \in [TxIds -> Nat], NEW g \in [TxIds -> Nat],
         NEW t \in TxIds \ S, \A u \in S : g[u] = f[u]
  PROVE  Total(g, S \cup {t}) = Total(f, S) + g[t]
<1>1. IsFiniteSet(S) /\ IsFiniteSet({t})
  BY FS_Subset, FS_Singleton
<1>2. Total(g, S \cup {t}) = Total(g, S) + Total(g, {t})
  <2>1. S \cap {t} = {} /\ \A x \in S \cup {t} : g[x] \in Nat
    OBVIOUS
  <2>. QED
    BY <1>1, <2>1, TotalSplit
<1>3. Total(g, S) = Total(f, S)
  BY TotalEqual
<1>4. Total(g, {t}) = g[t]
  BY TotalOne
<1>. QED
  BY <1>2, <1>3, <1>4

LEMMA RowAmount == \A r \in Row : r.amount \in Nat
<1>1. \A r \in Row : r.amount \in Amounts \cup {0}
  BY DEF Row
<1>2. Amounts \cup {0} \subseteq Nat
  OBVIOUS
<1>. QED
  BY <1>1, <1>2

LEMMA FlowType ==
  ASSUME TypesInv, NEW S \in SUBSET TxIds PROVE Flow(S) \in Nat
<1> DEFINE f == [t \in TxIds |-> ledger[t].amount]
<1>1. IsFiniteSet(S)
  BY FS_Subset
<1>2. \A t \in S : f[t] \in Nat
  <2>1. \A t \in TxIds : ledger[t] \in Row
    BY DEF TypesInv, TablesOK
  <2>2. \A r \in Row : r.amount \in Nat
    BY RowAmount
  <2>. QED
    BY <2>1, <2>2
<1>3. Total(f, S) \in Nat
  BY <1>1, <1>2, TotalType
<1>. QED
  BY <1>3 DEF Flow

LEMMA OutInType == ASSUME TypesInv, NEW o PROVE Out(o) \in Nat /\ In(o) \in Nat
  BY FlowType DEF Out, In

LEMMA BookFlows ==
  ASSUME TypesInv, NEW from \in Wallets \cup {None}, NEW to \in Wallets \cup {None},
         NEW n \in Amounts, Book(from, to, n), NEW o \in Wallets
  PROVE  /\ Out(o)' = Out(o) + (IF o = from THEN n ELSE 0)
         /\ In(o)' = In(o) + (IF o = to THEN n ELSE 0)
<1> DEFINE f    == [t \in TxIds |-> ledger[t].amount]
           g    == [t \in TxIds |-> ledger'[t].amount]
           outs == {t \in TxIds : ledger[t].from = o}
           ins  == {t \in TxIds : ledger[t].to = o}
<1>0. Out(o) \in Nat /\ In(o) \in Nat
  BY OutInType
<1>1. PICK t \in TxIds :
        /\ ledger[t] = NoRow
        /\ ledger' = [ledger EXCEPT ![t] = [from |-> from, to |-> to, amount |-> n]]
  BY DEF Book
<1>2. ledger \in [TxIds -> Row] /\ n \in Nat /\ o # None
  BY DEF TypesInv, TablesOK, Wallets
<1>3. ledger'[t] = [from |-> from, to |-> to, amount |-> n]
      /\ \A u \in TxIds \ {t} : ledger'[u] = ledger[u]
  BY <1>1, <1>2
<1>4. f \in [TxIds -> Nat] /\ g \in [TxIds -> Nat]
  <2>1. \A r \in Row : r.amount \in Nat
    BY RowAmount
  <2>2. \A u \in TxIds : ledger[u].amount \in Nat
    BY <1>2, <2>1
  <2>3. \A u \in TxIds : ledger'[u].amount \in Nat
    BY <1>2, <1>3, <2>2
  <2>. QED
    BY <2>2, <2>3
<1>5. t \notin outs /\ t \notin ins
  <2>1. ledger[t].from = None /\ ledger[t].to = None
    BY <1>1 DEF NoRow
  <2>. QED
    BY <1>2, <2>1
<1>6. g[t] = n /\ \A u \in TxIds \ {t} : g[u] = f[u]
  <2>1. g[t] = ledger'[t].amount
    OBVIOUS
  <2>2. \A u \in TxIds \ {t} : g[u] = f[u]
    BY <1>3
  <2>. QED
    BY <1>3, <2>1, <2>2
<1>7. /\ {u \in TxIds : ledger'[u].from = o} = IF o = from THEN outs \cup {t} ELSE outs
      /\ {u \in TxIds : ledger'[u].to = o} = IF o = to THEN ins \cup {t} ELSE ins
  <2>1. ledger'[t].from = from /\ ledger'[t].to = to
    BY <1>3
  <2>2. \A u \in TxIds \ {t} : ledger'[u].from = ledger[u].from /\ ledger'[u].to = ledger[u].to
    BY <1>3
  <2>3. t \in TxIds
    OBVIOUS
  <2>4. {u \in TxIds : ledger'[u].from = o} = IF o = from THEN outs \cup {t} ELSE outs
    BY <1>5, <2>1, <2>2, <2>3
  <2>5. {u \in TxIds : ledger'[u].to = o} = IF o = to THEN ins \cup {t} ELSE ins
    BY <1>5, <2>1, <2>2, <2>3
  <2>. QED
    BY <2>4, <2>5
<1>8. /\ Out(o) = Total(f, outs) /\ In(o) = Total(f, ins)
      /\ Out(o)' = Total(g, {u \in TxIds : ledger'[u].from = o})
      /\ In(o)' = Total(g, {u \in TxIds : ledger'[u].to = o})
  BY DEF Out, In, Flow
<1>9. outs \in SUBSET TxIds /\ ins \in SUBSET TxIds
  OBVIOUS
<1>. HIDE DEF f, g, outs, ins
<1>10. Total(g, outs) = Total(f, outs) /\ Total(g, ins) = Total(f, ins)
  BY <1>5, <1>6, <1>9, TotalEqual
<1>11. Total(g, outs \cup {t}) = Total(f, outs) + n /\ Total(g, ins \cup {t}) = Total(f, ins) + n
  <2>1. \A S \in SUBSET TxIds : t \notin S => \A u \in S : g[u] = f[u]
    BY <1>6
  <2>. QED
    BY <1>4, <1>5, <1>6, <1>9, <2>1, FlowAdd
<1>12. n \in Nat
  BY <1>2
<1>13. Out(o)' = Out(o) + (IF o = from THEN n ELSE 0)
  <2>1. CASE o = from
    BY <1>7, <1>8, <1>11, <2>1
  <2>2. CASE o # from
    <3>1. {u \in TxIds : ledger'[u].from = o} = outs
      BY <1>7, <2>2
    <3>2. Out(o)' = Out(o)
      BY <1>8, <1>10, <3>1, Zenon
    <3>. QED
      BY <1>0, <2>2, <3>2
  <2>. QED
    BY <2>1, <2>2
<1>14. In(o)' = In(o) + (IF o = to THEN n ELSE 0)
  <2>1. CASE o = to
    BY <1>7, <1>8, <1>11, <2>1
  <2>2. CASE o # to
    <3>1. {u \in TxIds : ledger'[u].to = o} = ins
      BY <1>7, <2>2
    <3>2. In(o)' = In(o)
      BY <1>8, <1>10, <3>1, Zenon
    <3>. QED
      BY <1>0, <2>2, <3>2
  <2>. QED
    BY <2>1, <2>2
<1>. QED
  BY <1>13, <1>14

\* Money that moves is booked where it comes from and where it goes.
LEMMA PayBalances ==
  ASSUME TypesInv, Balanced, NEW from \in Wallets, NEW to \in Wallets, NEW n \in Amounts,
         Book(from, to, n), Pay(from, to, n)
  PROVE  Balanced'
<1>. SUFFICES ASSUME NEW o \in Wallets
              PROVE  wallet'[o] + Out(o)' = Credited(o) + In(o)'
  BY DEF Balanced, Credited
<1>1. /\ Out(o)' = Out(o) + (IF o = from THEN n ELSE 0)
      /\ In(o)' = In(o) + (IF o = to THEN n ELSE 0)
  BY BookFlows
<1>2. wallet[o] \in Nat /\ n \in Nat /\ Credited(o) \in Nat /\ Out(o) \in Nat /\ In(o) \in Nat
  BY OutInType DEF TypesInv, TablesOK, Credited
<1>3. wallet'[o] = wallet[o] - (IF o = from THEN n ELSE 0) + (IF o = to THEN n ELSE 0)
  <2>1. wallet \in [Wallets -> Nat] /\ n \in Nat
    BY DEF TypesInv, TablesOK
  <2>. QED
    BY <2>1 DEF Pay
<1>4. wallet[o] + Out(o) = Credited(o) + In(o)
  BY DEF Balanced
<1>. QED
  BY <1>1, <1>2, <1>3, <1>4

LEMMA AdjustBalances ==
  ASSUME TypesInv, Balanced, NEW r \in Requests, AdjustRoot(r) PROVE Balanced'
<1>. SUFFICES ASSUME NEW o \in Wallets
              PROVE  wallet'[o] + Out(o)' = Credited(o) + In(o)'
  BY DEF Balanced, Credited
<1>1. PICK n \in Amounts :
        \/ Book(None, Root, n) /\ wallet' = [wallet EXCEPT ![Root] = @ + n]
        \/ /\ Covers(Root, n)
           /\ Book(Root, None, n) /\ wallet' = [wallet EXCEPT ![Root] = @ - n]
  BY DEF AdjustRoot
<1>2. wallet \in [Wallets -> Nat] /\ Root \in Wallets /\ n \in Nat /\ None # o
  BY DEF TypesInv, TablesOK, Wallets
<1>3. Credited(o) \in Nat /\ Out(o) \in Nat /\ In(o) \in Nat
  BY OutInType DEF Credited
<1>4. wallet[o] + Out(o) = Credited(o) + In(o)
  BY DEF Balanced
<1>5. CASE Book(None, Root, n) /\ wallet' = [wallet EXCEPT ![Root] = @ + n]
  <2>1. Out(o)' = Out(o) /\ In(o)' = In(o) + (IF o = Root THEN n ELSE 0)
    <3>1. /\ Out(o)' = Out(o) + (IF o = None THEN n ELSE 0)
          /\ In(o)' = In(o) + (IF o = Root THEN n ELSE 0)
      BY <1>2, <1>5, BookFlows
    <3>. QED
      BY <1>2, <1>3, <3>1
  <2>. QED
    BY <1>2, <1>3, <1>4, <1>5, <2>1
<1>6. CASE Book(Root, None, n) /\ wallet' = [wallet EXCEPT ![Root] = @ - n]
  <2>1. In(o)' = In(o) /\ Out(o)' = Out(o) + (IF o = Root THEN n ELSE 0)
    <3>1. /\ Out(o)' = Out(o) + (IF o = Root THEN n ELSE 0)
          /\ In(o)' = In(o) + (IF o = None THEN n ELSE 0)
      BY <1>2, <1>6, BookFlows
    <3>. QED
      BY <1>2, <1>3, <3>1
  <2>. QED
    BY <1>2, <1>3, <1>4, <1>6, <2>1
<1>. QED
  BY <1>1, <1>5, <1>6

LEMMA BalancedAlone ==
  ASSUME Balanced, UNCHANGED <<wallet, ledger>> PROVE Balanced'
  BY DEF Balanced, Out, In, Flow, Credited

\* A deletion after which nobody has gone has deleted nothing.
LEMMA DeletesNobody ==
  ASSUME TypesInv, IdsKnown, NobodyGone, NEW x \in Processes, Deletes(x), NobodyGone'
  PROVE  UNCHANGED <<wallet, ledger>>
<1> DEFINE q    == process[x]
           live == {c \in q.ids : Live(c)}
           rows == q.seen \cap Referring(q.ids)
<1>1. q \in Process /\ account \in [Ids -> Account] /\ wallet \in [Wallets -> Nat]
      /\ ledger \in [TxIds -> Row]
  BY DEF TypesInv, ProcessesFit, TablesOK
<1>2. q.ids \in SUBSET Ids
  BY <1>1 DEF Process
<1>3. Gone(live) = {}
  <2>. SUFFICES ASSUME NEW a \in Gone(live) PROVE FALSE
    OBVIOUS
  <2>1. a \in Ids
    BY GoneBelow
  <2>2. account'[a] = [NoAccount EXCEPT !.life = "gone"]
    BY <2>1 DEF Deletes
  <2>3. account'[a].life = "gone"
    BY <2>2 DEF NoAccount
  <2>. QED
    BY <2>1, <2>3 DEF NobodyGone
<1>4. q.ids = {}
  <2>. SUFFICES ASSUME NEW a \in q.ids PROVE FALSE
    OBVIOUS
  <2>1. account[a].life \in {"new", "live", "gone"}
    BY <1>1, <1>2 DEF Account
  <2>2. account[a].life # "new" /\ account[a].life # "gone"
    BY <1>2 DEF IdsKnown, NobodyGone
  <2>3. a \in live
    BY <1>2, <2>1, <2>2 DEF Live
  <2>4. live \subseteq Gone(live)
    BY <1>2, GoneHas
  <2>. QED
    BY <1>3, <2>3, <2>4
<1>5. rows = {}
  BY <1>4 DEF Referring
<1>6. /\ wallet' = [o \in Wallets |-> IF o \in Gone(live) THEN 0 ELSE wallet[o]]
      /\ ledger' = [t \in TxIds |-> IF t \in rows THEN NoRow ELSE ledger[t]]
  BY DEF Deletes
<1>. HIDE DEF live, rows
<1>. QED
  BY <1>1, <1>3, <1>5, <1>6

LEMMA BooksNext ==
  ASSUME TypesInv, IdsKnown, BooksBalance, [Next]_vars PROVE BooksBalance'
<1>. SUFFICES ASSUME NobodyGone' PROVE Balanced'
  <2>1. BooksBalance' <=> (NobodyGone' => Balanced')
    BY DEF BooksBalance, NobodyGone, Balanced, Out, In, Credited
  <2>. QED
    BY <2>1
<1>1. NobodyGone
  BY LifeKept DEF NobodyGone
<1>2. Balanced
  BY <1>1, BooksAre
<1>3. UNCHANGED <<wallet, ledger>> => Balanced'
  BY <1>2, BalancedAlone
<1>4. ASSUME NEW r \in Requests, CommitTransfer(r) PROVE Balanced'
  <2> DEFINE q == process[r]
  <2>1. CASE Covers(q.who, q.amount) /\ Live(q.root)
    <3>1. q.who \in Wallets /\ q.root \in Wallets
      BY <2>1, LiveIsAccount DEF Covers
    <3>2. Book(q.who, q.root, q.amount) /\ Pay(q.who, q.root, q.amount)
      BY <1>4, <2>1 DEF CommitTransfer
    <3>3. q.amount \in Amounts
      BY <1>4 DEF TypesInv, ProcessesFit, Processes, Fit, CommitTransfer
    <3>. QED
      BY <1>2, <3>1, <3>2, <3>3, PayBalances
  <2>2. CASE ~(Covers(q.who, q.amount) /\ Live(q.root))
    BY <1>3, <1>4, <2>2 DEF CommitTransfer
  <2>. QED
    BY <2>1, <2>2
<1>5. ASSUME NEW r \in Requests, PlaceBet(r) PROVE Balanced'
  <2> DEFINE q == process[r]
  <2>1. CASE Covers(q.who, q.amount)
    <3>1. q.who \in Wallets /\ Pool \in Wallets
      BY <2>1, LiveIsAccount DEF Covers, Wallets
    <3>2. Book(q.who, Pool, q.amount) /\ Pay(q.who, Pool, q.amount)
      BY <1>5, <2>1 DEF PlaceBet
    <3>3. q.amount \in Amounts
      BY <1>5 DEF TypesInv, ProcessesFit, Processes, Fit, PlaceBet
    <3>. QED
      BY <1>2, <3>1, <3>2, <3>3, PayBalances
  <2>2. CASE ~Covers(q.who, q.amount)
    BY <1>3, <1>5, <2>2 DEF PlaceBet
  <2>. QED
    BY <2>1, <2>2
<1>6. ASSUME NEW r \in Requests, InsertChild(r) \/ UpdateStatus(r) \/ MarkInactive(r) \/ Queue(r)
      PROVE  Balanced'
  BY <1>3, <1>6 DEF InsertChild, UpdateStatus, MarkInactive, Queue
<1>7. ASSUME NEW x \in Processes, DeleteAccounts(x) PROVE Balanced'
  BY <1>1, <1>3, <1>7, DeleteOrNot, DeletesNobody
<1>8. ASSUME (\E b \in BetIds : EndRound(b)) \/ PassTime
               \/ (\E x \in Sweepers : TakeNext(x) \/ Dequeue(x))
               \/ UNCHANGED tables \/ UNCHANGED vars
      PROVE  Balanced'
  BY <1>3, <1>8 DEF EndRound, PassTime, TakeNext, Dequeue, tables, vars
<1>. QED
  BY <1>2, <1>4, <1>5, <1>6, <1>7, <1>8, AdjustBalances, Steps, OnlyProcessTables

LEMMA BooksInit == Init => BooksBalance /\ IdsKnown
<1>. SUFFICES ASSUME Init PROVE BooksBalance /\ IdsKnown
  OBVIOUS
<1>1. IdsKnown
  BY DEF Init, IdsKnown, Processes, Idle
<1>2. ASSUME NEW o \in Wallets PROVE Out(o) = 0 /\ In(o) = 0
  <2>1. \A t \in TxIds : ledger[t].from # o /\ ledger[t].to # o
    BY DEF Init, NoRow, Wallets
  <2>2. {t \in TxIds : ledger[t].from = o} = {} /\ {t \in TxIds : ledger[t].to = o} = {}
    BY <2>1
  <2>. QED
    BY <2>2, TotalEmpty DEF Out, In, Flow
<1>3. \A o \in Wallets : wallet[o] = Credited(o) /\ Credited(o) \in Nat
  BY DEF Init, Credited
<1>4. Balanced
  BY <1>2, <1>3 DEF Balanced
<1>. QED
  BY <1>1, <1>4, BooksAre

\* Whichever transfers, bets, adjustments and failed deletions overlap: as long as no
\* account has gone, each wallet holds what the ledger says came in less what it says
\* went out.
THEOREM WalletsAgreeWithLedger == Spec => []BooksBalance
<1>1. Init => BooksBalance /\ IdsKnown
  BY BooksInit
<1>2. TypesInv /\ (BooksBalance /\ IdsKnown) /\ [Next]_vars => (BooksBalance /\ IdsKnown)'
  BY BooksNext, KnownNext
<1>. QED
  BY <1>1, <1>2, TypesAlways, PTL DEF Spec

-----------------------------------------------------------------------------
(* Active below inactive.  What a request has read of the hierarchy is     *)
(* what it relies on when it writes, in a later transaction; between the   *)
(* two anybody may write, and what then no longer holds is in raced.       *)

LEMMA RaceIsSpec == RaceSpec => Spec
<1>1. RaceInit => Init
  BY DEF RaceInit
<1>2. [RaceNext]_raceVars => [Next]_vars
  BY DEF RaceNext, raceVars
<1>. QED
  BY <1>1, <1>2, PTL DEF RaceSpec, Spec

LEMMA KnownAlways == Spec => []IdsKnown
<1>1. Init => IdsKnown
  BY BooksInit
<1>2. TypesInv /\ IdsKnown /\ [Next]_vars => IdsKnown'
  BY KnownNext
<1>. QED
  BY <1>1, <1>2, TypesAlways, PTL DEF Spec

AgentsOnly ==
  \A a \in Ids : Live(a) /\ account[a].parent \in Ids
                   => account[account[a].parent].role = "AGENT"

\* What the writes of a request rely on: the parent of a new account is an active agent ...
InsertHolds(q) ==
  q.at = "insert" =>
    /\ q.who \in Ids => account[q.who].life # "new"
    /\ Live(q.who) => /\ q.who \in Ids => account[q.who].role = "AGENT"
                      /\ Active(q.who) \/ q.who \in raced

\* ... accounts are activated with their parents, or the parent is active ...
RaiseHolds(q) ==
  q.at = "update" /\ q.arg = "ACTIVE" =>
    /\ q.root \in q.ids
    /\ \A a \in q.ids : Live(a) /\ a # q.root => account[a].parent \in q.ids
    /\ Live(q.root) => \/ Active(account[q.root].parent)
                       \/ account[q.root].parent \in raced

\* ... and accounts are made inactive with their children.
LowerHolds(q) ==
  Lowering(q) =>
    \A a \in Ids : Live(a) /\ account[a].parent \in q.ids \ raced => a \in q.ids

Holds(q) == InsertHolds(q) /\ RaiseHolds(q) /\ LowerHolds(q)

ReadsHold == \A r \in Requests : Holds(process[r])
OverlapRaced == Overlap \subseteq raced

StatusInv == InactiveBelow /\ AgentsOnly /\ ReadsHold /\ OverlapRaced

RacedStays == raced \subseteq raced'

\* The hierarchy is as before.
SameAccounts ==
  \A a \in Ids : /\ account'[a].life = account[a].life
                 /\ account'[a].parent = account[a].parent
                 /\ account'[a].role = account[a].role
                 /\ account'[a].status = account[a].status

LEMMA SameLive == ASSUME SameAccounts, NEW a PROVE (Live(a)' <=> Live(a)) /\ (Active(a)' <=> Active(a))
  BY DEF SameAccounts, Live, Active

LEMMA SameHolds ==
  ASSUME SameAccounts, RacedStays, NEW q, q.ids \in SUBSET Ids, Holds(q) PROVE Holds(q)'
<1>1. InsertHolds(q)'
  <2>1. q.who \in Ids => /\ account'[q.who].role = account[q.who].role
                         /\ account'[q.who].life = account[q.who].life
    BY DEF SameAccounts
  <2>. QED
    BY <2>1, SameLive DEF Holds, InsertHolds, RacedStays
<1>2. RaiseHolds(q)'
  <2>. SUFFICES ASSUME q.at = "update", q.arg = "ACTIVE" PROVE RaiseHolds(q)'
    BY DEF RaiseHolds
  <2>1. q.root \in q.ids
    BY DEF Holds, RaiseHolds
  <2>2. ASSUME NEW a \in q.ids, Live(a)', a # q.root PROVE account'[a].parent \in q.ids
    BY <2>2, SameLive DEF Holds, RaiseHolds, SameAccounts
  <2>3. ASSUME Live(q.root)'
        PROVE  Active(account[q.root].parent)' \/ account'[q.root].parent \in raced'
    <3>1. PICK p : p = account[q.root].parent /\ p = account'[q.root].parent
      BY <2>1 DEF SameAccounts
    <3>2. Active(p) \/ p \in raced
      BY <2>3, <3>1, SameLive DEF Holds, RaiseHolds
    <3>3. Active(p)' \/ p \in raced'
      BY <3>2, SameLive DEF RacedStays
    <3>. QED
      BY <3>1, <3>3 DEF Active, Live
  <2>. QED
    BY <2>1, <2>2, <2>3 DEF RaiseHolds
<1>3. LowerHolds(q)'
  BY SameLive DEF Holds, LowerHolds, SameAccounts, RacedStays
<1>. QED
  BY <1>1, <1>2, <1>3 DEF Holds

LEMMA SameStatus ==
  ASSUME InactiveBelow, AgentsOnly, SameAccounts, RacedStays PROVE InactiveBelow' /\ AgentsOnly'
  BY SameLive DEF InactiveBelow, AgentsOnly, SameAccounts, Active, Live, RacedStays

\* At the other steps a request relies on nothing.
Free(q) ==
  /\ q.at \notin {"insert", "update", "mark"}
  /\ q.at = "look" => q.op # "delete"

LEMMA FreeHolds == ASSUME NEW q, Free(q) PROVE Holds(q)
  BY DEF Free, Holds, InsertHolds, RaiseHolds, LowerHolds, Lowering

LEMMA ReadsKept ==
  ASSUME TypesInv', SameAccounts, RacedStays, ReadsHold,
         \A r \in Requests : process'[r] = process[r] \/ Holds(process'[r])
  PROVE  ReadsHold'
<1>. SUFFICES ASSUME NEW r \in Requests PROVE Holds(process[r])'
  BY DEF ReadsHold
<1>1. process'[r].ids \in SUBSET Ids
  BY DEF TypesInv, ProcessesFit, Processes, Process
<1>2. Holds(process'[r])
  BY DEF ReadsHold
<1>3. \A q : q = process'[r] => Holds(q)'
  BY <1>1, <1>2, SameHolds
<1>. QED
  BY <1>3

\* Steps that leave the accounts alone.
LEMMA AskHolds ==
  ASSUME TypesInv, NEW r \in Requests, NEW y,
         \/ StartCreate(y) \/ StartStatus(y) \/ StartDelete(y)
         \/ StartTransfer(y) \/ StartBet(y),
         AgentsOnly
  PROVE  process'[r] = process[r] \/ Holds(process'[r])
<1>0. DOMAIN process = Processes /\ r \in Processes
  BY DEF TypesInv, ProcessesFit, Processes
<1>1. ASSUME NEW p, Ask(y, p), Holds(p) PROVE process'[r] = process[r] \/ Holds(process'[r])
  BY <1>0, <1>1 DEF Ask, To
<1>2. CASE StartCreate(y)
  <2>1. PICK p \in Ids \cup {Root} : \E role \in Roles :
          /\ Active(p) /\ CanCreate(p, role)
          /\ Ask(y, [Idle EXCEPT !.op = "create", !.at = "insert", !.who = p, !.arg = role])
    BY <1>2 DEF StartCreate
  <2>2. PICK role \in Roles :
          /\ Active(p) /\ CanCreate(p, role)
          /\ Ask(y, [Idle EXCEPT !.op = "create", !.at = "insert", !.who = p, !.arg = role])
    BY <2>1
  <2> DEFINE q == [Idle EXCEPT !.op = "create", !.at = "insert", !.who = p, !.arg = role]
  <2>3. q.at = "insert" /\ q.who = p /\ Ask(y, q)
    BY <2>2 DEF Idle
  <2>4. p \in Ids => account[p].role = "AGENT" /\ account[p].life = "live"
    BY <2>2 DEF CanCreate, Active, Live
  <2>. HIDE DEF q
  <2>5. Holds(q)
    BY <2>2, <2>3, <2>4 DEF Holds, InsertHolds, RaiseHolds, LowerHolds, Lowering
  <2>. QED
    BY <1>1, <2>3, <2>5
<1>3. CASE StartStatus(y)
  <2>1. PICK p \in Ids \cup {Root} : \E c \in Ids, status \in Status :
          /\ Active(p) /\ Child(p, c)
          /\ Ask(y, [Idle EXCEPT !.op = "status", !.at = "update", !.root = c, !.arg = status,
                       !.ids = IF account[c].role = "AGENT" THEN Subtree(c) ELSE {c}])
    BY <1>3 DEF StartStatus
  <2>2. PICK c \in Ids, status \in Status :
          /\ Active(p) /\ Child(p, c)
          /\ Ask(y, [Idle EXCEPT !.op = "status", !.at = "update", !.root = c, !.arg = status,
                       !.ids = IF account[c].role = "AGENT" THEN Subtree(c) ELSE {c}])
    BY <2>1
  <2> DEFINE ids == IF account[c].role = "AGENT" THEN Subtree(c) ELSE {c}
             q   == [Idle EXCEPT !.op = "status", !.at = "update", !.root = c, !.arg = status,
                                !.ids = ids]
  <2>3. Live(c) /\ account[c].parent = p /\ Active(p)
    BY <2>2 DEF Child
  <2>4. Below(ids)
    <3>1. CASE account[c].role = "AGENT"
      BY <3>1, SubtreeBelow
    <3>2. CASE account[c].role # "AGENT"
      <4>1. \A a \in Ids : Live(a) => account[a].parent # c
        BY <3>2 DEF AgentsOnly
      <4>. QED
        BY <3>2, <4>1 DEF Below
    <3>. QED
      BY <3>1, <3>2
  <2>5. c \in ids /\ \A a \in ids : a # c => account[a].parent \in ids
    BY <2>3, SubtreeSelf, SubtreeAbove
  <2>6. q.at = "update" /\ q.root = c /\ q.ids = ids /\ Ask(y, q)
    BY <2>2 DEF Idle
  <2>. HIDE DEF q, ids
  <2>7. RaiseHolds(q)
    BY <2>3, <2>5, <2>6 DEF RaiseHolds
  <2>8. LowerHolds(q)
    BY <2>4, <2>6 DEF LowerHolds, Below
  <2>9. Holds(q)
    BY <2>6, <2>7, <2>8 DEF Holds, InsertHolds
  <2>. QED
    BY <1>1, <2>6, <2>9
<1>4. CASE StartDelete(y)
  <2>1. PICK c \in Ids :
          Ask(y, [Idle EXCEPT !.op = "delete", !.at = "look", !.root = c, !.ids = Subtree(c)])
    BY <1>4 DEF StartDelete
  <2> DEFINE q == [Idle EXCEPT !.op = "delete", !.at = "look", !.root = c, !.ids = Subtree(c)]
  <2>2. q.at = "look" /\ q.ids = Subtree(c) /\ Ask(y, q)
    BY <2>1 DEF Idle
  <2>. HIDE DEF q
  <2>3. Below(q.ids)
    BY <2>2, SubtreeBelow
  <2>4. Holds(q)
    BY <2>2, <2>3 DEF Holds, InsertHolds, RaiseHolds, LowerHolds, Below
  <2>. QED
    BY <1>1, <2>2, <2>4
<1>5. CASE StartTransfer(y) \/ StartBet(y)
  <2>1. ASSUME NEW p, Ask(y, p), p.at \in {"transfer", "bet"}
        PROVE  process'[r] = process[r] \/ Holds(process'[r])
    BY <1>1, <2>1, FreeHolds DEF Free
  <2>2. CASE StartTransfer(y)
    BY <2>1, <2>2 DEF StartTransfer, Idle
  <2>3. CASE StartBet(y)
    BY <2>1, <2>3 DEF StartBet, Idle
  <2>. QED
    BY <1>5, <2>2, <2>3
<1>. QED
  BY <1>2, <1>3, <1>4, <1>5

LEMMA StepHolds ==
  ASSUME TypesInv, ReadsHold, AgentsOnly, [Next]_vars, NEW r \in Requests,
         \A x \in Processes : ~Deletes(x)
  PROVE  process'[r] = process[r] \/ Holds(process'[r])
<1>0. DOMAIN process = Processes /\ r \in Processes /\ process[r] \in Process
  BY DEF TypesInv, ProcessesFit, Processes
<1>1. ASSUME NEW y, NEW p, To(y, p), Free(p)
      PROVE  process'[r] = process[r] \/ Holds(process'[r])
  BY <1>0, <1>1, FreeHolds DEF To
<1>2. ASSUME NEW y, End(y) PROVE process'[r] = process[r] \/ Holds(process'[r])
  <2>1. Free(Idle)
    BY DEF Free, Idle
  <2>. QED
    BY <1>1, <1>2, <2>1 DEF End
<1>3. ASSUME NEW y \in Processes, NEW at, NEW next \in {"queue", "rows", "next"},
             Step(y, at, next)
      PROVE  process'[r] = process[r] \/ Holds(process'[r])
  <2>1. Free([process[y] EXCEPT !.at = next])
    BY DEF TypesInv, ProcessesFit, Process, Free
  <2>. QED
    BY <1>1, <1>3, <2>1 DEF Step
<1>4. ASSUME NEW y \in Processes, LookForGames(y)
      PROVE  process'[r] = process[r] \/ Holds(process'[r])
  <2>1. CASE Step(y, "look", "rows")
    BY <1>3, <2>1
  <2>2. CASE Step(y, "look", "mark")
    <3> DEFINE p == [process[r] EXCEPT !.at = "mark"]
    <3>1. CASE y # r
      BY <1>0, <2>2, <3>1 DEF Step, To
    <3>2. CASE y = r
      <4>1. process'[r] = p
        BY <1>0, <2>2, <3>2 DEF Step, To
      <4>2. process[r].at = "look" /\ process[r].op = "delete"
        BY <1>4, <2>2, <3>2 DEF Step, LookForGames
      <4>3. Lowering(process[r]) /\ LowerHolds(process[r])
        BY <4>2 DEF Lowering, ReadsHold, Holds
      <4>4. p.at = "mark" /\ p.ids = process[r].ids
        BY <1>0 DEF Process
      <4>. HIDE DEF p
      <4>5. LowerHolds(p)
        BY <4>3, <4>4 DEF LowerHolds
      <4>6. InsertHolds(p) /\ RaiseHolds(p)
        BY <4>4 DEF InsertHolds, RaiseHolds
      <4>. QED
        BY <4>1, <4>5, <4>6 DEF Holds
    <3>. QED
      BY <3>1, <3>2
  <2>. QED
    BY <1>4, <2>1, <2>2 DEF LookForGames
<1>5. ASSUME NEW y \in Sweepers, TakeNext(y) \/ Dequeue(y) PROVE process'[r] = process[r]
  <2>1. y # r
    BY DEF Sweepers
  <2>. QED
    BY <1>0, <1>5, <2>1 DEF TakeNext, Dequeue, Step, To
<1>6. ASSUME NEW y \in Sweepers, NEW op, NEW roots, Sweep(y, op, roots)
      PROVE  process'[r] = process[r]
  <2>1. y # r
    BY DEF Sweepers
  <2>. QED
    BY <1>0, <1>6, <2>1 DEF Sweep, To
<1>7. Sweeping => process'[r] = process[r]
  BY <1>6 DEF Sweeping, StartPending, StartStuck, StartInactive, Sweepers
<1>8. ASSUME NEW y \in Requests,
             \/ InsertChild(y) \/ UpdateStatus(y) \/ MarkInactive(y) \/ Queue(y)
             \/ CommitTransfer(y) \/ AdjustRoot(y) \/ PlaceBet(y)
      PROVE  process'[r] = process[r] \/ Holds(process'[r])
  <2>1. End(y) \/ Step(y, "mark", "queue") \/ UNCHANGED process
    BY <1>8 DEF InsertChild, UpdateStatus, MarkInactive, Queue, CommitTransfer, AdjustRoot,
       PlaceBet
  <2>. QED
    BY <1>2, <1>3, <2>1 DEF Processes
<1>9. ASSUME NEW y \in Processes, LookAgain(y) \/ EndSweep(y)
      PROVE  process'[r] = process[r] \/ Holds(process'[r])
  <2>1. Step(y, "look", "rows") \/ Step(y, "look", "next") \/ End(y)
    BY <1>9 DEF LookAgain, EndSweep
  <2>. QED
    BY <1>2, <1>3, <2>1
<1>10. ASSUME NEW y \in Processes, DeleteAccounts(y)
       PROVE  process'[r] = process[r] \/ Holds(process'[r])
  BY <1>2, <1>10, DeleteOrNot
<1>11. ASSUME NEW y \in Processes, DeleteRows(y)
       PROVE  process'[r] = process[r] \/ Holds(process'[r])
  <2>1. Free([process[y] EXCEPT !.at = "commit", !.seen = Referring(process[y].ids)])
    BY DEF TypesInv, ProcessesFit, Process, Free
  <2>. QED
    BY <1>1, <1>11, <2>1 DEF DeleteRows
<1>12. ASSUME (\E b \in BetIds : EndRound(b)) \/ PassTime \/ UNCHANGED vars
       PROVE  process'[r] = process[r]
  BY <1>12 DEF EndRound, PassTime, vars
<1>. QED
  BY <1>4, <1>5, <1>7, <1>8, <1>9, <1>10, <1>11, <1>12, AskHolds, Steps DEF OnlyProcess

-----------------------------------------------------------------------------
(* The steps that change the hierarchy, and what the others rely on.       *)

\* A request that writes while another is about to write above it has put the account
\* between them in raced.
LEMMA Meets ==
  ASSUME TypesInv, OverlapRaced, NEW r \in Requests, NEW s \in Requests,
         Lowering(process[r]), NEW p \in process[r].ids, p \in RaisesBelow(s)
  PROVE  p \in raced
<1>1. p \in Ids
  BY DEF TypesInv, ProcessesFit, Processes, Process
<1>2. p \in Lowers(r) \cap RaisesBelow(s)
  BY DEF Lowers
<1>. QED
  BY <1>1, <1>2 DEF OverlapRaced, Overlap

\* Another account comes.
Comes(r, c) ==
  /\ account[c].life = "new" /\ Live(process[r].who)
  /\ account' = [account EXCEPT ![c] =
       [life |-> "live", parent |-> process[r].who, role |-> process[r].arg,
        status |-> "ACTIVE", changed |-> "null"]]

LEMMA InsertOrNot ==
  ASSUME NEW r, InsertChild(r)
  PROVE  UNCHANGED account \/ \E c \in Ids : Comes(r, c)
  BY DEF InsertChild, Comes

LEMMA ComesAlone ==
  ASSUME TypesInv, NoDangling, NEW r, NEW c \in Ids, Comes(r, c)
  PROVE  /\ ~Live(c) /\ c # process[r].who
         /\ account'[c].life = "live" /\ account'[c].parent = process[r].who
         /\ \A a \in Ids \ {c} : account'[a] = account[a]
         /\ \A a \in Ids : Live(a) => account[a].parent # c
         /\ \A a : a # c => (Live(a)' <=> Live(a)) /\ (Active(a)' <=> Active(a))
<1>1. account'[c].life = "live" /\ account'[c].parent = process[r].who
      /\ \A a \in Ids \ {c} : account'[a] = account[a]
  BY DEF Comes, TypesInv, TablesOK
<1>2. ~Live(c) /\ c # process[r].who
  BY DEF Comes, Live
<1>3. \A a \in Ids : Live(a) => account[a].parent # c
  BY <1>2 DEF NoDangling
<1>4. \A a : a # c => (Live(a)' <=> Live(a)) /\ (Active(a)' <=> Active(a))
  BY <1>1 DEF Live, Active
<1>. QED
  BY <1>1, <1>2, <1>3, <1>4

LEMMA ComesHolds ==
  ASSUME TypesInv, NoDangling, IdsKnown, StatusInv, RacedStays,
         NEW r \in Requests, process[r].at = "insert", NEW c \in Ids, Comes(r, c),
         NEW s \in Requests, NEW q, q = process[s]
  PROVE  Holds(q)'
<1>0. /\ ~Live(c) /\ c # process[r].who
      /\ account'[c].life = "live" /\ account'[c].parent = process[r].who
      /\ \A a \in Ids \ {c} : account'[a] = account[a]
      /\ \A a \in Ids : Live(a) => account[a].parent # c
      /\ \A a : a # c => (Live(a)' <=> Live(a)) /\ (Active(a)' <=> Active(a))
  BY ComesAlone
<1>1. Holds(q) /\ OverlapRaced /\ account[c].life = "new"
  BY DEF StatusInv, ReadsHold, Comes
<1>2. q.ids \in SUBSET Ids /\ c \notin q.ids
  <2>1. s \in Processes /\ q.ids \in SUBSET Ids
    BY DEF TypesInv, ProcessesFit, Processes, Process
  <2>. QED
    BY <1>1, <2>1 DEF IdsKnown
<1>3. InsertHolds(q)'
  <2>. SUFFICES ASSUME q.at = "insert" PROVE InsertHolds(q)'
    BY DEF InsertHolds
  <2>1. q.who # c
    BY <1>1 DEF Holds, InsertHolds
  <2>2. q.who \in Ids => account'[q.who] = account[q.who]
    BY <1>0, <2>1
  <2>. QED
    BY <1>0, <1>1, <2>1, <2>2 DEF Holds, InsertHolds, RacedStays
<1>4. RaiseHolds(q)'
  <2>. SUFFICES ASSUME q.at = "update", q.arg = "ACTIVE" PROVE RaiseHolds(q)'
    BY DEF RaiseHolds
  <2>1. q.root \in q.ids
    BY <1>1 DEF Holds, RaiseHolds
  <2>2. \A a \in q.ids : account'[a] = account[a] /\ (Live(a)' <=> Live(a))
    BY <1>0, <1>2
  <2>3. ASSUME NEW a \in q.ids, Live(a)', a # q.root PROVE account'[a].parent \in q.ids
    BY <1>1, <2>2, <2>3 DEF Holds, RaiseHolds
  <2>4. ASSUME Live(q.root)'
        PROVE  Active(account[q.root].parent)' \/ account'[q.root].parent \in raced'
    <3>1. PICK p : p = account[q.root].parent /\ p = account'[q.root].parent
      BY <2>1, <2>2
    <3>2. p # c /\ (Active(p) \/ p \in raced)
      BY <1>0, <1>1, <1>2, <2>1, <2>2, <2>4, <3>1 DEF Holds, RaiseHolds
    <3>3. Active(p)' \/ p \in raced'
      BY <1>0, <3>2 DEF RacedStays
    <3>. QED
      BY <3>1, <3>3 DEF Active, Live
  <2>. QED
    BY <2>1, <2>3, <2>4 DEF RaiseHolds
<1>5. LowerHolds(q)'
  <2>. SUFFICES ASSUME Lowering(q), NEW a \in Ids, Live(a)', account'[a].parent \in q.ids \ raced'
                PROVE  a \in q.ids
    BY DEF LowerHolds, Lowering
  <2>1. CASE a = c
    <3>1. process[r].who \in q.ids /\ process[r].who \notin raced
      BY <1>0, <2>1 DEF RacedStays
    <3>2. process[r].who \in RaisesBelow(r)
      BY DEF RaisesBelow
    <3>. QED
      BY <1>1, <3>1, <3>2, Meets
  <2>2. CASE a # c
    <3>1. Live(a) /\ account[a].parent \in q.ids \ raced
      BY <1>0, <2>2 DEF RacedStays
    <3>. QED
      BY <1>1, <3>1 DEF Holds, LowerHolds
  <2>. QED
    BY <2>1, <2>2
<1>. QED
  BY <1>3, <1>4, <1>5 DEF Holds

LEMMA ComesBelow ==
  ASSUME TypesInv, NoDangling, StatusInv, RacedStays,
         NEW r \in Requests, process[r].at = "insert", NEW c \in Ids, Comes(r, c)
  PROVE  InactiveBelow' /\ AgentsOnly'
<1>0. PICK who : who = process[r].who
  OBVIOUS
<1>1. /\ ~Live(c) /\ c # who
      /\ account'[c].life = "live" /\ account'[c].parent = who
      /\ \A a \in Ids \ {c} : account'[a] = account[a]
      /\ \A a \in Ids : Live(a) => account[a].parent # c
      /\ \A a : a # c => (Live(a)' <=> Live(a)) /\ (Active(a)' <=> Active(a))
  BY <1>0, ComesAlone
<1>2. Live(who) /\ InsertHolds(process[r])
  BY <1>0 DEF Comes, StatusInv, ReadsHold, Holds
<1>3. who \in Ids => account[who].role = "AGENT" /\ (Active(who) \/ who \in raced)
  BY <1>0, <1>2 DEF InsertHolds
<1>4. ASSUME NEW a \in Ids, Live(a)', NEW p \in Ids, account'[a].parent = p
      PROVE  /\ account'[p].role = "AGENT"
             /\ p \in Ids \ raced' /\ ~Active(p)' => ~Active(a)'
  <2>1. CASE a = c
    <3>1. p = who /\ p # c
      BY <1>1, <1>4, <2>1
    <3>2. account'[p].role = "AGENT" /\ (Active(p)' \/ p \in raced')
      BY <1>1, <1>3, <1>4, <3>1 DEF RacedStays
    <3>. QED
      BY <3>2
  <2>2. CASE a # c
    <3>1. Live(a) /\ account[a].parent = p /\ p # c
      BY <1>1, <1>4, <2>2
    <3>2. account[p].role = "AGENT" /\ account'[p] = account[p]
      BY <1>1, <1>4, <3>1 DEF StatusInv, AgentsOnly
    <3>3. p \in Ids \ raced /\ ~Active(p) => ~Active(a)
      BY <1>4, <3>1 DEF StatusInv, InactiveBelow
    <3>. QED
      BY <1>1, <2>2, <3>1, <3>2, <3>3 DEF RacedStays
  <2>. QED
    BY <2>1, <2>2
<1>5. AgentsOnly'
  BY <1>4 DEF AgentsOnly
<1>6. InactiveBelow'
  <2>. SUFFICES ASSUME NEW a \in Ids, Live(a)', account'[a].parent \in Ids \ raced',
                       ~Active(account[a].parent)'
                PROVE  ~Active(a)'
    BY DEF InactiveBelow
  <2>1. PICK p \in Ids : p = account'[a].parent
    OBVIOUS
  <2>2. ~Active(p)'
    BY <2>1 DEF Active, Live
  <2>. QED
    BY <1>4, <2>1, <2>2
<1>. QED
  BY <1>5, <1>6

LEMMA StatusAfter ==
  ASSUME TypesInv, NEW ids, NEW status, SetStatus(ids, status), NEW a \in Ids
  PROVE  account'[a].status = IF a \in ids /\ Live(a) THEN status ELSE account[a].status
<1>1. account[a] \in Account
  BY DEF TypesInv, TablesOK
<1>2. account'[a] = IF a \in ids /\ Live(a)
        THEN [account[a] EXCEPT !.status = status,
                !.changed = IF status = "INACTIVE" THEN "recent" ELSE "null"]
        ELSE account[a]
  BY DEF SetStatus
<1>. QED
  BY <1>1, <1>2 DEF Account

\* What a status leaves, and what it changes.
LEMMA StatusChanges ==
  ASSUME TypesInv, NEW ids, NEW status, SetStatus(ids, status)
  PROVE  /\ \A a \in Ids : /\ account'[a].life = account[a].life
                           /\ account'[a].parent = account[a].parent
                           /\ account'[a].role = account[a].role
         /\ \A a : Live(a)' <=> Live(a)
         /\ \A a \in Ids : Active(a)' <=>
              IF a \in ids /\ Live(a) THEN status = "ACTIVE" ELSE Active(a)
         /\ \A a : a \notin Ids => (Active(a)' <=> Active(a))
<1>1. \A a \in Ids : /\ account'[a].life = account[a].life
                     /\ account'[a].parent = account[a].parent
                     /\ account'[a].role = account[a].role
  BY SetStatusKeeps
<1>2. \A a : Live(a)' <=> Live(a)
  BY <1>1 DEF Live
<1>3. \A a \in Ids : Active(a)' <=>
        IF a \in ids /\ Live(a) THEN status = "ACTIVE" ELSE Active(a)
  <2>1. Root \notin Ids
    OBVIOUS
  <2>. QED
    BY <1>2, <2>1, StatusAfter DEF Active
<1>. QED
  BY <1>1, <1>2, <1>3 DEF Active

\* A request that sets the status ids to status.
Sets(r, ids, status) ==
  /\ ids = process[r].ids /\ status \in Status
  /\ status = "INACTIVE" => Lowering(process[r])
  /\ status = "ACTIVE" => process[r].at = "update" /\ process[r].arg = "ACTIVE"
  /\ SetStatus(ids, status)

LEMMA WhatIsSet ==
  ASSUME TypesInv, NEW r \in Requests, UpdateStatus(r) \/ MarkInactive(r)
  PROVE  \E status \in Status : Sets(r, process[r].ids, status)
<1>1. CASE UpdateStatus(r)
  <2>1. process[r].at = "update" /\ SetStatus(process[r].ids, process[r].arg)
    BY <1>1 DEF UpdateStatus
  <2>2. process[r].arg \in Status
    BY <2>1 DEF TypesInv, ProcessesFit, Processes, Fit
  <2>. QED
    BY <2>1, <2>2 DEF Sets, Lowering
<1>2. CASE MarkInactive(r)
  BY <1>2 DEF MarkInactive, Step, Sets, Lowering, Status
<1>. QED
  BY <1>1, <1>2

LEMMA SetsHolds ==
  ASSUME TypesInv, StatusInv, RacedStays,
         NEW r \in Requests, NEW ids, NEW status, Sets(r, ids, status),
         NEW s \in Requests, NEW q, q = process[s]
  PROVE  Holds(q)'
<1>0. /\ \A a \in Ids : /\ account'[a].life = account[a].life
                        /\ account'[a].parent = account[a].parent
                        /\ account'[a].role = account[a].role
      /\ \A a : Live(a)' <=> Live(a)
      /\ \A a \in Ids : Active(a)' <=>
           IF a \in ids /\ Live(a) THEN status = "ACTIVE" ELSE Active(a)
      /\ \A a : a \notin Ids => (Active(a)' <=> Active(a))
  BY StatusChanges DEF Sets
<1>1. Holds(q) /\ OverlapRaced
  BY DEF StatusInv, ReadsHold
<1>2. q.ids \in SUBSET Ids
  BY DEF TypesInv, ProcessesFit, Processes, Process
<1>3. ASSUME NEW p \in RaisesBelow(s), Active(p) \/ p \in raced PROVE Active(p)' \/ p \in raced'
  <2>. SUFFICES ASSUME ~Active(p)', p \notin raced' PROVE FALSE
    OBVIOUS
  <2>1. Active(p) /\ p \notin raced
    BY <1>3 DEF RacedStays
  <2>2. p \in ids /\ status # "ACTIVE"
    BY <1>0, <2>1
  <2>3. Lowering(process[r]) /\ p \in process[r].ids
    BY <2>2 DEF Sets, Status
  <2>. QED
    BY <1>1, <2>1, <2>3, Meets
<1>4. InsertHolds(q)'
  <2>. SUFFICES ASSUME q.at = "insert" PROVE InsertHolds(q)'
    BY DEF InsertHolds
  <2>1. q.who \in RaisesBelow(s)
    BY DEF RaisesBelow
  <2>2. q.who \in Ids => account'[q.who].life # "new"
    BY <1>0, <1>1 DEF Holds, InsertHolds
  <2>3. ASSUME Live(q.who)' PROVE /\ q.who \in Ids => account'[q.who].role = "AGENT"
                                  /\ Active(q.who)' \/ q.who \in raced'
    <3>1. Live(q.who)
      BY <1>0, <2>3
    <3>. QED
      BY <1>0, <1>1, <1>3, <2>1, <3>1 DEF Holds, InsertHolds
  <2>. QED
    BY <2>2, <2>3 DEF InsertHolds
<1>5. RaiseHolds(q)'
  <2>. SUFFICES ASSUME q.at = "update", q.arg = "ACTIVE" PROVE RaiseHolds(q)'
    BY DEF RaiseHolds
  <2>1. q.root \in q.ids
    BY <1>1 DEF Holds, RaiseHolds
  <2>2. ASSUME NEW a \in q.ids, Live(a)', a # q.root PROVE account'[a].parent \in q.ids
    BY <1>0, <1>1, <1>2, <2>2 DEF Holds, RaiseHolds
  <2>3. ASSUME Live(q.root)'
        PROVE  Active(account[q.root].parent)' \/ account'[q.root].parent \in raced'
    <3>1. PICK p : p = account[q.root].parent /\ p = account'[q.root].parent
      BY <1>0, <1>2, <2>1
    <3>2. p \in RaisesBelow(s)
      BY <3>1 DEF RaisesBelow
    <3>3. Active(p) \/ p \in raced
      BY <1>0, <1>1, <2>3, <3>1 DEF Holds, RaiseHolds
    <3>4. Active(p)' \/ p \in raced'
      BY <1>3, <3>2, <3>3
    <3>. QED
      BY <3>1, <3>4 DEF Active, Live
  <2>. QED
    BY <2>1, <2>2, <2>3 DEF RaiseHolds
<1>6. LowerHolds(q)'
  BY <1>0, <1>1 DEF Holds, LowerHolds, RacedStays
<1>. QED
  BY <1>4, <1>5, <1>6 DEF Holds

\* What is made inactive takes its children along, what is made active has its parent with
\* it or above it, but for accounts in raced.
LEMMA SetsBelow ==
  ASSUME TypesInv, NoDangling, StatusInv, RacedStays,
         NEW r \in Requests, NEW ids, NEW status, Sets(r, ids, status)
  PROVE  InactiveBelow' /\ AgentsOnly'
<1>0. /\ \A a \in Ids : /\ account'[a].life = account[a].life
                        /\ account'[a].parent = account[a].parent
                        /\ account'[a].role = account[a].role
      /\ \A a : Live(a)' <=> Live(a)
      /\ \A a \in Ids : Active(a)' <=>
           IF a \in ids /\ Live(a) THEN status = "ACTIVE" ELSE Active(a)
      /\ \A a : a \notin Ids => (Active(a)' <=> Active(a))
  BY StatusChanges DEF Sets
<1>1. Holds(process[r]) /\ ids = process[r].ids
  BY DEF StatusInv, ReadsHold, Sets
<1>2. AgentsOnly'
  BY <1>0 DEF StatusInv, AgentsOnly
<1>3. ASSUME NEW a \in Ids, Live(a), NEW p \in Ids \ raced, account[a].parent = p, Active(a)'
      PROVE  Active(p)'
  <2>1. Live(p) /\ (Active(a) => Active(p))
    BY <1>3 DEF NoDangling, StatusInv, InactiveBelow
  <2>2. CASE status = "INACTIVE"
    <3>1. p \in ids => a \in ids
      BY <1>1, <1>3, <2>2 DEF Holds, LowerHolds, Sets
    <3>. QED
      BY <1>0, <1>3, <2>1, <2>2, <3>1
  <2>3. CASE status = "ACTIVE"
    <3>1. a \in ids => p \in ids \/ Active(p)
      <4>1. RaiseHolds(process[r]) /\ process[r].at = "update" /\ process[r].arg = "ACTIVE"
        BY <1>1, <2>3 DEF Holds, Sets
      <4>. QED
        BY <1>1, <1>3, <4>1 DEF RaiseHolds
    <3>. QED
      BY <1>0, <1>3, <2>1, <2>3, <3>1
  <2>. QED
    BY <2>2, <2>3 DEF Sets, Status
<1>4. InactiveBelow'
  <2>. SUFFICES ASSUME NEW a \in Ids, Live(a)', account'[a].parent \in Ids \ raced', Active(a)'
                PROVE  Active(account[a].parent)'
    BY DEF InactiveBelow
  <2>1. PICK p \in Ids \ raced : account[a].parent = p /\ account'[a].parent = p
    BY <1>0 DEF RacedStays
  <2>2. Active(p)'
    BY <1>0, <1>3, <2>1
  <2>. QED
    BY <2>1, <2>2 DEF Active, Live
<1>. QED
  BY <1>2, <1>4

LEMMA TimeSame == ASSUME TypesInv, PassTime PROVE SameAccounts
  BY DEF PassTime, SameAccounts, TypesInv, TablesOK, Account

\* Accounts go with all that is below them.
LEMMA GoesOrStays ==
  ASSUME TypesInv, NoDangling', NEW x, Deletes(x)
  PROVE  /\ \A a \in Ids : account[a].life # "new" => account'[a].life # "new"
         /\ \A a \in Ids : Live(a)' => account'[a] = account[a]
         /\ \A a : (Live(a)' => Live(a)) /\ (Live(a)' => (Active(a)' <=> Active(a)))
         /\ \A a \in Ids : \A p : Live(a)' /\ account'[a].parent = p => Live(p)'
<1> DEFINE gone == Gone({c \in process[x].ids : Live(c)})
<1>1. account' = [a \in Ids |-> IF a \in gone THEN [NoAccount EXCEPT !.life = "gone"]
                                ELSE account[a]]
  BY DEF Deletes
<1>. HIDE DEF gone
<1>2. \A a \in Ids : account'[a] = account[a] \/ account'[a].life = "gone"
  BY <1>1 DEF NoAccount
<1>3. \A a \in Ids : Live(a)' => account'[a] = account[a]
  BY <1>2 DEF Live
<1>4. \A a : (Live(a)' => Live(a)) /\ (Live(a)' => (Active(a)' <=> Active(a)))
  BY <1>2 DEF Live, Active
<1>5. \A a \in Ids : account[a].life # "new" => account'[a].life # "new"
  BY <1>2
<1>6. \A a \in Ids : \A p : Live(a)' /\ account'[a].parent = p => Live(p)'
  BY DEF NoDangling, Live
<1>. QED
  BY <1>3, <1>4, <1>5, <1>6

LEMMA GoneHolds ==
  ASSUME TypesInv, NoDangling', RacedStays, NEW x, Deletes(x),
         NEW q, q.ids \in SUBSET Ids, Holds(q)
  PROVE  Holds(q)'
<1>0. /\ \A a \in Ids : account[a].life # "new" => account'[a].life # "new"
      /\ \A a \in Ids : Live(a)' => account'[a] = account[a]
      /\ \A a : (Live(a)' => Live(a)) /\ (Live(a)' => (Active(a)' <=> Active(a)))
      /\ \A a \in Ids : \A p : Live(a)' /\ account'[a].parent = p => Live(p)'
  BY GoesOrStays
<1>1. InsertHolds(q)'
  BY <1>0 DEF Holds, InsertHolds, RacedStays
<1>2. RaiseHolds(q)'
  <2>. SUFFICES ASSUME q.at = "update", q.arg = "ACTIVE" PROVE RaiseHolds(q)'
    BY DEF RaiseHolds
  <2>1. q.root \in q.ids
    BY DEF Holds, RaiseHolds
  <2>2. ASSUME NEW a \in q.ids, Live(a)', a # q.root PROVE account'[a].parent \in q.ids
    BY <1>0, <2>2 DEF Holds, RaiseHolds
  <2>3. ASSUME Live(q.root)'
        PROVE  Active(account[q.root].parent)' \/ account'[q.root].parent \in raced'
    <3>1. PICK p : p = account[q.root].parent /\ p = account'[q.root].parent /\ Live(p)'
      BY <1>0, <2>1, <2>3
    <3>2. Active(p) \/ p \in raced
      BY <1>0, <2>3, <3>1 DEF Holds, RaiseHolds
    <3>3. Active(p)' \/ p \in raced'
      BY <1>0, <3>1, <3>2 DEF RacedStays
    <3>. QED
      BY <3>1, <3>3 DEF Active, Live
  <2>. QED
    BY <2>1, <2>2, <2>3 DEF RaiseHolds
<1>3. LowerHolds(q)'
  BY <1>0 DEF Holds, LowerHolds, RacedStays
<1>. QED
  BY <1>1, <1>2, <1>3 DEF Holds

LEMMA DeletesBelow ==
  ASSUME TypesInv, NoDangling', StatusInv, RacedStays, NEW x \in Processes, Deletes(x)
  PROVE  InactiveBelow' /\ AgentsOnly' /\ ReadsHold'
<1>0. /\ \A a \in Ids : Live(a)' => account'[a] = account[a]
      /\ \A a : (Live(a)' => Live(a)) /\ (Live(a)' => (Active(a)' <=> Active(a)))
      /\ \A a \in Ids : \A p : Live(a)' /\ account'[a].parent = p => Live(p)'
  BY GoesOrStays
<1>1. ASSUME NEW a \in Ids, Live(a)', NEW p \in Ids, account'[a].parent = p
      PROVE  /\ account'[p].role = "AGENT"
             /\ p \in Ids \ raced' /\ ~Active(p)' => ~Active(a)'
  <2>1. Live(p)' /\ account'[p] = account[p] /\ Live(a) /\ account[a].parent = p
    BY <1>0, <1>1
  <2>2. account[p].role = "AGENT" /\ (p \in Ids \ raced /\ ~Active(p) => ~Active(a))
    BY <1>1, <2>1 DEF StatusInv, AgentsOnly, InactiveBelow
  <2>. QED
    BY <1>0, <1>1, <2>1, <2>2 DEF RacedStays
<1>2. AgentsOnly'
  BY <1>1 DEF AgentsOnly
<1>3. InactiveBelow'
  <2>. SUFFICES ASSUME NEW a \in Ids, Live(a)', account'[a].parent \in Ids \ raced',
                       ~Active(account[a].parent)'
                PROVE  ~Active(a)'
    BY DEF InactiveBelow
  <2>1. PICK p \in Ids : p = account'[a].parent
    OBVIOUS
  <2>2. ~Active(p)'
    BY <2>1 DEF Active, Live
  <2>. QED
    BY <1>1, <2>1, <2>2
<1>4. ASSUME NEW r \in Requests PROVE Holds(process[r])'
  <2>1. r \in Processes /\ process[r] \in Process /\ DOMAIN process = Processes
        /\ Holds(process[r]) /\ process[x] \in Process
    BY DEF Processes, TypesInv, ProcessesFit, StatusInv, ReadsHold
  <2>2. CASE r = x
    <3>1. process'[r].at \in {"idle", "next", "dequeue"}
      BY <2>1, <2>2 DEF Deletes, Idle, Process
    <3>2. Free(process'[r])
      BY <3>1 DEF Free
    <3>. QED
      BY <3>2 DEF Free, Holds, InsertHolds, RaiseHolds, LowerHolds, Lowering
  <2>3. CASE r # x
    <3>1. PICK q : q = process'[r] /\ q.at = process[r].at /\ q.op = process[r].op
                   /\ q.who = process[r].who /\ q.ids = process[r].ids
                   /\ q.root = process[r].root /\ q.arg = process[r].arg
      BY <2>1, <2>3 DEF Deletes, Process
    <3>2. Holds(q) /\ q.ids \in SUBSET Ids
      BY <2>1, <3>1 DEF Holds, InsertHolds, RaiseHolds, LowerHolds, Lowering, Process
    <3>3. Holds(q)'
      BY <3>2, GoneHolds
    <3>4. \A p : p = process'[r] => Holds(p)'
      BY <3>1, <3>3
    <3>. QED
      BY <3>4
  <2>. QED
    BY <2>2, <2>3
<1>. QED
  BY <1>2, <1>3, <1>4 DEF ReadsHold

LEMMA StatusInit == RaceInit => StatusInv
<1>. SUFFICES ASSUME RaceInit PROVE StatusInv
  OBVIOUS
<1>1. \A a \in Ids : ~Live(a)
  BY DEF RaceInit, Init, Live, NoAccount
<1>2. \A r \in Requests : process[r].at = "idle"
  BY DEF RaceInit, Init, Idle
<1>3. InactiveBelow /\ AgentsOnly
  BY <1>1 DEF InactiveBelow, AgentsOnly
<1>4. ReadsHold
  BY <1>2, FreeHolds DEF ReadsHold, Free
<1>5. OverlapRaced
  BY <1>2 DEF OverlapRaced, Overlap, Lowers, Lowering
<1>. QED
  BY <1>3, <1>4, <1>5 DEF StatusInv

\* A request that has written is over or only has its account to queue; what the others
\* have read still holds.
LEMMA WriteKeeps ==
  ASSUME TypesInv, NoDangling, IdsKnown, StatusInv, RacedStays, NEW r \in Requests,
         InsertChild(r) \/ UpdateStatus(r) \/ MarkInactive(r)
  PROVE  InactiveBelow' /\ AgentsOnly' /\ ReadsHold'
<1>1. process[r] \in Process /\ DOMAIN process = Processes
  BY DEF TypesInv, ProcessesFit, Processes
<1>2. process'[r].at \in {"idle", "queue"} /\ \A s \in Requests \ {r} : process'[s] = process[s]
  BY <1>1 DEF InsertChild, UpdateStatus, MarkInactive, End, Step, To, Idle, Process, Processes
<1>3. ASSUME \A s \in Requests : \A q : q = process[s] => Holds(q)'
      PROVE  ReadsHold'
  <2>. SUFFICES ASSUME NEW s \in Requests PROVE Holds(process[s])'
    BY DEF ReadsHold
  <2>1. CASE s = r
    BY <1>2, <2>1 DEF Holds, InsertHolds, RaiseHolds, LowerHolds, Lowering
  <2>2. CASE s # r
    <3>1. process'[s] = process[s]
      BY <1>2, <2>2
    <3>2. \A q : q = process'[s] => Holds(q)'
      BY <1>3, <3>1
    <3>. QED
      BY <3>2
  <2>. QED
    BY <2>1, <2>2
<1>4. CASE InsertChild(r) /\ UNCHANGED account
  <2>1. SameAccounts
    BY <1>4 DEF SameAccounts
  <2>2. \A s \in Requests : process[s].ids \in SUBSET Ids /\ Holds(process[s])
    BY DEF TypesInv, ProcessesFit, Processes, Process, StatusInv, ReadsHold
  <2>3. \A s \in Requests : \A q : q = process[s] => Holds(q)'
    BY <2>1, <2>2, SameHolds
  <2>. QED
    BY <1>3, <2>1, <2>3, SameStatus DEF StatusInv
<1>5. CASE InsertChild(r) /\ ~UNCHANGED account
  <2>1. PICK c \in Ids : Comes(r, c)
    BY <1>5, InsertOrNot
  <2>2. process[r].at = "insert"
    BY <1>5 DEF InsertChild
  <2>3. \A s \in Requests : \A q : q = process[s] => Holds(q)'
    BY <2>1, <2>2, ComesHolds
  <2>. QED
    BY <1>3, <2>1, <2>2, <2>3, ComesBelow
<1>6. CASE UpdateStatus(r) \/ MarkInactive(r)
  <2>1. PICK status \in Status : Sets(r, process[r].ids, status)
    BY <1>6, WhatIsSet
  <2>2. \A s \in Requests : \A q : q = process[s] => Holds(q)'
    BY <2>1, SetsHolds
  <2>. QED
    BY <1>3, <2>1, <2>2, SetsBelow
<1>. QED
  BY <1>4, <1>5, <1>6

LEMMA StatusNext ==
  ASSUME TypesInv, TypesInv', NoDangling, NoDangling', IdsKnown, StatusInv,
         [RaceNext]_raceVars
  PROVE  StatusInv'
<1>0. [Next]_vars /\ RacedStays /\ OverlapRaced'
  <2>1. CASE RaceNext
    BY <2>1 DEF RaceNext, RacedStays, OverlapRaced
  <2>2. CASE UNCHANGED raceVars
    BY <2>2 DEF raceVars, vars, RacedStays, StatusInv, OverlapRaced, Overlap, Lowers, RaisesBelow
  <2>. QED
    BY <2>1, <2>2
<1>1. CASE \E x \in Processes : Deletes(x)
  BY <1>0, <1>1, DeletesBelow DEF StatusInv
<1>2. CASE \A x \in Processes : ~Deletes(x)
  <2>1. ASSUME NEW r \in Requests, InsertChild(r) \/ UpdateStatus(r) \/ MarkInactive(r)
        PROVE  StatusInv'
    BY <1>0, <2>1, WriteKeeps DEF StatusInv
  <2>2. SameAccounts => StatusInv'
    BY <1>0, <1>2, StepHolds, ReadsKept, SameStatus DEF StatusInv
  <2>3. UNCHANGED account => SameAccounts
    BY DEF SameAccounts
  <2>4. ASSUME NEW r \in Requests,
               Queue(r) \/ CommitTransfer(r) \/ AdjustRoot(r) \/ PlaceBet(r)
        PROVE  UNCHANGED account
    BY <2>4 DEF Queue, CommitTransfer, AdjustRoot, PlaceBet
  <2>5. ASSUME NEW x \in Processes, DeleteAccounts(x) PROVE UNCHANGED account
    BY <1>2, <2>5, DeleteOrNot
  <2>6. ASSUME (\E b \in BetIds : EndRound(b)) \/ (\E x \in Sweepers : TakeNext(x) \/ Dequeue(x))
                 \/ UNCHANGED tables \/ UNCHANGED vars
        PROVE  UNCHANGED account
    BY <2>6 DEF EndRound, TakeNext, Dequeue, tables, vars
  <2>. QED
    BY <1>0, <2>1, <2>2, <2>3, <2>4, <2>5, <2>6, TimeSame, Steps, OnlyProcessTables
<1>. QED
  BY <1>1, <1>2

\* However many requests and deletions overlap and however deep the hierarchy: no account
\* is active below an inactive one, but for children of an account that was being made
\* inactive while a child of its own was being created or activated.
THEOREM NoneActiveBelow == RaceSpec => []InactiveBelow
<1>1. RaceInit => StatusInv
  BY StatusInit
<1>2. TypesInv /\ TypesInv' /\ NoDangling /\ NoDangling' /\ IdsKnown /\ StatusInv
        /\ [RaceNext]_raceVars => StatusInv'
  BY StatusNext
<1>3. StatusInv => InactiveBelow
  BY DEF StatusInv
<1>. QED
  BY <1>1, <1>2, <1>3, RaceIsSpec, TypesAlways, NothingDangles, KnownAlways, PTL DEF RaceSpec
=============================================================================
