------------------------------ MODULE Accounts ------------------------------
(***************************************************************************)
(* Accounts, their wallets and what becomes of both: the hierarchy and the *)
(* deletion of subtrees (services/hierarchy_service.py), transfers between *)
(* parent and child (services/wallet_service.py, transactions/ledger.py),  *)
(* the deletions the scheduler and the cleanup worker carry out            *)
(* (process_pending_deletions, tasks/cleanup.py), and the bets they have   *)
(* to respect.                                                             *)
(*                                                                         *)
(* Web connections are in autocommit mode: outside conn.transaction() each *)
(* statement is a transaction of its own, so a request is a sequence of    *)
(* steps between which anybody may act.  Rounds are reduced to what        *)
(* _has_active_game sees of them; GameRound models the rest.               *)
(***************************************************************************)
EXTENDS Integers, FiniteSets, Money

CONSTANTS
  Ids,       \* identifiers for agents and users (never used twice)
  Root,      \* the administrator
  Pool,      \* the account system_pool
  BetIds,    \* identifiers for rows of bets
  TxIds,     \* numbers for rows of wallet_transactions
  Amounts,   \* amounts of stakes and transfers
  RootBalance,  \* what the administrator has been credited before
  Requests,  \* web requests that may be in progress
  None       \* NULL

ASSUME AccountsAssumption ==
  /\ Root \notin Ids \cup {Pool} /\ Pool \notin Ids
  /\ IsFiniteSet(TxIds) /\ TxIds \subseteq Nat
  /\ Amounts \subseteq Nat \ {0} /\ RootBalance \in Nat
  /\ BetIds \cap TxIds = {}
  /\ {"scheduler", "cleaner"} \cap Requests = {}
  /\ None \notin Ids \cup {Root, Pool, "ACTIVE", "INACTIVE", "AGENT", "USER"}

VARIABLES
  account,  \* rows of accounts below the root, and whether they are still to come
  wallet,   \* wallets.current_balance; a wallet lives as long as its account
  ledger,   \* rows of wallet_transactions
  bets,     \* rows of bets, and whether the session of the bet goes on
  pending,  \* rows of pending_account_deletions, and how old they are
  process   \* requests, the deletions of the scheduler, the cleanup worker

vars == <<account, wallet, ledger, bets, pending, process>>

Roles == {"AGENT", "USER"}
Status == {"ACTIVE", "INACTIVE"}
Wallets == Ids \cup {Root, Pool}
Sweepers == {"scheduler", "cleaner"}

Account == [life : {"new", "live", "gone"}, parent : Ids \cup {Root, None},
            role : Roles \cup {None}, status : Status \cup {None},
            changed : {"null", "recent", "old"}]
Row == [from : Wallets \cup {None}, to : Wallets \cup {None}, amount : Amounts \cup {0}]
Bet == [player : Ids \cup {Root, None}, state : {"none", "active", "failed", "resolved"}]
Process == [op : {"idle", "create", "status", "delete", "bet", "transfer",
                  "pending", "stuck", "inactive"},
            at : {"idle", "insert", "update", "look", "mark", "queue", "rows", "commit",
                  "dequeue", "bet", "transfer", "next"},
            who : Wallets \cup {None}, root : Wallets \cup {None},
            arg : Roles \cup Status \cup {None}, amount : Amounts \cup {0},
            ids : SUBSET Ids, seen : SUBSET (BetIds \cup TxIds), todo : SUBSET Ids]

TypeOK ==
  /\ account \in [Ids -> Account]
  /\ wallet \in [Wallets -> Nat]
  /\ ledger \in [TxIds -> Row]
  /\ bets \in [BetIds -> Bet]
  /\ pending \in [Ids -> {"none", "recent", "old"}]
  /\ process \in [Requests \cup Sweepers -> Process]

NoAccount == [life |-> "new", parent |-> None, role |-> None, status |-> None,
              changed |-> "null"]
NoRow == [from |-> None, to |-> None, amount |-> 0]
NoBet == [player |-> None, state |-> "none"]
Idle == [op |-> "idle", at |-> "idle", who |-> None, root |-> None, arg |-> None,
         amount |-> 0, ids |-> {}, seen |-> {}, todo |-> {}]

Init ==
  /\ account = [a \in Ids |-> NoAccount]
  /\ wallet = [o \in Wallets |-> IF o = Root THEN RootBalance ELSE 0]
  /\ ledger = [t \in TxIds |-> NoRow]
  /\ bets = [b \in BetIds |-> NoBet]
  /\ pending = [a \in Ids |-> "none"]
  /\ process = [x \in Requests \cup Sweepers |-> Idle]

-----------------------------------------------------------------------------
Live(a) == a \in {Root, Pool} \/ (a \in Ids /\ account[a].life = "live")
Active(a) == a = Root \/ (a \in Ids /\ Live(a) /\ account[a].status = "ACTIVE")
Child(p, c) == Live(c) /\ account[c].parent = p
CanCreate(p, role) ==
  IF p = Root THEN role = "AGENT" ELSE account[p].role = "AGENT"

\* One level of children only.
FaultySubtree(c) == {a \in Ids : Live(a) /\ (a = c \/ account[a].parent = c)}

\* WITH RECURSIVE subtree: the least set that has c and the children of its members.
Subtree(c) ==
  {a \in Ids : /\ Live(a)
               /\ \A S \in SUBSET Ids :
                    (c \in S /\ \A x \in Ids : Live(x) /\ account[x].parent \in S => x \in S)
                      => a \in S}

\* Bets of rounds that failed count as well.
FaultyHasActiveGame(ids) ==
  \E b \in BetIds : bets[b].player \in ids /\ bets[b].state \in {"active", "failed"}

HasActiveGame(ids) == \E b \in BetIds : bets[b].player \in ids /\ bets[b].state = "active"

\* Rows of bets and wallet_transactions that refer to the accounts ids or their wallets.
Referring(ids) ==
  {b \in BetIds : bets[b].player \in ids}
    \cup {t \in TxIds : ledger[t].from \in ids \/ ledger[t].to \in ids}

To(x, p) == process' = [process EXCEPT ![x] = p]
Step(x, at, next) == process[x].at = at /\ To(x, [process[x] EXCEPT !.at = next])
End(x) == To(x, Idle)

\* A row is added, under the lowest number that is free.
Book(from, to, amount) ==
  \E t \in TxIds :
    /\ ledger[t] = NoRow
    /\ \A u \in TxIds : u < t => ledger[u] # NoRow
    /\ ledger' = [ledger EXCEPT ![t] = [from |-> from, to |-> to, amount |-> amount]]

SetStatus(ids, status) ==
  account' = [a \in Ids |->
    IF a \in ids /\ Live(a)
    THEN [account[a] EXCEPT !.status = status,
                            !.changed = IF status = "INACTIVE" THEN "recent" ELSE "null"]
    ELSE account[a]]

-----------------------------------------------------------------------------
(* Requests: current_actor and the reads of the route, then the writes.    *)

Ask(r, p) == process[r] = Idle /\ To(r, p)

StartCreate(r) ==
  /\ \E p \in Ids \cup {Root}, role \in Roles :
       /\ Active(p) /\ CanCreate(p, role)
       /\ Ask(r, [Idle EXCEPT !.op = "create", !.at = "insert", !.who = p, !.arg = role])
  /\ UNCHANGED <<account, wallet, ledger, bets, pending>>

\* The foreign key parent_id refuses a child of an account that has gone.
InsertChild(r) ==
  /\ process[r].at = "insert"
  /\ \/ /\ Live(process[r].who)
        /\ \E c \in Ids :
             /\ account[c].life = "new"
             /\ account' = [account EXCEPT ![c] =
                  [life |-> "live", parent |-> process[r].who, role |-> process[r].arg,
                   status |-> "ACTIVE", changed |-> "null"]]
     \/ ~Live(process[r].who) /\ UNCHANGED account
  /\ End(r)
  /\ UNCHANGED <<wallet, ledger, bets, pending>>

StartStatus(r) ==
  /\ \E p \in Ids \cup {Root}, c \in Ids, status \in Status :
       /\ Active(p) /\ Child(p, c)
       /\ Ask(r, [Idle EXCEPT !.op = "status", !.at = "update", !.root = c, !.arg = status,
                    !.ids = IF account[c].role = "AGENT" THEN Subtree(c) ELSE {c}])
  /\ UNCHANGED <<account, wallet, ledger, bets, pending>>

UpdateStatus(r) ==
  /\ process[r].at = "update"
  /\ SetStatus(process[r].ids, process[r].arg)
  /\ End(r)
  /\ UNCHANGED <<wallet, ledger, bets, pending>>

StartDelete(r) ==
  /\ \E p \in Ids \cup {Root}, c \in Ids :
       /\ Active(p) /\ Child(p, c)
       /\ Ask(r, [Idle EXCEPT !.op = "delete", !.at = "look", !.root = c, !.ids = Subtree(c)])
  /\ UNCHANGED <<account, wallet, ledger, bets, pending>>

LookForGames(r) ==
  /\ process[r].op = "delete"
  /\ Step(r, "look", IF HasActiveGame(process[r].ids) THEN "mark" ELSE "rows")
  /\ UNCHANGED <<account, wallet, ledger, bets, pending>>

MarkInactive(r) ==
  /\ Step(r, "mark", "queue")
  /\ SetStatus(process[r].ids, "INACTIVE")
  /\ UNCHANGED <<wallet, ledger, bets, pending>>

Queue(r) ==
  /\ process[r].at = "queue"
  /\ pending' = [pending EXCEPT ![process[r].root] = IF @ = "none" THEN "recent" ELSE @]
  /\ End(r)
  /\ UNCHANGED <<account, wallet, ledger, bets>>

\* Transfers: the child must be active when its wallet is looked up.
StartTransfer(r) ==
  /\ \E p \in Ids \cup {Root}, c \in Ids, n \in Amounts, credit \in BOOLEAN :
       /\ Active(p) /\ Child(p, c) /\ Active(c)
       /\ Ask(r, [Idle EXCEPT !.op = "transfer", !.at = "transfer", !.amount = n,
                    !.who = IF credit THEN p ELSE c, !.root = IF credit THEN c ELSE p])
  /\ UNCHANGED <<account, wallet, ledger, bets, pending>>

FaultyCovers(o, n) == Live(o)  \* the balance is not looked at
Covers(o, n) == Live(o) /\ wallet[o] >= n

\* The amount is taken from nobody.
FaultyPay(from, to, n) == wallet' = [wallet EXCEPT ![to] = @ + n]
Pay(from, to, n) == wallet' = [wallet EXCEPT ![from] = @ - n, ![to] = @ + n]

\* Under the locks of both wallets: both must still be there, and suffice.
CommitTransfer(r) ==
  LET q == process[r] IN
  /\ q.at = "transfer"
  /\ IF Covers(q.who, q.amount) /\ Live(q.root)
     THEN Book(q.who, q.root, q.amount) /\ Pay(q.who, q.root, q.amount)
     ELSE UNCHANGED <<ledger, wallet>>
  /\ End(r)
  /\ UNCHANGED <<account, bets, pending>>

\* adjust_admin_balance: one transaction.
AdjustRoot(r) ==
  /\ process[r] = Idle
  /\ \E n \in Amounts :
       \/ Book(None, Root, n) /\ wallet' = [wallet EXCEPT ![Root] = @ + n]
       \/ /\ Covers(Root, n)
          /\ Book(Root, None, n) /\ wallet' = [wallet EXCEPT ![Root] = @ - n]
  /\ UNCHANGED <<account, bets, pending, process>>

\* Bets: the route refuses an inactive player; place_bet does not look again.
StartBet(r) ==
  /\ \E u \in Ids \cup {Root}, n \in Amounts :
       /\ Active(u)
       /\ Ask(r, [Idle EXCEPT !.op = "bet", !.at = "bet", !.who = u, !.amount = n])
  /\ UNCHANGED <<account, wallet, ledger, bets, pending>>

PlaceBet(r) ==
  LET q == process[r] IN
  /\ q.at = "bet"
  /\ IF Covers(q.who, q.amount)
     THEN \E b \in BetIds :
            /\ bets[b] = NoBet
            /\ bets' = [bets EXCEPT ![b] = [player |-> q.who, state |-> "active"]]
            /\ Book(q.who, Pool, q.amount) /\ Pay(q.who, Pool, q.amount)
     ELSE UNCHANGED <<bets, ledger, wallet>>
  /\ End(r)
  /\ UNCHANGED <<account, pending>>

-----------------------------------------------------------------------------
(* _delete_accounts: a transaction of several statements.                  *)

\* The bets and transactions of the accounts are deleted ...
DeleteRows(x) ==
  /\ process[x].at = "rows"
  /\ To(x, [process[x] EXCEPT !.at = "commit", !.seen = Referring(process[x].ids)])
  /\ UNCHANGED <<account, wallet, ledger, bets, pending>>

FaultyGone(ids) == ids  \* no cascade

\* ON DELETE CASCADE: the accounts that go with ids, children that came meanwhile too.
Gone(ids) == UNION {Subtree(a) : a \in ids}

FaultyBlocked(x, gone) == FALSE  \* tables without foreign keys

\* ... rows committed since then are not, and the foreign keys notice ...
Blocked(x, gone) == Referring(gone) \ process[x].seen # {}

\* ... then wallets and accounts; when a foreign key objects, all is rolled back.
DeleteAccounts(x) ==
  LET q    == process[x]
      gone == Gone({c \in q.ids : Live(c)})
      rows == q.seen \cap Referring(q.ids)
  IN /\ q.at = "commit"
     /\ \/ /\ Blocked(x, gone)
           /\ End(x)
           /\ UNCHANGED <<account, wallet, ledger, bets, pending>>
        \/ /\ ~Blocked(x, gone)
           /\ account' = [a \in Ids |->
                IF a \in gone THEN [NoAccount EXCEPT !.life = "gone"] ELSE account[a]]
           /\ wallet' = [o \in Wallets |-> IF o \in gone THEN 0 ELSE wallet[o]]
           /\ bets' = [b \in BetIds |-> IF b \in rows THEN NoBet ELSE bets[b]]
           /\ ledger' = [t \in TxIds |-> IF t \in rows THEN NoRow ELSE ledger[t]]
           /\ pending' = [a \in Ids |-> IF a \in q.ids THEN "none" ELSE pending[a]]
           /\ process' = [y \in DOMAIN process |->
                IF y # x THEN [process[y] EXCEPT !.seen = @ \ rows]
                ELSE IF q.op = "delete" THEN Idle
                ELSE [q EXCEPT !.at = IF q.op = "inactive" THEN "next" ELSE "dequeue"]]

-----------------------------------------------------------------------------
(* The scheduler after each round, and the daily jobs of the cleanup worker. *)

Sweep(x, op, roots) ==
  /\ process[x] = Idle /\ roots # {}
  /\ To(x, [Idle EXCEPT !.op = op, !.at = "next", !.todo = roots])
  /\ UNCHANGED <<account, wallet, ledger, bets, pending>>

StartPending == Sweep("scheduler", "pending", {a \in Ids : pending[a] # "none"})
StartStuck == Sweep("cleaner", "stuck", {a \in Ids : pending[a] = "old"})

\* The topmost inactive accounts of old that are not queued.
StartInactive ==
  Sweep("cleaner", "inactive",
        {a \in Ids : /\ Live(a) /\ account[a].status = "INACTIVE"
                     /\ account[a].changed = "old" /\ pending[a] = "none"
                     /\ Active(account[a].parent)})

AgedOut(ids) ==
  \A a \in ids : account[a].status = "INACTIVE" /\ account[a].changed = "old"

\* A queued account that has gone leaves the queue; one not aged out is skipped.
TakeNext(x) ==
  LET q == process[x] IN
  /\ q.at = "next"
  /\ \E c \in q.todo :
       LET rest == [q EXCEPT !.todo = q.todo \ {c}, !.root = c, !.ids = {}, !.seen = {}]
           look == [rest EXCEPT !.at = "look", !.ids = Subtree(c)]
       IN IF q.op = "inactive"
          THEN To(x, IF AgedOut(Subtree(c)) THEN look ELSE rest) /\ UNCHANGED pending
          ELSE IF Live(c) THEN To(x, look) /\ UNCHANGED pending
          ELSE To(x, rest) /\ pending' = [pending EXCEPT ![c] = "none"]
  /\ UNCHANGED <<account, wallet, ledger, bets>>

LookAgain(x) ==
  /\ process[x].op \in {"pending", "stuck", "inactive"}
  /\ Step(x, "look", IF HasActiveGame(process[x].ids) THEN "next" ELSE "rows")
  /\ UNCHANGED <<account, wallet, ledger, bets, pending>>

Dequeue(x) ==
  /\ Step(x, "dequeue", "next")
  /\ pending' = [pending EXCEPT ![process[x].root] = "none"]
  /\ UNCHANGED <<account, wallet, ledger, bets>>

EndSweep(x) ==
  /\ process[x].at = "next" /\ process[x].todo = {}
  /\ End(x)
  /\ UNCHANGED <<account, wallet, ledger, bets, pending>>

-----------------------------------------------------------------------------
(* The rounds, as far as _has_active_game sees them, and time.             *)

EndRound(b) ==
  /\ bets[b].state = "active"
  /\ \E s \in {"resolved", "failed"} : bets' = [bets EXCEPT ![b].state = s]
  /\ UNCHANGED <<account, wallet, ledger, pending, process>>

PassTime ==
  /\ \/ \E a \in Ids : /\ account[a].changed = "recent"
                       /\ account' = [account EXCEPT ![a].changed = "old"]
                       /\ UNCHANGED pending
     \/ \E a \in Ids : /\ pending[a] = "recent"
                       /\ pending' = [pending EXCEPT ![a] = "old"]
                       /\ UNCHANGED account
  /\ UNCHANGED <<wallet, ledger, bets, process>>

Serve(r) ==
  \/ StartCreate(r) \/ InsertChild(r) \/ StartStatus(r) \/ UpdateStatus(r)
  \/ StartDelete(r) \/ LookForGames(r) \/ MarkInactive(r) \/ Queue(r)
  \/ StartTransfer(r) \/ CommitTransfer(r) \/ AdjustRoot(r)
  \/ StartBet(r) \/ PlaceBet(r) \/ DeleteRows(r) \/ DeleteAccounts(r)

Continue(x) ==
  \/ TakeNext(x) \/ LookAgain(x) \/ DeleteRows(x) \/ DeleteAccounts(x)
  \/ Dequeue(x) \/ EndSweep(x)

Next ==
  \/ \E r \in Requests : Serve(r)
  \/ StartPending \/ StartStuck \/ StartInactive
  \/ \E x \in Sweepers : Continue(x)
  \/ \E b \in BetIds : EndRound(b)
  \/ PassTime

Spec == Init /\ [][Next]_vars

\* Rounds go on and end, and each of them is followed by the pending deletions.
Fairness ==
  /\ WF_vars(StartPending) /\ WF_vars(Continue("scheduler"))
  /\ \A b \in BetIds : WF_vars(EndRound(b))

FairSpec == Spec /\ Fairness

-----------------------------------------------------------------------------
(* What holds.                                                             *)

\* No bet and no transaction refers to an account that has gone, and no account to
\* such a parent, although rows and children may be added while a deletion is under
\* way: what validate_wallet_integrity_job looks for is never there.
NoDangling ==
  /\ \A b \in BetIds : bets[b] # NoBet => Live(bets[b].player)
  /\ \A t \in TxIds : \A o \in {ledger[t].from, ledger[t].to} : o # None => Live(o)
  /\ \A a \in Ids : Live(a) => Live(account[a].parent)

Flow(rows) == Total([t \in TxIds |-> ledger[t].amount], rows)

\* Until an account is deleted, each wallet holds what the ledger says came in less
\* what it says went out, whichever transfers and bets overlap.
BooksBalance ==
  (\A a \in Ids : account[a].life # "gone") =>
    \A o \in Wallets :
      wallet[o] + Flow({t \in TxIds : ledger[t].from = o})
        = (IF o = Root THEN RootBalance ELSE 0) + Flow({t \in TxIds : ledger[t].to = o})

\* A queued deletion is carried out, unless somebody activates part of the subtree:
\* neither rounds in progress, nor deletions that fail on rows of a bet or a transfer that
\* came meanwhile, nor the rest of the queue, hold it up for ever.
PendingGoes ==
  \A a \in Ids :
    pending[a] # "none" ~> (pending[a] = "none" \/ \E d \in Subtree(a) : Active(d))

(* What a document promises, and the code does not keep.                   *)

\* DATA_FLOW_DIAGRAM.md:345 "scheduler processes deletion after active games finish":
\* no bet on a round in progress disappears.
DeletionWaits ==
  [][\A b \in BetIds : bets[b].state = "active" => bets'[b] # NoBet]_vars
=============================================================================
