------------------------------ MODULE RowLocks ------------------------------
(***************************************************************************)
(* The order in which the transactions of the program lock rows of         *)
(* PostgreSQL.  game_orchestrator.py:258 and ledger.py:49 lock wallets in  *)
(* the order of their ids `to avoid deadlocks'; settlement, recovery and   *)
(* the deletion of accounts lock rows in orders of their own.              *)
(*                                                                         *)
(* A transaction is the sequence of the rows it locks, which it keeps      *)
(* until it ends.  What it writes is in GameRound and Accounts, where a    *)
(* transaction is one step.  The scheduler runs one transaction at a time: *)
(* its calls to the database do not yield to its other tasks.              *)
(***************************************************************************)
EXTENDS Integers, Sequences, FiniteSets, SequencesExt

CONSTANTS
  Scheduler,  \* the scheduler's transaction
  Others,     \* transactions of web workers and of the cleanup worker
  WalletIds,  \* ids of wallets; numbers, for their order
  Games,      \* games with a session that is open for betting
  Bets,       \* bets on the session that is settled or recovered
  None

ASSUME RowLocksAssumption ==
  /\ IsFiniteSet(WalletIds) /\ WalletIds \subseteq Int
  /\ IsFiniteSet(Bets)
  /\ IsFiniteSet(Others) /\ Scheduler \notin Others
  /\ None \notin {"bet", "transfer", "settle", "recover", "delete", "ended"}

VARIABLES
  pool,    \* the wallet of the game pool, whose id is a random one
  wallet,  \* the wallet of each bet's player
  kind,    \* what each transaction does; "ended" once it has committed or been rolled back
  plan,    \* the rows it has yet to lock, in groups that belong together
  held     \* the rows it has locked

vars == <<pool, wallet, kind, plan, held>>

Transactions == Others \cup {Scheduler}
Wallet(w) == [table |-> "wallets", id |-> w]
Bet(b) == [table |-> "bets", id |-> b]
Session(g) == [table |-> "game_sessions", id |-> g]  \* the row of g that is open for betting
WalletRows == {Wallet(w) : w \in WalletIds}
BetRows == {Bet(b) : b \in Bets}
SessionRows == {Session(g) : g \in Games}
Rows == WalletRows \cup BetRows \cup SessionRows

TypeOK ==
  /\ pool \in WalletIds /\ wallet \in [Bets -> WalletIds \ {pool}]
  /\ kind \in [Transactions -> {"bet", "transfer", "settle", "recover", "delete", "ended", None}]
  /\ plan \in [Transactions -> Seq(Seq(Rows) \ {<<>>})]
  /\ held \in [Transactions -> SUBSET Rows]
  /\ \A t, u \in Transactions : t # u => held[t] \cap held[u] = {}

-----------------------------------------------------------------------------
\* SELECT ... ORDER BY wallet_id FOR UPDATE
FaultyOrdered(v, w) == <<Wallet(v), Wallet(w)>>  \* as they come
Ordered(v, w) == IF v < w THEN <<Wallet(v), Wallet(w)>> ELSE <<Wallet(w), Wallet(v)>>

Players == WalletIds \ {pool}

\* place_bet: the open session of its game, then the wallets of player and pool.
PlaceBet == {<<<<Session(g)>> \o Ordered(w, pool)>> : g \in Games, w \in Players}

\* transfer: the wallets of parent and child, in order.
Transfer == UNION {{<<Ordered(v, w)>> : w \in Players \ {v}} : v \in Players}

\* One group of rows after the other, in some order.
Each(order, group) == [i \in DOMAIN order |-> group[order[i]]]

\* _settle_bets: the pool first, to top it up; then bet by bet, in no order.  The session
\* is closed, its row asked for by nobody else.
TopUp(won) == IF won = {} THEN <<>> ELSE <<<<Wallet(pool)>>>>
SettleBet(won) ==
  [b \in Bets |-> (IF b \in won THEN Ordered(wallet[b], pool) ELSE <<>>) \o <<Bet(b)>>]
SettleBets ==
  {TopUp(won) \o Each(order, SettleBet(won)) : won \in SUBSET Bets, order \in SetToSeqs(Bets)}

\* recover_interrupted_sessions: all the refunds of a session, then the session, whose row
\* may still be open for betting.  No bet that has its refund is PLACED.
RefundBet == [b \in Bets |-> Ordered(wallet[b], pool) \o <<Bet(b)>>]
CloseSession(g) == <<<<Session(g)>>>>
Recover ==
  {Each(order, RefundBet) \o CloseSession(g) : order \in SetToSeqs(Bets), g \in Games}

\* _delete_accounts: bets, then wallets, in the order in which PostgreSQL finds them.
DeleteBets(gone) ==
  {Each(order, [b \in Bets |-> <<Bet(b)>>]) : order \in SetToSeqs({b \in Bets : wallet[b] \in gone})}
DeleteWallets(gone) ==
  {Each(order, [w \in gone |-> <<Wallet(w)>>]) : order \in SetToSeqs(gone)}
DeleteAccounts ==
  UNION {{p \o q : p \in DeleteBets(gone), q \in DeleteWallets(gone)} : gone \in SUBSET Players \ {{}}}

Plans(k) ==
  CASE k = "bet" -> PlaceBet
    [] k = "transfer" -> Transfer
    [] k = "settle" -> SettleBets
    [] k = "recover" -> Recover
    [] k = "delete" -> DeleteAccounts

Kinds(t) == {"delete"} \cup IF t = Scheduler THEN {"settle", "recover"} ELSE {"bet", "transfer"}

Init ==
  /\ pool \in WalletIds
  /\ wallet \in [Bets -> WalletIds \ {pool}]
  /\ kind = [t \in Transactions |-> None]
  /\ plan = [t \in Transactions |-> <<>>]
  /\ held = [t \in Transactions |-> {}]

Runs(t) == kind[t] \notin {None, "ended"}

Begin(t) ==
  /\ kind[t] = None
  /\ \E k \in Kinds(t) :
       /\ kind' = [kind EXCEPT ![t] = k]
       /\ \E p \in Plans(k) : plan' = [plan EXCEPT ![t] = p]
  /\ UNCHANGED <<pool, wallet, held>>

HeldByOthers(t) == UNION {held[u] : u \in Transactions \ {t}}

\* The row it asks for next.
Wanted(t) == Head(Head(plan[t]))

\* What is left when that row is locked; a row that is held already is locked again.
Rest(groups) ==
  IF Tail(Head(groups)) = <<>> THEN Tail(groups) ELSE <<Tail(Head(groups))>> \o Tail(groups)

FaultyLock(t) ==  \* the row is read without FOR UPDATE
  /\ plan[t] # <<>>
  /\ held' = [held EXCEPT ![t] = @ \cup {Wanted(t)}]
  /\ plan' = [plan EXCEPT ![t] = Rest(@)]
  /\ UNCHANGED <<pool, wallet, kind>>
Lock(t) ==
  /\ plan[t] # <<>>
  /\ Wanted(t) \notin HeldByOthers(t)
  /\ held' = [held EXCEPT ![t] = @ \cup {Wanted(t)}]
  /\ plan' = [plan EXCEPT ![t] = Rest(@)]
  /\ UNCHANGED <<pool, wallet, kind>>

FaultyEnd(t) ==  \* the transaction is left open
  /\ kind' = [kind EXCEPT ![t] = "ended"]
  /\ plan' = [plan EXCEPT ![t] = <<>>]
  /\ UNCHANGED <<pool, wallet, held>>
End(t) ==
  /\ kind' = [kind EXCEPT ![t] = "ended"]
  /\ plan' = [plan EXCEPT ![t] = <<>>]
  /\ held' = [held EXCEPT ![t] = {}]
  /\ UNCHANGED <<pool, wallet>>

Commit(t) == Runs(t) /\ plan[t] = <<>> /\ End(t)

-----------------------------------------------------------------------------
\* t waits for u.
WaitsFor(t, u) == t # u /\ plan[t] # <<>> /\ Wanted(t) \in held[u]

\* Each transaction of C waits for another one of C.
Deadlocked(C) == C # {} /\ \A t \in C : \E u \in C : WaitsFor(t, u)

\* PostgreSQL finds a circle and rolls back a transaction of it.  A bet or a transfer is
\* refused, a deletion put off, recovery starts again; the round of a settlement fails.
Abort(t) ==
  /\ \E C \in SUBSET Transactions :
       t \in C /\ Deadlocked(C) /\ \A D \in SUBSET C : Deadlocked(D) => D = C
  /\ End(t)

Next == \E t \in Transactions : Begin(t) \/ Lock(t) \/ Commit(t) \/ Abort(t)

\* What can go on does, and PostgreSQL looks for circles.
Fairness ==
  \A t \in Transactions : WF_vars(Lock(t)) /\ WF_vars(Commit(t)) /\ WF_vars(Abort(t))

Spec == Init /\ [][Next]_vars /\ Fairness

-----------------------------------------------------------------------------
\* It wants a row that comes before one it has locked: sessions, then wallets by their ids.
GoesBack(t) ==
  \E w \in WalletIds :
    /\ Wallet(w) \in held[t]
    /\ \/ Wanted(t) \in SessionRows
       \/ \E v \in WalletIds : Wanted(t) = Wallet(v) /\ v < w

\* Bets, whichever game they are on, and transfers never wait for one another in a circle,
\* as their comments say.  Every circle is the doing of a settlement, a recovery or a
\* deletion that goes back in that order, or of a deletion that has locked bets.
OrderPreventsDeadlock ==
  \A C \in SUBSET Transactions : Deadlocked(C) =>
    \E t \in C : /\ kind[t] \in {"settle", "recover", "delete"}
                 /\ GoesBack(t) \/ (kind[t] = "delete" /\ \E b \in Bets : Bet(b) \in held[t])

\* Every transaction that has begun ends, whatever circle it gets into.
EveryTransactionEnds == \A t \in Transactions : Runs(t) ~> kind[t] = "ended"
=============================================================================
