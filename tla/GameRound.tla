----------------------------- MODULE GameRound -----------------------------
(***************************************************************************)
(* The life of game rounds and of the bets on them: the scheduler process  *)
(* (scheduler/game_scheduler.py) that opens, closes, settles and recovers  *)
(* sessions, the web workers that place bets (services/game_orchestrator.py*)
(* place_bet), the PostgreSQL tables and the Redis keys both sides read.   *)
(*                                                                         *)
(* One step is one database transaction, one Redis pipeline, or one read   *)
(* whose result is used after another process may have moved.  Accounts    *)
(* and wallets exist throughout; deleting them is not part of this module. *)
(* Definitions named Faulty... are variants of the definition below them   *)
(* with a plausible bug; no specification uses them.                       *)
(***************************************************************************)
EXTENDS Integers, FiniteSets, Money

CONSTANTS
  Players,         \* accounts that bet
  Pool,            \* the wallet of the account system_pool
  Games,           \* the keys of GAME_DEFINITIONS
  Schedulers,      \* scheduler processes (docker-compose starts one)
  Requests,        \* bet requests a web worker may have in progress
  BetIds,          \* identifiers for rows of bets (bound on the bets placed)
  Stakes,          \* amounts of at least settings.min_bet
  FeeOf,           \* FeeOf[a]: the fee on a winning stake of a
  InitialBalance,  \* what the players' wallets hold at first
  MaxSessions,     \* bound on the rows of game_sessions
  MaxExits,        \* bound on the times a scheduler process ends
  MaxErrors,       \* bound on the exceptions raised inside a cycle
  None             \* NULL

ASSUME GameRoundAssumption ==
  /\ Pool \notin Players
  /\ IsFiniteSet(BetIds)
  /\ Stakes \subseteq Nat \ {0}
  /\ FeeOf \in [Stakes \cup {0} -> Nat]
  /\ \A a \in Stakes \cup {0} : FeeOf[a] <= a
  /\ InitialBalance \in [Players -> Nat]
  /\ MaxSessions \in Nat /\ MaxExits \in Nat /\ MaxErrors \in Nat
  /\ None \notin Games \cup Players \cup {Pool} \cup BetIds \cup Nat \cup {"A", "B"}

VARIABLES
  wallet,    \* wallets.current_balance
  ledger,    \* rows of wallet_transactions
  bets,      \* rows of bets
  sessions,  \* rows of game_sessions, numbered by created_at
  redis,     \* the keys game:<key>:phase, :session_id and :winner
  lock,      \* whether the key lock:game:<key> exists
  task,      \* the coroutines run_game_cycle
  recovery,  \* recover_interrupted_sessions and the life of its process
  request,   \* place_bet calls in progress
  exits, errors

database == <<wallet, ledger, bets, sessions>>
vars == <<database, redis, lock, task, recovery, request, exits, errors>>

Sides == {"A", "B"}
SessionIds == 1 .. MaxSessions
Wallets == Players \cup {Pool}
SessionStatus == {"NONE", "BETTING", "INITIATING", "RUNNING", "COMPLETED", "FAILED"}
BetStatus == {"NONE", "PLACED", "WON", "LOST", "REFUNDED"}
Phase == {"IDLE", "BETTING", "INITIATING", "RUNNING", "SETTLING"}

\* Points of _run_one_cycle inside its try, named for what has just been done.
InTry == {"begin", "inserted", "betting", "closed", "initiating", "running",
          "drawn", "revealed", "settling", "settled", "cooldown"}
InCycle == InTry \cup {"error", "ending"}

Row == [type : {"BET_DEBIT", "BET_WIN_CREDIT", "BET_REFUND", "SYSTEM_POOL_TOPUP"},
        ref : BetIds \cup SessionIds \cup {None},
        from : Wallets \cup {None}, to : Wallets \cup {None}, amount : Nat]
Bet == [status : BetStatus, session : SessionIds \cup {None},
        player : Players \cup {None}, side : Sides \cup {None},
        amount : Stakes \cup {0}]
Session == [status : SessionStatus, game : Games \cup {None},
            total : [Sides -> Nat], winner : Sides \cup {None}]
Keys == [phase : Phase, session : SessionIds \cup {None}, winner : Sides \cup {None}]
Task == [pc : InCycle \cup {"down", "wait"}, session : SessionIds \cup {None},
         winner : Sides \cup {None}, batch : SUBSET BetIds]
Recovery == [state : {"down", "recovering", "up"}, todo : SUBSET SessionIds,
             session : SessionIds \cup {None}, batch : SUBSET BetIds]
Request == [stage : {"phase", "checked"}, player : Players, game : Games,
            side : Sides, amount : Stakes]

TypeOK ==
  /\ wallet \in [Wallets -> Nat]
  /\ ledger \subseteq Row
  /\ bets \in [BetIds -> Bet]
  /\ sessions \in [SessionIds -> Session]
  /\ redis \in [Games -> Keys]
  /\ lock \in [Games -> BOOLEAN]
  /\ task \in [Schedulers -> [Games -> Task]]
  /\ recovery \in [Schedulers -> Recovery]
  /\ request \in [Requests -> Request \cup {None}]
  /\ exits \in 0 .. MaxExits /\ errors \in 0 .. MaxErrors

-----------------------------------------------------------------------------
NoBet == [status |-> "NONE", session |-> None, player |-> None, side |-> None,
          amount |-> 0]
NoSession == [status |-> "NONE", game |-> None, total |-> [x \in Sides |-> 0],
              winner |-> None]
TaskAt(pc) == [pc |-> pc, session |-> None, winner |-> None, batch |-> {}]
Down == [state |-> "down", todo |-> {}, session |-> None, batch |-> {}]

\* The tables after the first boot: init_db has seeded an empty pool wallet.
Init ==
  /\ wallet = [o \in Wallets |-> IF o = Pool THEN 0 ELSE InitialBalance[o]]
  /\ ledger = {}
  /\ bets = [b \in BetIds |-> NoBet]
  /\ sessions = [s \in SessionIds |-> NoSession]
  /\ redis = [g \in Games |-> [phase |-> "IDLE", session |-> None, winner |-> None]]
  /\ lock = [g \in Games |-> FALSE]
  /\ task = [i \in Schedulers |-> [g \in Games |-> TaskAt("down")]]
  /\ recovery = [i \in Schedulers |-> Down]
  /\ request = [r \in Requests |-> None]
  /\ exits = 0 /\ errors = 0

FaultyPayout(a) == a + a  \* the fee is forgotten

\* What a winning stake of a returns: money(a + (a - fee)).
Payout(a) == a + (a - FeeOf[a])

PlacedIn(s) == {b \in BetIds : bets[b].session = s /\ bets[b].status = "PLACED"}
FaultyHasRow(type, b) == FALSE  \* no idempotency check
HasRow(type, b) == \E e \in ledger : e.type = type /\ e.ref = b
Transfer(type, ref, from, to, amount) ==
  [type |-> type, ref |-> ref, from |-> from, to |-> to, amount |-> amount]
\* The row says what was staked, not what was paid.
FaultyPaymentRow(type, b, amount) == Transfer(type, b, Pool, bets[b].player, bets[b].amount)
PaymentRow(type, b, amount) == Transfer(type, b, Pool, bets[b].player, amount)

\* The wallets after the pool, filled up to `pool', has made the payments paid[b].
Paying(pool, paid) ==
  [o \in Wallets |->
     IF o = Pool THEN pool - Total(paid, DOMAIN paid)
     ELSE wallet[o] + Total(paid, {b \in DOMAIN paid : bets[b].player = o})]

\* The bets after each one in batch has been given its status.
Mark(batch, status) ==
  [b \in BetIds |-> IF b \in batch THEN [bets[b] EXCEPT !.status = status[b]] ELSE bets[b]]

SetTask(i, g, t) == task' = [task EXCEPT ![i][g] = t]
Move(i, g, from, to) ==
  task[i][g].pc = from /\ SetTask(i, g, [task[i][g] EXCEPT !.pc = to])

-----------------------------------------------------------------------------
(* Bets: GameOrchestrator.place_bet, run by a web worker.                  *)

\* The Redis phase is read; the answer may be stale when it is used.
ReadPhase(r) ==
  /\ request[r] = None
  /\ \E p \in Players, g \in Games, x \in Sides, a \in Stakes :
       /\ redis[g].phase = "BETTING"
       /\ request' = [request EXCEPT ![r] =
            [stage |-> "phase", player |-> p, game |-> g, side |-> x, amount |-> a]]
  /\ UNCHANGED <<database, redis, lock, task, recovery, exits, errors>>

\* active_game_for_player: the newest unfinished session with a placed bet of p.
ActiveSessions(p) ==
  {s \in SessionIds : /\ sessions[s].status \in {"BETTING", "INITIATING", "RUNNING"}
                      /\ \E b \in PlacedIn(s) : bets[b].player = p}

CheckActive(r) ==
  /\ request[r] # None /\ request[r].stage = "phase"
  /\ LET active == ActiveSessions(request[r].player)
         newest == {s \in active : \A t \in active : t <= s}
     IN request' = [request EXCEPT ![r] =
          IF \A s \in newest : sessions[s].game = request[r].game
          THEN [request[r] EXCEPT !.stage = "checked"]
          ELSE None]
  /\ UNCHANGED <<database, redis, lock, task, recovery, exits, errors>>

\* The newest session of g, open or not.
FaultyOpenSession(g) ==
  LET all == {s \in SessionIds : sessions[s].game = g}
  IN {s \in all : \A t \in all : t <= s}

\* The newest BETTING session of g, locked FOR UPDATE.
OpenSession(g) ==
  LET open == {s \in SessionIds : sessions[s].game = g /\ sessions[s].status = "BETTING"}
  IN {s \in open : \A t \in open : t <= s}

FaultyAccepted(q) == OpenSession(q.game) # {}  \* no look at the balance
Accepted(q) == OpenSession(q.game) # {} /\ wallet[q.player] >= q.amount

FaultyTally(s, x, a) == sessions' = [sessions EXCEPT ![s].total["A"] = @ + a]
Tally(s, x, a) == sessions' = [sessions EXCEPT ![s].total[x] = @ + a]

CommitBet(r) ==
  /\ request[r] # None /\ request[r].stage = "checked"
  /\ Accepted(request[r])
  /\ LET q == request[r] IN
     \E s \in OpenSession(q.game), b \in BetIds :
       /\ bets[b].status = "NONE"
       /\ wallet' = [wallet EXCEPT ![q.player] = @ - q.amount, ![Pool] = @ + q.amount]
       /\ ledger' = ledger \cup {Transfer("BET_DEBIT", b, q.player, Pool, q.amount)}
       /\ bets' = [bets EXCEPT ![b] =
            [status |-> "PLACED", session |-> s, player |-> q.player,
             side |-> q.side, amount |-> q.amount]]
       /\ Tally(s, q.side, q.amount)
  /\ request' = [request EXCEPT ![r] = None]
  /\ UNCHANGED <<redis, lock, task, recovery, exits, errors>>

RejectBet(r) ==
  /\ request[r] # None /\ request[r].stage = "checked"
  /\ ~Accepted(request[r])
  /\ request' = [request EXCEPT ![r] = None]
  /\ UNCHANGED <<database, redis, lock, task, recovery, exits, errors>>

-----------------------------------------------------------------------------
(* The cycle: run_game_cycle and _run_one_cycle, one coroutine per game.   *)

Acquire(i, g) ==
  /\ Move(i, g, "wait", "begin")
  /\ ~lock[g]
  /\ lock' = [lock EXCEPT ![g] = TRUE]
  /\ UNCHANGED <<database, redis, recovery, request, exits, errors>>

InsertSession(i, g) ==
  /\ task[i][g].pc = "begin"
  /\ \E s \in SessionIds :
       /\ sessions[s].status = "NONE"
       /\ \A t \in SessionIds : t < s => sessions[t].status # "NONE"
       /\ sessions' = [sessions EXCEPT ![s] = [@ EXCEPT !.status = "BETTING", !.game = g]]
       /\ SetTask(i, g, [task[i][g] EXCEPT !.pc = "inserted", !.session = s])
  /\ UNCHANGED <<wallet, ledger, bets, redis, lock, recovery, request, exits, errors>>

ShowBetting(i, g) ==
  /\ Move(i, g, "inserted", "betting")
  /\ redis' = [redis EXCEPT ![g] =
       [phase |-> "BETTING", session |-> task[i][g].session, winner |-> None]]
  /\ UNCHANGED <<database, lock, recovery, request, exits, errors>>

SetStatus(i, g, status) ==
  sessions' = [sessions EXCEPT ![task[i][g].session].status = status]

CloseBetting(i, g) ==
  /\ Move(i, g, "betting", "closed")
  /\ SetStatus(i, g, "INITIATING")
  /\ UNCHANGED <<wallet, ledger, bets, redis, lock, recovery, request, exits, errors>>

Show(g, phase) == redis' = [redis EXCEPT ![g].phase = phase]

ShowInitiating(i, g) ==
  /\ Move(i, g, "closed", "initiating")
  /\ Show(g, "INITIATING")
  /\ UNCHANGED <<database, lock, recovery, request, exits, errors>>

ShowRunning(i, g) ==
  /\ Move(i, g, "initiating", "running")
  /\ Show(g, "RUNNING")
  /\ UNCHANGED <<database, lock, recovery, request, exits, errors>>

\* A draw that nobody steers.
FaultyFavoured(s) == Sides

\* _bias: the side with the smaller total, either one when they are equal.
Favoured(s) ==
  {w \in Sides : \A x \in Sides : sessions[s].total[w] <= sessions[s].total[x]}

\* The engine deals until a favoured side wins.
DrawResult(i, g) ==
  /\ task[i][g].pc = "running"
  /\ \E w \in Favoured(task[i][g].session) :
       SetTask(i, g, [task[i][g] EXCEPT !.pc = "drawn", !.winner = w])
  /\ SetStatus(i, g, "RUNNING")
  /\ UNCHANGED <<wallet, ledger, bets, redis, lock, recovery, request, exits, errors>>

\* The players are told the winner before anything is settled.
RevealWinner(i, g) ==
  /\ Move(i, g, "drawn", "revealed")
  /\ redis' = [redis EXCEPT ![g].winner = task[i][g].winner]
  /\ UNCHANGED <<database, lock, recovery, request, exits, errors>>

\* Settlement by the side the players were not shown.
FaultyWinners(t) == {b \in t.batch : bets[b].side # t.winner}
Winners(t) == {b \in t.batch : bets[b].side = t.winner}

\* _settle_bets reads the bets without locking them ...
ReadBets(i, g) ==
  /\ task[i][g].pc = "revealed"
  /\ SetTask(i, g, [task[i][g] EXCEPT !.pc = "settling",
                                      !.batch = PlacedIn(task[i][g].session)])
  /\ UNCHANGED <<database, redis, lock, recovery, request, exits, errors>>

\* ... and pays in one transaction, which also completes the session.  The pool
\* is filled up for all winners; one already paid is not paid again.
SettleBets(i, g) ==
  /\ Move(i, g, "settling", "settled")
  /\ LET t       == task[i][g]
         winners == Winners(t)
         prize   == [b \in winners |-> Payout(bets[b].amount)]
         pool    == Larger(wallet[Pool], Total(prize, winners))
         payees  == {b \in winners : ~HasRow("BET_WIN_CREDIT", b)}
         topUp   == IF pool = wallet[Pool] THEN {}
                    ELSE {Transfer("SYSTEM_POOL_TOPUP", t.session, None, Pool,
                                   pool - wallet[Pool])}
     IN /\ \E paid \in Payments(pool, [b \in payees |-> prize[b]]) :
             /\ wallet' = Paying(pool, paid)
             /\ ledger' = ledger \cup topUp
                            \cup {PaymentRow("BET_WIN_CREDIT", b, paid[b]) : b \in payees}
        /\ bets' = Mark(t.batch, [b \in t.batch |-> IF b \in winners THEN "WON" ELSE "LOST"])
        /\ sessions' = [sessions EXCEPT ![t.session] =
                           [@ EXCEPT !.status = "COMPLETED", !.winner = t.winner]]
  /\ UNCHANGED <<redis, lock, recovery, request, exits, errors>>

\* The cooldown is shown before the bets are settled, not after.
FaultyShowSettling(i, g) ==
  /\ Move(i, g, "revealed", "cooldown")
  /\ Show(g, "SETTLING")
  /\ UNCHANGED <<database, lock, recovery, request, exits, errors>>

ShowSettling(i, g) ==
  /\ Move(i, g, "settled", "cooldown")
  /\ Show(g, "SETTLING")
  /\ UNCHANGED <<database, lock, recovery, request, exits, errors>>

\* A database or Redis call inside the try raises; an open transaction rolls back.
Raise(i, g) ==
  /\ task[i][g].pc \in InTry /\ errors < MaxErrors
  /\ SetTask(i, g, [task[i][g] EXCEPT !.pc = "error"])
  /\ errors' = errors + 1
  /\ UNCHANGED <<database, redis, lock, recovery, request, exits>>

\* The handler also marks the bets of the session, whatever their status.
FaultyFailSession(i, g) ==
  /\ Move(i, g, "error", "ending")
  /\ task[i][g].session # None
  /\ SetStatus(i, g, "FAILED")
  /\ LET all == {b \in BetIds : bets[b].session = task[i][g].session}
     IN bets' = Mark(all, [b \in all |-> "REFUNDED"])
  /\ UNCHANGED <<wallet, ledger, redis, lock, recovery, request, exits, errors>>

\* The handler fails the session, whatever its status ...
FailSession(i, g) ==
  /\ Move(i, g, "error", "ending")
  /\ task[i][g].session # None => SetStatus(i, g, "FAILED")
  /\ task[i][g].session = None => UNCHANGED sessions
  /\ UNCHANGED <<wallet, ledger, bets, redis, lock, recovery, request, exits, errors>>

\* ... or cannot reach the database, and passes.
LeaveSession(i, g) ==
  /\ Move(i, g, "error", "ending")
  /\ UNCHANGED <<database, redis, lock, recovery, request, exits, errors>>

Idle(keys) == [keys EXCEPT !.phase = "IDLE", !.session = None]

\* The finally clause, after the cooldown or the handler.
ShowIdle(i, g) ==
  /\ task[i][g].pc \in {"cooldown", "ending"}
  /\ SetTask(i, g, TaskAt("begin"))
  /\ redis' = [redis EXCEPT ![g] = Idle(@)]
  /\ UNCHANGED <<database, lock, recovery, request, exits, errors>>

\* Nobody alive refreshes the lock of g.
Unrefreshed(g) == \A i \in Schedulers : task[i][g].pc \notin InCycle

\* The lock's time to live runs out: nobody is left to refresh it, or its holder is
\* dealing cards, for longer than ttl_ms and without a refresh.  Nothing tells it.
Expire(g) ==
  /\ lock[g]
  /\ Unrefreshed(g) \/ \E i \in Schedulers : task[i][g].pc = "drawn"
  /\ lock' = [lock EXCEPT ![g] = FALSE]
  /\ UNCHANGED <<database, redis, task, recovery, request, exits, errors>>

-----------------------------------------------------------------------------
(* The process: main and recover_interrupted_sessions.                     *)

\* The process is killed, or ends on an exception or a cancellation: then each
\* coroutine in its cycle may still run its finally clauses.
Exit(i) ==
  /\ recovery[i].state # "down" /\ exits < MaxExits
  /\ \E idle, released \in SUBSET {g \in Games : task[i][g].pc \in InCycle} :
       /\ redis' = [g \in Games |-> IF g \in idle
            THEN Idle(redis[g]) ELSE redis[g]]
       /\ lock' = [g \in Games |-> lock[g] /\ g \notin released]
  /\ task' = [task EXCEPT ![i] = [g \in Games |-> TaskAt("down")]]
  /\ recovery' = [recovery EXCEPT ![i] = Down]
  /\ exits' = exits + 1
  /\ UNCHANGED <<database, request, errors>>

\* Only sessions whose game was being played.
FaultyUnfinished == {s \in SessionIds : sessions[s].status = "RUNNING"}
Unfinished == {s \in SessionIds : sessions[s].status \notin {"NONE", "COMPLETED", "FAILED"}}

\* Recovery runs before any lock is asked for.
Start(i) ==
  /\ recovery[i].state = "down"
  /\ recovery' = [recovery EXCEPT ![i] =
       [@ EXCEPT !.state = "recovering", !.todo = Unfinished]]
  /\ UNCHANGED <<database, redis, lock, task, request, exits, errors>>

ReadStuck(i) ==
  /\ recovery[i].state = "recovering" /\ recovery[i].session = None
  /\ \E s \in recovery[i].todo :
       recovery' = [recovery EXCEPT ![i] =
         [@ EXCEPT !.session = s, !.batch = PlacedIn(s), !.todo = recovery[i].todo \ {s}]]
  /\ UNCHANGED <<database, redis, lock, task, request, exits, errors>>

\* The stakes read before go back as far as the pool reaches; the session fails.
\* A refund of nothing writes no row.
RefundSession(i) ==
  /\ recovery[i].session # None
  /\ LET batch == recovery[i].batch
         owed  == {b \in batch : ~HasRow("BET_REFUND", b)}
     IN /\ \E paid \in Payments(wallet[Pool], [b \in owed |-> bets[b].amount]) :
             /\ wallet' = Paying(wallet[Pool], paid)
             /\ ledger' = ledger \cup
                  {PaymentRow("BET_REFUND", b, paid[b]) : b \in {c \in owed : paid[c] > 0}}
        /\ bets' = Mark(batch, [b \in batch |-> "REFUNDED"])
  /\ sessions' = [sessions EXCEPT ![recovery[i].session].status = "FAILED"]
  /\ recovery' = [recovery EXCEPT ![i] = [@ EXCEPT !.session = None, !.batch = {}]]
  /\ UNCHANGED <<redis, lock, task, request, exits, errors>>

EndRecovery(i) ==
  /\ recovery[i].state = "recovering"
  /\ recovery[i].session = None /\ recovery[i].todo = {}
  /\ recovery' = [recovery EXCEPT ![i].state = "up"]
  /\ task' = [task EXCEPT ![i] = [g \in Games |-> TaskAt("wait")]]
  /\ UNCHANGED <<database, redis, lock, request, exits, errors>>

-----------------------------------------------------------------------------
Bettor(r) == ReadPhase(r) \/ CheckActive(r) \/ CommitBet(r) \/ RejectBet(r)

Cycle(i, g) ==
  \/ Acquire(i, g) \/ InsertSession(i, g) \/ ShowBetting(i, g) \/ CloseBetting(i, g)
  \/ ShowInitiating(i, g) \/ ShowRunning(i, g) \/ DrawResult(i, g)
  \/ RevealWinner(i, g) \/ ReadBets(i, g) \/ SettleBets(i, g)
  \/ ShowSettling(i, g)
  \/ FailSession(i, g) \/ LeaveSession(i, g) \/ ShowIdle(i, g)

Recover(i) == Start(i) \/ ReadStuck(i) \/ RefundSession(i) \/ EndRecovery(i)

\* The bound on sessions is reached and every coroutine is between two cycles.
OutOfSessions ==
  /\ \A s \in SessionIds : sessions[s].status # "NONE"
  /\ \A i \in Schedulers, g \in Games : task[i][g].pc \in {"begin", "wait"}
  /\ UNCHANGED vars

Next ==
  \/ \E r \in Requests : Bettor(r)
  \/ \E i \in Schedulers, g \in Games : Cycle(i, g) \/ Raise(i, g)
  \/ \E g \in Games : Expire(g)
  \/ \E i \in Schedulers : Exit(i) \/ Recover(i)
  \/ OutOfSessions

Spec == Init /\ [][Next]_vars

\* The event loop runs every coroutine, docker restarts a process that ended
\* (restart: unless-stopped), and Redis drops a key nobody refreshes.
Fairness ==
  /\ \A i \in Schedulers : WF_vars(Recover(i))
  /\ \A i \in Schedulers, g \in Games : WF_vars(Cycle(i, g))
  /\ \A g \in Games : WF_vars(Unrefreshed(g) /\ Expire(g))

FairSpec == Spec /\ Fairness

-----------------------------------------------------------------------------
(* What the rounds promise.                                                *)

Credits(b) == {e \in ledger : e.type \in {"BET_WIN_CREDIT", "BET_REFUND"} /\ e.ref = b}
RowTotal(rows) == Total([e \in rows |-> e.amount], rows)

\* Every balance is what the wallet held at first, plus what the ledger says went
\* in, less what it says went out: no update of a wallet is lost or unrecorded.
LedgerBalances ==
  \A o \in Wallets :
    wallet[o] + RowTotal({e \in ledger : e.from = o})
      = (IF o = Pool THEN 0 ELSE InitialBalance[o])
          + RowTotal({e \in ledger : e.to = o})

\* A bet is credited at most once, and as its status says: a won bet with exactly
\* its payout, a refunded one with at most its stake, any other with nothing.
\* Payout and refund have different idempotency keys, so no unique index sees to it.
CreditedAsResolved ==
  \A b \in BetIds :
    CASE bets[b].status = "WON" ->
           Credits(b) = {Transfer("BET_WIN_CREDIT", b, Pool, bets[b].player,
                                  2 * bets[b].amount - FeeOf[bets[b].amount])}
      [] bets[b].status = "REFUNDED" ->
           \/ Credits(b) = {}
           \/ \E n \in 1 .. bets[b].amount :
                Credits(b) = {Transfer("BET_REFUND", b, Pool, bets[b].player, n)}
      [] OTHER -> Credits(b) = {}

\* A completed session has settled every bet on it, by its winner: none is left
\* placed, none was refunded, although bets arrive until betting closes and
\* settlement works on a list it read without locks.
SettledByWinner ==
  \A s \in SessionIds : sessions[s].status = "COMPLETED" =>
    \A b \in BetIds : bets[b].session = s =>
      bets[b].status = IF bets[b].side = sessions[s].winner THEN "WON" ELSE "LOST"

Staked == [b \in BetIds |-> bets[b].amount]

\* The pool can return every open stake at any time, although all games pay their
\* winners out of it and no step of recovery fills it up: what a round pays never
\* exceeds what was staked on it, because the engine favours the smaller side.
PoolCoversStakes ==
  wallet[Pool] >= Total(Staked, {b \in BetIds : bets[b].status = "PLACED"})

\* A refunded bet has its whole stake back, though recovery pays min(stake, pool):
\* the cap never bites.
RefundedInFull ==
  \A b \in BetIds : bets[b].status = "REFUNDED" =>
    Transfer("BET_REFUND", b, Pool, bets[b].player, bets[b].amount) \in ledger

BetsOn(s, x) == {b \in BetIds : bets[b].session = s /\ bets[b].side = x}

\* The totals the engine is biased by are those of the bets that will be settled.
TotalsMatchStakes ==
  \A s \in SessionIds, x \in Sides : sessions[s].total[x] = Total(Staked, BetsOn(s, x))

\* While the cooldown is shown, the round it is shown for has no open bet left and
\* was settled by the winner the players were told.
ShownAsSettled ==
  \A g \in Games : redis[g].phase = "SETTLING" =>
    /\ PlacedIn(redis[g].session) = {}
    /\ sessions[redis[g].session].winner = redis[g].winner

\* Once betting has closed, no late bet changes the totals of a session.
ClosedTotalsFixed ==
  [][\A s \in SessionIds : sessions[s].status \notin {"NONE", "BETTING"} =>
       sessions'[s].total = sessions[s].total]_vars

\* A bet that was won, lost or refunded is never resolved again: not by recovery
\* after a crash, not by a later cycle.
ResolvedBetsStay ==
  [][\A b \in BetIds : bets[b].status \in {"WON", "LOST", "REFUNDED"} =>
       bets'[b] = bets[b]]_vars

\* A bet still open when its session is closed to further bets is resolved, by
\* settlement or, when the process ends in between, by recovery.
ClosedBetsResolve ==
  \A b \in BetIds, s \in SessionIds :
    (b \in PlacedIn(s) /\ sessions[s].status \in {"INITIATING", "RUNNING"})
      ~> (bets[b].status # "PLACED")

\* The rounds, with a single scheduler, are the wagers of module Wager: the players'
\* wallets, the pool and the bets change by its steps only, whatever the processes do.
WagerState == [status \in BetStatus |->
  CASE status = "NONE" -> "none" [] status = "PLACED" -> "open" [] status = "WON" -> "won"
    [] status = "LOST" -> "lost" [] status = "REFUNDED" -> "refunded"]

\* What a winner is promised: the stake twice, less the fee on it.
Promised(a) == 2 * a - FeeOf[a]

Purses == [p \in Players |-> wallet[p]]
Wagers ==
  [b \in BetIds |->
    [state |-> WagerState[bets[b].status], round |-> bets[b].session,
     bettor |-> bets[b].player, side |-> bets[b].side, stake |-> bets[b].amount]]
Over == {s \in SessionIds : sessions[s].status \in {"COMPLETED", "FAILED"}}

W == INSTANCE Wager WITH
  Bettors <- Players, Rounds <- SessionIds, WagerIds <- BetIds,
  Prize <- Promised, Opening <- InitialBalance,
  purse <- Purses, house <- wallet[Pool], wager <- Wagers, over <- Over

ImplementsWager == W!Spec

\* Every session comes to an end.
SessionsEnd ==
  \A s \in SessionIds :
    (sessions[s].status = "BETTING") ~> (sessions[s].status \in {"COMPLETED", "FAILED"})

(* Why a single scheduler keeps its promises: an inductive invariant.      *)

\* The status of a session, by the point its cycle has reached.
Stage == [pc \in InTry \ {"begin"} |->
  CASE pc \in {"inserted", "betting"} -> "BETTING"
    [] pc \in {"closed", "initiating", "running"} -> "INITIATING"
    [] pc \in {"drawn", "revealed", "settling"} -> "RUNNING"
    [] pc \in {"settled", "cooldown"} -> "COMPLETED"]

\* A cycle of g works on a session of g, at the status it left it in.
InStep(t, g) ==
  /\ t.session # None => sessions[t.session].game = g /\ sessions[t.session].status # "NONE"
  /\ t.pc \in DOMAIN Stage =>
       t.session # None /\ sessions[t.session].status = Stage[t.pc]
  /\ t.pc \in {"drawn", "revealed", "settling"} => t.winner # None

CyclesInStep == \A i \in Schedulers, g \in Games : InStep(task[i][g], g)

\* The list settlement works on is the list of all open bets of its session.
ListComplete ==
  \A i \in Schedulers, g \in Games :
    task[i][g].pc = "settling" => task[i][g].batch = PlacedIn(task[i][g].session)

\* Recovery and the cycles of one process never run together, and recovery
\* refunds unfinished sessions only.
RecoveryAlone ==
  \A i \in Schedulers :
    /\ recovery[i].state # "up" => \A g \in Games : task[i][g].pc = "down"
    /\ recovery[i].state # "recovering" => recovery[i].session = None
    /\ recovery[i].state = "recovering" => recovery[i].todo \subseteq Unfinished
    /\ recovery[i].session # None =>
         /\ recovery[i].session \in Unfinished \ recovery[i].todo
         /\ recovery[i].batch \subseteq PlacedIn(recovery[i].session)

\* A bet is on a session, and a session that is not over has resolved none.
BetsOnSessions ==
  \A b \in BetIds :
    IF bets[b].status = "NONE"
    THEN bets[b].session = None
    ELSE /\ bets[b].session # None /\ bets[b].side # None
         /\ sessions[bets[b].session].status # "NONE"
         /\ bets[b].status # "PLACED" =>
              sessions[bets[b].session].status \in {"COMPLETED", "FAILED"}

SchedulerInv ==
  /\ CyclesInStep /\ ListComplete /\ RecoveryAlone /\ BetsOnSessions
  /\ CreditedAsResolved /\ SettledByWinner

(* What the documents promise, and the code does not keep.                 *)

\* DATA_FLOW_DIAGRAM.md:344 "... for non-completed sessions": when recovery is
\* over, no session that failed keeps a placed bet.
RecoveryLeavesNoStake ==
  [][\A i \in Schedulers : recovery[i].state = "recovering" /\ recovery'[i].state = "up" =>
       \A b \in BetIds : bets[b].status = "PLACED" =>
         sessions[bets[b].session].status # "FAILED"]_vars
=============================================================================
