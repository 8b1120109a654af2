# Verification of the betting platform

TLA+ specifications of the platform in `src/app`, the TLC configurations that check
them on small instances, and theorems about them with proofs checked by TLAPS.

Run from this directory:

    tlc -workers 2 -config GameRoundMC_one.cfg GameRoundMC
    tlapm GameRoundProofs.tla

`PROJECT.json` lists the parts of the system, the runs, the lines every definition
stands for, the disagreements met between documents and code, the hazards and the
theorems.

## 1. The system

Players bet on side A or B of a round; rounds of three games follow each other without
end. Stateless web workers (FastAPI) take bets, one scheduler process runs the rounds,
Celery workers send mail and clean up, PostgreSQL keeps everything that must last and
Redis everything that is shown or expires.

| Part | State | Operations | Talks to |
| --- | --- | --- | --- |
| Scheduler (`scheduler/game_scheduler.py`) | a coroutine per game; lock held | start and recovery, cycle (open, close, play, deal, settle, cool down), error handler | tables `game_sessions`, `bets`, `wallets`, `wallet_transactions`; Redis keys, lock and channel; pending deletions |
| Bet placement (`services/game_orchestrator.py`) | none of its own | `place_bet`; views of state, bets, totals, winners | Redis phase; the same tables |
| Lock (`core/redis_client.py`) | key `lock:game:<key>` with a time to live | acquire (SET NX PX), refresh (PEXPIRE), release (DEL) | Redis |
| Ledger and wallets (`transactions/ledger.py`, `services/wallet_service.py`) | `wallets`, `wallet_transactions` | transfer between parent and child, administrator's adjustment | called by routes |
| Hierarchy (`services/hierarchy_service.py`) | `accounts`, `pending_account_deletions` | create, status, passwords, delete a subtree, process pending deletions | routes, scheduler, cleanup worker |
| Cleanup (`tasks/cleanup.py`) | archive tables | archive bets, sessions, copy transactions, delete inactive accounts, stuck deletions, validate | daily Celery jobs |
| Sessions and login (`services/session_service.py`, `main.py`) | Redis `active_session`, `conflict` | login, forced login, OTP login, logout, look-up on each request | routes, WebSockets |
| One-time codes, captcha (`services/otp_service.py`, `captcha_service.py`) | Redis keys with a time to live | create, verify, consume, limit the sends | login, creation of agents |
| Fan-out (`realtime/manager.py`) | a worker's open sockets | connect, kick, publish, deliver | Redis Pub/Sub |
| Engines (`games/*.py`) | none | play one round, biased by the totals | called by the scheduler |
| Mail, configuration, templates, browser code, containers | - | I/O and set-up | - |

### Where it is hard

* **Transactions of several processes on the same rows.** A bet debits a player and
  credits the pool; settlement and recovery debit the pool. All games share the pool.
* **Reads that are old when they are used.** The phase in Redis, the check for another
  active round, the bets settlement and recovery read without locks.
* **Ends and restarts.** The scheduler may end between any two steps; recovery must
  refund what is open and nothing that was paid.
* **Errors inside a cycle.** The handler fails the session, whatever was done before.
* **A lock with a time to live**, refreshed at four points of a cycle, released and
  extended without a look at whose it is; recovery does not ask for it.
* **Deletion against play**: accounts go away with their bets and ledger rows.
* **Read-modify-write on Redis** (login, OTP records, send limits).
* **Fan-out without acknowledgement.**

### What makes each part correct

* Rounds: no bet is paid twice, all bets of a completed round are settled by its
  winner, every bet is resolved after its window closes, totals are the stakes, what is
  shown is what was settled.
* Money: balances never drop below zero and always equal what the ledger says.
* Accounts: deletion waits for play and leaves no dangling rows; archived rows are never
  lost or doubled.
* Sessions: at most one session of an account is honoured, and a taken-over one stays
  dead; a one-time code works once.
* Fan-out: a connected client converges on the phase of its game.

## 2. Modules

| Module | Content |
| --- | --- |
| `Money` | sums of amounts and the payments a bounded purse can make |
| `GameRound` | rounds, bets, money, Redis keys, locks, the scheduler's life; properties |
| `Wager` | what a bettor is promised, without processes or failures; `GameRound` implements it |
| `Accounts` | hierarchy, status, transfers, deletion of subtrees now and later, the sweepers; properties |
| `Races` | `Accounts` with the accounts whose deactivation met a write below them; what holds of the hierarchy |
| `Sessions` | captcha, login, forced login, login code, logout, the check of a cookie |
| `Archive` | the jobs that archive bets, sessions and ledger rows, and what writes these tables meanwhile |
| `RowLocks` | the rows each kind of transaction locks, in their order; deadlocks |
| `Codes` | codes that prove an e-mail address: limit, verification, use |
| `Fanout` | state, events, the listener and the WebSockets of one worker |
| `...MC` | small instances for TLC: values of the constants, starts, bounds, symmetry |
| `MoneyProofs` | facts on sums and payments |
| `GameRoundProofs` | I: types, totals and ledger for any number of schedulers; II: one scheduler, its inductive invariant, settlement, cooldown; III: the pool, refunds, and that `GameRound` implements `Wager` |
| `AccountsProofs` | types, `NoDangling`, `BooksBalance`, and `InactiveBelow` of `Races` |
| `SessionsProofs` | types, `RevokedForGood`, `OneUse`, `AskedBeforeReplaced` |
| `ArchiveProofs` | types, `NothingLost`, `ArchivedRoundIsFinal` |
| `CodesProofs` | types, `EmailProven`, `UsedOnce`, `SendsLimited` |
| `FanoutProofs` | types, `NoGap` |
| `RowLocksProofs` | types, `OrderPreventsDeadlock` |

`GameRound` and `Accounts` have a transaction as one step; `RowLocks` opens it up to the
order of its locks. `Archive` and `Accounts` each carry as much of a round as the tables
they work on can see, and `Fanout` as much of it as is published. `Sessions` decides whom
`current_actor` lets in, with which every request of `Accounts` and `Codes` begins.

### `GameRound`

A step is one committed database transaction, one Redis pipeline, or one read whose
result is used after others may have moved. That is the granularity at which the
processes can interleave: in PostgreSQL under READ COMMITTED, rows changed by a
transaction are locked until it commits, and every balance is read under `FOR UPDATE` by
the transaction that writes it.

| Variable | Stands for |
| --- | --- |
| `wallet`, `ledger`, `bets`, `sessions` | the tables, `sessions` numbered by `created_at` |
| `redis` | `game:<key>:phase`, `:session_id`, `:winner` |
| `lock` | whether `lock:game:<key>` exists |
| `task[i][g]` | coroutine of game g in scheduler i: the point reached, `session_id`, `winner`, the list of bets being settled |
| `recovery[i]` | the process: down, recovering (sessions left, bets read), up |
| `request[r]` | a call of `place_bet` between its three steps |

* `place_bet` = `ReadPhase`; `CheckActive`; then `CommitBet` or `RejectBet`.
* A cycle = `InsertSession`, `ShowBetting`, `CloseBetting`, `ShowInitiating`,
  `ShowRunning`, `DrawResult`, `RevealWinner`, `ReadBets`, `SettleBets`, `ShowSettling`,
  `ShowIdle`. `_settle_bets` is one transaction: the lock on the pool's row is taken by
  `_ensure_pool_balance`, before any wallet is read, and lasts to the commit; its nested
  `conn.transaction()` blocks are savepoints. Only the list of bets is read before,
  hence the two steps `ReadBets` and `SettleBets`.
* `Raise` interrupts a cycle anywhere inside the `try`; then `FailSession`, or
  `LeaveSession` when the database cannot be reached, then `ShowIdle` (`finally`).
  An error in `process_pending_deletions` is a `Raise` after the settlement has
  committed: the handler then overwrites COMPLETED, as in the code.
* `Start`, `ReadStuck`, `RefundSession`, `EndRecovery` = `main` and
  `recover_interrupted_sessions`; the refunds of one session are one transaction
  (autocommit is off, the `commit` is at the end of the session).
* `Exit` ends a process at any point: killed, or cancelled, in which case each coroutine
  may or may not still run its `finally` clauses (phase IDLE, release of the lock).
* `Expire` drops a lock nobody alive refreshes, or one whose holder is dealing: Andar
  Bahar deals up to some fifty cards at 3 s each, the lock lives 90 s. (For the two short
  games the second case needs a longer `CARD_DRAWING_DELAY_SECONDS`, which the
  environment may set.)

`Payments` gives every result of paying claims one after the other out of a purse,
each capped by what is left, in the unknown order of a SELECT without ORDER BY.

Abstractions: an amount is a number of coins; identifiers of bets are model values;
cards, timers and published events are left out; the engine's result is any side `_bias`
allows for the totals it is given (`Favoured`: the side with the smaller total, either
when they are equal); accounts and wallets exist throughout and stay
active (no code changes the status of a wallet), so the branches for a missing wallet
are unreachable; a balance never reaches the limit of NUMERIC(18,3).

### `Wager`

A wager moves its stake to the house and is resolved at most once, by one payment or by
none; a round is settled as a whole, by a side no other was staked on less, or called off.
`ImplementsWager` maps wallets, pool, bets and the sessions that are over to it. It holds
with one scheduler. What the refinement adds to the invariants: settlement pays what is
due in full, in one step for all winners, and no cap or top-up of the code ever shows.

### `Accounts`

Web connections are in autocommit mode, so outside `conn.transaction()` each statement is
a transaction of its own. A request is therefore a first step (`current_actor` and the
reads of the route) and a step per statement or transaction after it, with anybody free
to act in between.

| Variable | Stands for |
| --- | --- |
| `account`, `wallet`, `ledger`, `bets`, `pending` | the tables; `changed` and `pending` say whether a time stamp is older than the job's limit |
| `process[x]` | a request, the scheduler's `process_pending_deletions`, or a job of the cleanup worker: the statement it has reached and what it has read |

* `POST /children` = `StartCreate`, `InsertChild`; status = `StartStatus`,
  `UpdateStatus`; deletion = `StartDelete`, `LookForGames`, then either `MarkInactive`,
  `Queue` or `DeleteRows`, `DeleteAccounts`; transfers = `StartTransfer`,
  `CommitTransfer`; a bet = `StartBet`, `PlaceBet`.
* `_delete_accounts` is a transaction, but under READ COMMITTED its statements see
  different snapshots: rows of `bets` and `wallet_transactions` that are committed after
  they were deleted (`DeleteRows`) are seen by the foreign keys when wallets and accounts
  go (`DeleteAccounts`), and then all of it is rolled back (`Blocked`). Children that came
  meanwhile go by ON DELETE CASCADE (`Gone`). Nobody sees anything of it before the commit.
* `StartPending` (scheduler, after each round), `StartStuck` and `StartInactive` (daily
  jobs) read a list of roots; `TakeNext`, `LookAgain`, `DeleteRows`, `DeleteAccounts`,
  `Dequeue` work it off, in any order of the list. An error ends the sweep.
* `EndRound` and the states of a bet stand for all of `GameRound` that
  `_has_active_game` looks at; payouts are not made here.
* `PassTime` lets a time stamp pass the limit of its job.

Abstractions: identifiers are not used again; the reads a request begins with are one
step; passwords, mail and the check of e-mail addresses are left out; a deletion and a
transfer that wait for each other's row locks commit in either order.

`Races` adds a variable that nothing in `Accounts` reads. `raced` collects the accounts
which a request is about to make inactive (`Lowers`: between its read and its write) while
another one is about to create or activate a child directly below them (`RaisesBelow`).

### `Sessions`

| Variable | Stands for |
| --- | --- |
| `live` | the tokens whose key `captcha:`, `conflict:` or `otp:` exists |
| `active` | `active_session:<account>`, the nonce that counts |
| `page` | what each token and nonce was issued for, by which page |
| `cookies`, `shown` | what browsers hold |
| `request` | a submission between two awaits |

* `POST /login` = `VerifyCaptcha`, `VerifyCredentials`, `LookForSession`, then
  `CreateConflictToken`, `CreateLoginCode` or `SetActiveSession`; `/login/force` =
  `ConsumeConflictToken`, `InvalidateSession`, then `CheckStatus` and a code, or a session;
  `/login/otp` = `VerifyLoginCode`, `GetActor`, `SetActiveSession`. `GETDEL` is one step.
* A page may be submitted any number of times, from several tabs at once.
* `Expire` drops any key at any time, `Fail` ends a request between any two steps.
* `page[t].from` and `.looked` are kept for the properties: which page led to a token, and
  how much had been issued when that login saw its account without a session.

Abstractions: passwords, answers and codes are right or wrong; administrators log in as
agents do; accounts without an e-mail address cannot get a code.

### `Archive`

| Variable | Stands for |
| --- | --- |
| `bets`, `sessions`, `ledger` and their `...Archive` | the live tables and their archives |
| `age` | how many of the limits of 30 and 90 days the time stamp of a row has passed |
| `queue`, `waiting` | the jobs queued for the cleanup worker, those waiting for a retry |

Each job is one transaction (`RunJob`); `FailJob` raises, before the commit or in it, and
has `self.retry` put the job behind the others until `max_retries`; `LoseJob` is a worker
that ends in a job it has already acknowledged. Rounds and the deletion of players go on
meanwhile, in steps as coarse as the jobs can see.

### `RowLocks`

A transaction is the sequence of rows it locks, in groups of rows that belong to one
statement or one bet, taken from the code in its order: `Ordered` for two wallets under
`SELECT ... ORDER BY wallet_id FOR UPDATE`, `Each` for groups in the order of a list
without ORDER BY, which is left open. `Lock` takes the row that comes next (`Wanted`),
one that is held already included: settlement comes back to the pool's wallet with each
winner. The id of the pool's wallet is random (`database.py`, seed), so it may come
before or after a player's. Each game has a session that is open for betting, and a row
for it: `place_bet` locks the row of its own game, so that bets on different games, and
transfers between their players, have wallets locked at the same time. The scheduler runs
one transaction at a time, since its calls to the database block its event loop. `Abort`
is PostgreSQL's deadlock detection.

### `Codes`

| Variable | Stands for |
| --- | --- |
| `stamps` | `otp_rate:...`, as ages in ticks of the cooldown; `sends` are all sends |
| `codes`, `live`, `marked` | `child_otp:<token>`: its address, whether the key exists, `verified` |
| `agents` | the addresses in `accounts` |
| `proven`, `uses`, `shared` | kept for the properties |

* sending = `ReadStamps`, `WriteStamps`, `CreateChildEmailOtp`; verifying = `ReadCode`,
  `Mark`; `POST /children` = `Require`, `EmailExists`, `CreateChild`, `Consume`.
* `Tick` is a minute; a request takes less than that from reading the stamps to writing
  them. (One that stalled for the whole window would write old stamps over newer ones.)

Abstractions: the client's IP address, which is a part of the key of the stamps, is fixed;
the account of a player, which needs no code, is in `Accounts`.

### `Fanout`

One worker; workers share nothing but the channel. Of a state or an event only whether it
is the latest counts (`Tag`): `SetState` makes old whatever has been read, published or
shown before, so that any number of rounds fits in a finite model.

* `SetState`, `Publish`, `ExitScheduler` = the scheduler; `Subscribe`, `Deliver`, `Send`,
  `LoseRedis` = the listener and `_deliver`, whose sends run concurrently.
* `game_ws` = `Connect`, `Register`, `ReadState`, `SendState`, `EndHandler`, with
  `RefuseGame` for an unknown game. It takes a database connection with a blocking call
  and keeps it: where the pool is empty the event loop stands still (`hangs`) until the
  pool's timeout (`PoolTimeout`).

Abstraction: the filter of events by role; every client gets every event.

## 3. Runs

| Run | Instance | Question |
| --- | --- | --- |
| `one` | 1 scheduler, 1 game, 2 players with 6 coins, 2 bets of 4, 2 sessions, 2 process ends, 1 error | do the rounds keep every promise, and the invariant of the proofs? do they implement `Wager`? |
| `two` | 2 schedulers, 1 game, 2 bets, 1 process end | which promises survive a second scheduler? |
| `live` | 1 scheduler, 2 bets, 2 sessions, 1 process end, fairness | does every bet and every session come to an end? |
| `error` | 1 game, 1 bet | recovery leaves no stake behind (violated) |
| `races` | 2 agents with a stake, 1 account to come, 2 requests and both sweepers, two of them at a time | can the hierarchy become inconsistent, and where? |
| `accounts_live` | two starts: 1 account to come; 2 agents with a stake and a payment under way. 2 bets, 5 ledger rows, 2 requests, both sweepers, fairness | do rows survive what they refer to? are balances kept? is a deferred deletion carried out? |
| `accounts_deletion` | 1 account, 1 bet, 2 requests | deletion waits for the round (violated) |
| `login` | 1 account of either role, 2 submissions, 4 login pages, 7 further tokens | is a page used once, is a session that ended gone for good, is a new one asked for? |
| `archive` | 1 session, 2 bets, 3 jobs, 1 retry each, fairness | is a row lost, doubled, archived too early, or never? |
| `locks` | scheduler and 2 others, 3 wallets, 2 games, 2 bets, fairness | which transactions can wait in a circle? |
| `codes` | 1 creator, 2 addresses, 2 requests, 2 codes | is an address proven, a code used once, the sending limited? |
| `fanout` | 2 clients, 2 connections, 2 events on the way, fairness | does a client miss a state, and does it catch up? |

**Bounds.** `MaxSessions` = 2 lets a session be recovered while a later one runs, and a
stuck session be older than the open one. Two bets give a winner and a loser in one
round, a round that is partly refunded, and a purse that suffices for the first claim
but not the second. Six coins and stakes of four let one bet through and reject the
second of the same player until the first is paid back. Two process ends allow recovery
itself to be interrupted and repeated. One error per behaviour reaches each point of the
cycle. A fee of a quarter keeps payout, stake and twice the stake apart.
Two bets also let one stay open on a session that an error has failed, or that recovery has
not reached, while the next session pays out of the same pool: what two games would share.

In `Accounts` the runs begin with what several requests have built up, so that the
interesting part fits. Each start is a state that the module reaches from its own `Init`.

* `races` starts with a chain of two agents, the lower one with its only coin staked in a
  round that goes on, and has one account to come. Deletions therefore find a round in
  progress, mark the subtree inactive and queue it, and are carried out once the round has
  ended, while another request creates, activates or deactivates at either level. Three
  levels are what it takes to go wrong below the account that was switched. Of requests
  and sweepers two are under way at a time, as many as a race has; in two of them any
  order of read and write occurs. Payments do not touch statuses and are left out, and
  no time passes, so that the daily jobs find nothing to do: they delete whole subtrees,
  as the scheduler does.
* `accounts_live` cannot use symmetry. One of its starts has no account yet: everything
  happens to one account, from its creation on, time and daily jobs included. The other
  has the chain, the stake of the lower agent, and a transfer or a bet by the upper one
  under way. The upper agent and the lower one can both be queued, because of the stake.
  The payment may be committed between the two statements of a queued deletion, which
  is then rolled back, with the rest of the queue waiting for the next round. In this
  start the requests are that payment and whatever statuses and deletions are asked for.

In `Sessions`, four login pages are what it takes for a session, a second login that is
sent to the confirmation and two more that overlap it; seven tokens let each of them get
as far as it can. In `Archive`, two bets of one session are resolved and age separately,
and one retry already puts a job behind those that were to follow it; the code has three.
Three jobs at a time keep one day's from overlapping with the next day's, which adds no
order of two jobs that a retry does not give.
In `RowLocks`, two players and the pool in any order of ids give winners before and after
it, two games let two bets hold wallets at once, and three transactions form circles of two
and of three. With wallets locked
as they come, two opposite transfers form one. In `Codes`, two codes for one
address or for two, and a window of three ticks with room for two sends, reach both limits
and let stamps leave the window. In `Fanout`, a pool of two is full with two clients, or
with one and a route; two events wait when one is sent while the other is on the way.

**Deadlock** is checked unless nothing has to happen next. It is not in the runs of
`Accounts`: nobody has to send a request, and with identifiers used up nothing is left to
do. It is not in `locks`: each transaction ends, and runs once. In `GameRound`, where
sessions are bounded, a system in which every coroutine waits to open a session it may not
open stutters (`OutOfSessions`) and any other deadlock is reported.

**Symmetry** is used over players, rows, login pages, addresses and requests, in the runs
without liveness only, where none of them is named in a definition.

**Fairness.**
* `GameRound`: weak fairness of each coroutine and of recovery: the event loop runs what is
  ready, and docker restarts the process (`restart: unless-stopped`). Weak fairness of the
  expiry of a lock nobody refreshes: Redis drops the key. No fairness of bets, errors or
  exits. `live` has `MaxErrors` = 0 because after an error the code does leave bets open
  for ever, which is what `error` shows.
* `Accounts`: rounds end (what `live` shows) and the scheduler calls
  `process_pending_deletions` after each; nothing is assumed of requests and of the
  cleanup worker.
* `Archive`: beat queues the jobs every day, a retry comes when it is due (weak), and a job
  that is run again and again does not fail every time (strong). Rounds need not go on.
* `RowLocks`: a transaction whose row is free gets it, one that has all its rows commits,
  and PostgreSQL resolves a circle.
* `Fanout`: rounds go on and get published, and the event loop gets to the listener and to
  each handler that is ready, strongly, since the loop may hang and go on. No fairness of
  `Subscribe`: the listener's task may be dead, which `Converges` has as a premise. It has
  a second one, `CaughtUp` again and again: between two rounds states follow each other
  without a pause, but the betting window lasts 40 seconds.

### Properties

* `LedgerBalances`: each balance equals its start plus what the ledger says came in less
  what went out. Broken by a lost update, an unrecorded top-up, or a payment repeated
  under the key of an earlier one. Holds for two schedulers as well.
* `CreditedAsResolved`: at most one credit per bet, of the type and amount its status
  says. The two credits have different idempotency keys, so no unique index protects it.
* `SettledByWinner`: settlement works on a list read without locks, and still no bet of a
  completed session is left out.
* `PoolCoversStakes`, `RefundedInFull`: recovery refunds at most what is in the pool and
  does not fill it up. That it never falls short is due to the engines alone, which
  favour the smaller side: with an unbiased winner both properties fail.
* `TotalsMatchStakes`, `ClosedTotalsFixed`: the figures the engine is biased by.
* `ShownAsSettled`: while the cooldown is shown, the session is settled and its winner is
  the one the players saw.
* `ResolvedBetsStay`: nothing resolves a bet twice.
* `ImplementsWager`: see `Wager` above.
* `ClosedBetsResolve`, `SessionsEnd`: progress.
* `NoDangling`: bets, ledger rows and children never refer to an account that has gone,
  although the statements of a deletion do not see the rows it races with; foreign keys
  and rollback do. It is what `validate_wallet_integrity_job` looks for in part.
* `BooksBalance`: as long as nothing is deleted, balances equal the ledger.
* `InactiveBelow`: nothing active is left below something inactive, whatever overlaps, but
  for the children of an account whose deactivation met a write below it. The exception is
  named account by account; everything else holds for any number of requests.
* `PendingGoes`: a queued deletion is carried out although it is put off while rounds go
  on, rolled back when rows arrive, and kept waiting by one before it that is; a bet left
  PLACED on a FAILED session does not hold it up.
* `OneUse`, `RevokedForGood`: submissions that overlap lead on once, and no order of
  logins, logouts and expiries makes an old cookie good again.
* `AskedBeforeReplaced`: a session is replaced unasked only if it began while the login
  that replaces it was under way.
* `NothingLost`, `ArchivedRoundIsFinal`, `OldRowsArchived`: jobs that fail after their
  commit run twice, and out of order; what a round leaves in the archives is complete.
* `OrderPreventsDeadlock`: bets and transfers never wait for one another in a circle,
  whichever games the bets are on. Every circle has a settlement, a recovery or a deletion
  in it that wants a row before one it has locked (`GoesBack`: sessions, then wallets by
  id), or a deletion that has locked bets. `EveryTransactionEnds`: no circle stays.
* `EmailProven`: the unique index, the token and its mark together tie every agent to an
  address its creator has proven. `UsedOnce`: when a code can make a second agent.
  `SendsLimited`: how far overlapping sends exceed the limit, and no further.
* `NoGap`: registering before reading leaves no state between the two. `Converges`: an
  event and the first state may overtake each other, the next event puts it right.
  `ClosedAreForgotten`: whichever of handler, listener and kick finds a socket closed,
  it is forgotten and its connection returned.

Each of them has a mutant: a variant of a mapped definition with a plausible bug
(`Faulty...`) under which TLC finds it violated in the same configuration.

### What the runs say against the documents

1. `error`: a cycle that raises leaves its bets PLACED on a FAILED session, which
   recovery skips (`game_scheduler.py:417`, `490`).
2. `accounts_deletion`: the look at the rounds and the deletion are separate
   transactions; a bet in between vanishes (`hierarchy_service.py:164`).

The same models contain behaviours that readers of the documents may not expect.

Rounds and accounts:
* a player can have open bets on two games, by two requests that overlap
  (`game_orchestrator.py:234`, `templates/games.html:28`);
* a second scheduler recovers before it asks for a lock, so that a bet can be paid out and
  refunded (`game_scheduler.py:578`); one scheduler is what the deployment notes ask for;
* a bet committed while recovery works on its session stays PLACED
  (`game_scheduler.py:495`); the lock of a game can run out under its holder
  (`game_scheduler.py:247`); an error after the settlement turns COMPLETED into FAILED;
* an account deactivated during its request still bets (`main.py:821`); the cleanup worker
  deletes an account activated since it looked (`cleanup.py:300`); a child inserted or
  activated while its parent is deactivated stays active (`hierarchy_service.py:101`, `152`);
* deletion removes ledger rows, those that account for the balances of parent and pool
  included, where `README.md:235` speaks of ledger entries that bring wallets to zero.

Login:
* `README.md:267` promises a confirmation before a session is replaced; two logins that
  both saw no session, or a login code that was sent before another login, replace it
  without one (`main.py:230`, `314`);
* a confirmation ends whichever session is active when it is used (`main.py:266`), and a
  logout whichever is active when it is sent, by the cookie of an older one too
  (`main.py:326`);
* a forced login of a player does not look at the status (`main.py:297`; `current_actor`
  does, at the next request);
* the key of a session lives eight hours, the cookie as long as the configuration says,
  where `session_service.py:14` has them equal;
* a forced login closes the sockets of its own worker only (`main.py:274`).

Archives:
* "bets are always archived before game_sessions" (`cleanup.py:475`) does not hold when the
  first job is retried; the NOT EXISTS (`cleanup.py:123`) is what keeps the order;
* bets left PLACED on a FAILED session keep both in the live tables for ever.

Row locks:
* the orders that `game_orchestrator.py:258` and `ledger.py:50` take do prevent deadlock
  among bets and transfers. Settlement locks the pool first and players in any order,
  recovery wallets in any order and before the session row that `place_bet` locks first,
  deletion bets before wallets and these in any order: with each of them circles form, and PostgreSQL rolls one transaction
  back. A settlement that is rolled back fails its round, with the bets left PLACED.

Codes:
* a verification under way brings back a code that was used or has expired
  (`otp_service.py:82`); sends that overlap count as one (`otp_service.py:145`); a mail
  that fails after the account is created leaves the code unused (`main.py:392`).

Fan-out:
* the listener's task ends for good when the client library raises
  (`realtime/manager.py:116`): clients stay connected and are sent nothing more;
* a WebSocket holds a database connection for its lifetime, and the next one that finds
  the pool empty stops the worker's event loop until the pool's timeout (`main.py:849`);
* the socket of an unknown game stays registered until a send to it fails
  (`main.py:863`).

## 4. Proofs

Every invariant and every action property of the runs that hold is a theorem, for all
values of the constants that satisfy the assumption of the module, and so is the
refinement of `Wager`. What is left to TLC is in the last part of this section.

| Theorem | States | Beyond the module's assumption |
| --- | --- | --- |
| `PaymentsBound`, `PaymentsInFull` | what a purse can pay | - |
| `TypeCorrect` | `Spec => []TypeOK` of `GameRound` | - |
| `ClosedTotals`, `TotalsCorrect` | `ClosedTotalsFixed`, `TotalsMatchStakes` | - |
| `LedgerCorrect` | `LedgerBalances` | - |
| `SchedulerInvariant` | `SchedulerInv` | one scheduler |
| `CreditedOnce`, `SettledCorrectly`, `ResolvedForGood` | `CreditedAsResolved`, `SettledByWinner`, `ResolvedBetsStay` | one scheduler |
| `CooldownSettled` | `ShownAsSettled` | one scheduler |
| `PoolCovers`, `RefundsInFull` | `PoolCoversStakes`, `RefundedInFull` | one scheduler |
| `RoundsImplementWager` | `ImplementsWager` | one scheduler |
| `AccountTypes`, `NothingDangles`, `WalletsAgreeWithLedger` | `TypeOK`, `NoDangling`, `BooksBalance` of `Accounts` | - |
| `NoneActiveBelow` | `RaceSpec => []InactiveBelow` of `Races` | - |
| `SessionTypes`, `RevokedStays`, `PagesUsedOnce`, `ReplacedKnowingly` | `TypeOK`, `RevokedForGood`, `OneUse`, `AskedBeforeReplaced` of `Sessions` | - |
| `ArchiveTypes`, `RowsKept`, `FinalInArchive` | `TypeOK`, `NothingLost`, `ArchivedRoundIsFinal` of `Archive` | - |
| `CodesTypes`, `AccountsProven`, `CodesUsedOnce`, `SendsAreLimited` | `TypeOK`, `EmailProven`, `UsedOnce`, `SendsLimited` of `Codes` | - |
| `FanoutTypes`, `NothingMissed` | `TypeOK`, `NoGap` of `Fanout` | - |
| `RowLocksTypes`, `LocksInOrder` | `TypeOK`, `OrderPreventsDeadlock` of `RowLocks` | - |

### What is assumed of the constants

* `GameRound`: finitely many bets, stakes positive, a fee of at most the stake, initial
  balances that are numbers. `None` and the pool differ from what they must.
* `Accounts`: the root and the pool are no other accounts, finitely many ledger rows,
  amounts positive; bets and transactions have different identifiers.
* `Sessions`, `Archive`: the bounds are numbers, identifiers of different kinds differ.
* `Codes`: finitely many requests; a cooldown and a window of at least one tick. With a
  cooldown of nothing, requests in one tick would not have to wait for one another.
* `Fanout`: finitely many clients. `RowLocks`: finitely many wallets, bets and
  transactions; ids of wallets are numbers, for the sake of an order.

The one further hypothesis is not technical. `OneScheduler` is what the deployment notes
ask for: `Start` and `ReadStuck` of a second process need no lock, and a bet in its batch
may be settled by the first one before `RefundSession` reaches it.

### The arguments

**Sums.** `Total(f, S)` is the cardinality of a set of tagged coins. Additivity and
monotonicity then come from the library's facts on finite sets, with no induction over a
recursive function. `PaymentsBound` says that what is paid out of a purse stays within
it; with it `wallet \in [Wallets -> Nat]`, the statement that no balance becomes
negative, is inductive by itself.

**`GameRound`, any number of schedulers.** The only writer of totals and of new bets is
`CommitBet`, under the lock of the session row. `LedgerBalances` is not inductive: a set
of rows does not grow by a row it has already, and the wallet would move alone. `LedgerInv`
adds that the row about to be written is not there: `DebitOnce`, no bet that is still to
come has been debited, and `TopUpOnce`, each cycle plays a session that no other cycle
plays and that has not been topped up. For payouts and refunds the code checks, and the
model with it.

**`GameRound`, one scheduler.** That a bet is credited once is not inductive. What
carries it is `SchedulerInv`:

* `CyclesInStep`: the status of a session is that of the point its cycle has reached;
* `ListComplete`: the list settlement read is still the list of open bets, because the
  session left BETTING before the list was read and only a BETTING session takes bets;
* `RecoveryAlone`: recovery and cycles exclude each other, and what recovery is about to
  refund is open on an unfinished session;
* `BetsOnSessions`: a bet is resolved only on a session that is over;
* `CreditedAsResolved` and `SettledByWinner` themselves.

For `ShownAsSettled` it takes `ShownInv` besides: `CooldownOver`, that a session shown as
settled is over for good, and `InView`, what each coroutine has put on show at the point it
has reached. For the pool, `HouseInv`: bets are filled in when they are placed (`FilledIn`),
and the winner that was drawn is still a side with the smaller total when it is settled
(`WinnerFavoured`), since totals do not move any more. With `TotalsMatchStakes` a round then
pays at most what was staked on it, so that no refund is ever capped.

**Refinement.** Every step of `GameRound` maps to a step of `Wager` or to a stutter:
`CommitBet` to a stake, settlement to the resolution of a whole round at once,
`RefundSession` to calling it off; all others leave wallets, bets and what is over
alone. The fairness of `GameRound` is not needed, `Wager` has none.

**`Accounts`.** Types are the tables and, for each process, what its statement has in hand
(`ProcessesFit`). `NoDangling` needs `SeenRefers`: the rows a deletion has deleted still refer to the accounts
it takes when it commits; whatever else refers to them by then stops it, or goes with them.
`BooksBalance` needs `IdsKnown`: a process never has an account in hand that is still to be
created.
`InactiveBelow` needs, for each request, what it has read to hold until it writes, in a
later transaction (`ReadsHold`), but for accounts in `raced`: the parent of a new account is
active (`InsertHolds`), what is activated has an active parent or one that is activated
with it (`RaiseHolds`), what is made inactive has its children with it (`LowerHolds`). A
write of one request only breaks what another one has read where the two are at these
points together, and then the account is in `raced` (`OverlapRaced`). Besides, parents are
agents (`AgentsOnly`), since the status of a user is set alone, and deletions take whole
subtrees.

**`Sessions`.** `active_session` is only ever deleted or set to a nonce just made, so that one
that is gone does not come back. `OneUse` needs `UseInv`: the page a token or a request came from is no
longer live, and no two of them came from one page. `AskedBeforeReplaced` needs `SeenInv`:
what a login saw, or a token of its, is no older than the active session.

**`Archive`.** `NothingLost` and `ArchivedRoundIsFinal` are inductive together with the types of
the tables (`TablesInv`): a bet may only be inserted in a session that takes bets, which is
in `game_sessions` and therefore not in the archive. How jobs are queued plays no part, which
is what makes their failures and repetitions harmless.

**`Codes`.** `CodeInHand`: what a route carries between two awaits is a proven code of the
address it was given. `UsesInv`: a code that has been used once is in the hands of the
request that used it, or is gone and in nobody's. `SendsInv` counts: stamps are in order, and
for every age there are at most as many sends up to it as there are stamps times requests;
sends of the current tick may be more by those that have read the stamps and not yet written
them, each of which counts once.

**`Fanout`.** `LatestLast`: the event of the latest state is the last in the channel, and
nothing follows it to a client. `OldFollowed`: an older event on its way is followed by the
latest. `OldAwaits` is `NoGap` for clients that have read a state and not yet shown it as well.

**`RowLocks`.** A bet or a transfer wants only rows after those it holds
(`OneAscendingGroup`: the session of a game, then wallets by their ids), a settlement or a
recovery wants a session row last, if at all (`SessionLast`), a deletion wants bets before
wallets (`BetsFirst`). In a circle in which nobody goes back and no deletion holds a bet,
what a transaction wants then comes before what the one it waits for wants
(`WantedAscends`). Of finitely many transactions one would want a row that no other wants
a row after, and wait for none.

Strengthenings were checked by TLC before they were proved. In each proof a lemma lists the
steps, or a group of them that leave the same variables alone, and there is one case for
each.

### Model-checked only

* Liveness, which is out of the prover's reach: `ClosedBetsResolve`, `SessionsEnd`,
  `PendingGoes`, `OldRowsArchived`, `EveryTransactionEnds`, `Converges`,
  `ClosedAreForgotten`.
* The two properties that are violated.

## 5. Plan

What is left, in this order:

1. Lemmas about what the model is built from: rounding and fee, which are whole numbers
   now; the order of Tin Patti hands; `Favoured` against `_bias` of each engine.
2. What holds with two schedulers: which part of `SchedulerInv` survives.
3. Several workers in `Fanout`, and the filter of events by role.

## 6. Not modelled, and why

Mail delivery (I/O without state in the program), the templates and what the browser
draws, configuration and logging, containers and proxies beyond what enters as constants
and fairness, cryptography of cookies and passwords, the cards and the randomness of the
engines. Changes of password, whose only state is the hash, and the administrator's
password codes, which no route uses. Several workers in `Fanout` and `Sessions`' kick
across them. `replace_session`, which nothing calls.
