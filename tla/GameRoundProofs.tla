-------------------------- MODULE GameRoundProofs --------------------------
(***************************************************************************)
(* What holds of GameRound, for any number of games, players, bets and web *)
(* workers, and whenever processes end or calls raise.                     *)
(*                                                                         *)
(*   I.   However many scheduler processes run: the types, the totals of   *)
(*        the sessions, and the balances of the ledger.                    *)
(*   II.  Why a single scheduler credits every bet at most once and        *)
(*        settles each session by its winner, and why what it shows in the *)
(*        cooldown is what it settled.                                     *)
(*   III. Why the pool of a single scheduler can always pay, and why its   *)
(*        rounds implement module Wager.                                   *)
(***************************************************************************)
EXTENDS GameRound, MoneyProofs

USE GameRoundAssumption

-----------------------------------------------------------------------------
(***************************************************************************)
(* I. However many scheduler processes run.                                *)
(***************************************************************************)

\* Payments out of a pool that holds `pool' keep every balance a natural number.
LEMMA PayingType ==
  ASSUME TypeOK, NEW pool \in Nat, NEW S \in SUBSET BetIds,
         NEW due \in [S -> Nat], NEW paid \in Payments(pool, due)
  PROVE  Paying(pool, paid) \in [Wallets -> Nat]
<1>1. IsFiniteSet(S)
  BY FS_Subset
<1>2. paid \in [S -> Nat] /\ Total(paid, S) <= pool
  BY <1>1, PaymentsBound
<1>3. Total(paid, S) \in Nat
  BY <1>1, <1>2, TotalType
<1>4. ASSUME NEW o \in Wallets
      PROVE  Total(paid, {b \in S : bets[b].player = o}) \in Nat
  <2>1. IsFiniteSet({b \in S : bets[b].player = o})
    BY <1>1, FS_Subset
  <2>. QED
    BY <1>2, <2>1, TotalType
<1>5. \A o \in Wallets : wallet[o] \in Nat
  BY DEF TypeOK
<1>6. pool - Total(paid, S) \in Nat
  BY <1>2, <1>3
<1>7. \A o \in Wallets : wallet[o] + Total(paid, {b \in S : bets[b].player = o}) \in Nat
  BY <1>4, <1>5
<1>8. DOMAIN paid = S
  BY <1>2
<1>. QED
  BY <1>6, <1>7, <1>8 DEF Paying

\* A winning stake returns a natural number.
LEMMA PayoutType == \A a \in Stakes \cup {0} : Payout(a) \in Nat
  BY DEF Payout

LEMMA TypeInit == Init => TypeOK
  BY DEF Init, TypeOK, Keys, Wallets, NoBet, NoSession, TaskAt, Down, Bet, Session, Task,
         Recovery, BetStatus, SessionStatus, Phase, Sides

\* Each step of a web worker keeps the types.
LEMMA TypeBettor ==
  ASSUME TypeOK, NEW r \in Requests, Bettor(r)
  PROVE  TypeOK'
<1>1. CASE ReadPhase(r)
  BY <1>1 DEF TypeOK, ReadPhase, Request, database
<1>2. CASE CheckActive(r)
  BY <1>2 DEF TypeOK, CheckActive, Request, database
<1>3. CASE CommitBet(r)
  <2>. DEFINE q == request[r]
  <2>0. q \in Request
    BY <1>3 DEF TypeOK, CommitBet
  <2>1. PICK s \in OpenSession(q.game), b \in BetIds :
          /\ bets[b].status = "NONE"
          /\ wallet' = [wallet EXCEPT ![q.player] = @ - q.amount, ![Pool] = @ + q.amount]
          /\ ledger' = ledger \cup {Transfer("BET_DEBIT", b, q.player, Pool, q.amount)}
          /\ bets' = [bets EXCEPT ![b] =
               [status |-> "PLACED", session |-> s, player |-> q.player,
                side |-> q.side, amount |-> q.amount]]
          /\ Tally(s, q.side, q.amount)
    BY <1>3 DEF CommitBet
  <2>2. s \in SessionIds
    BY <2>1 DEF OpenSession
  <2>3. /\ q.player \in Players /\ q.side \in Sides
        /\ q.amount \in Stakes /\ q.amount \in Nat
    BY <2>0 DEF Request
  <2>4. wallet' \in [Wallets -> Nat]
    <3>1. /\ wallet[q.player] \in Nat /\ wallet[q.player] >= q.amount
          /\ wallet[Pool] \in Nat /\ q.player # Pool
      BY <1>3, <2>3 DEF TypeOK, Wallets, CommitBet, Accepted
    <3>2. wallet[q.player] - q.amount \in Nat /\ wallet[Pool] + q.amount \in Nat
      BY <2>3, <3>1
    <3>. QED
      BY <2>1, <3>1, <3>2 DEF TypeOK
  <2>5. ledger' \subseteq Row
    BY <2>1, <2>3 DEF TypeOK, Row, Transfer, Wallets
  <2>6. bets' \in [BetIds -> Bet]
    BY <2>1, <2>2, <2>3 DEF TypeOK, Bet, BetStatus
  <2>7. sessions' \in [SessionIds -> Session]
    <3>1. sessions[s] \in Session /\ sessions[s].total \in [Sides -> Nat]
      BY <2>2 DEF TypeOK, Session
    <3>2. [sessions[s].total EXCEPT ![q.side] = @ + q.amount] \in [Sides -> Nat]
      BY <2>3, <3>1
    <3>3. [sessions[s] EXCEPT !.total = [sessions[s].total EXCEPT ![q.side] = @ + q.amount]]
            \in Session
      BY <3>1, <3>2 DEF Session
    <3>. QED
      BY <2>1, <2>2, <3>3 DEF TypeOK, Tally
  <2>8. request' \in [Requests -> Request \cup {None}]
    BY <1>3 DEF TypeOK, CommitBet
  <2>. QED
    BY <1>3, <2>4, <2>5, <2>6, <2>7, <2>8 DEF TypeOK, CommitBet
<1>4. CASE RejectBet(r)
  BY <1>4 DEF TypeOK, RejectBet, database
<1>. QED
  BY <1>1, <1>2, <1>3, <1>4 DEF Bettor

\* A coroutine is given a new state within its type.
LEMMA SetTaskType ==
  ASSUME TypeOK, NEW i \in Schedulers, NEW g \in Games, NEW t \in Task, SetTask(i, g, t)
  PROVE  task' \in [Schedulers -> [Games -> Task]]
<1>1. task[i] \in [Games -> Task]
  BY DEF TypeOK
<1>2. [task[i] EXCEPT ![g] = t] \in [Games -> Task]
  BY <1>1
<1>. QED
  BY <1>2 DEF TypeOK, SetTask

\* Moving a coroutine on keeps the type of the coroutines.
LEMMA MoveType ==
  ASSUME TypeOK, NEW i \in Schedulers, NEW g \in Games, NEW from,
         NEW to \in InCycle, Move(i, g, from, to)
  PROVE  task' \in [Schedulers -> [Games -> Task]]
<1>1. task[i][g] \in Task
  BY DEF TypeOK
<1>2. [task[i][g] EXCEPT !.pc = to] \in Task
  BY <1>1 DEF Task
<1>. QED
  BY <1>2, SetTaskType DEF Move

\* A Redis phase is shown within its type.
LEMMA ShowType ==
  ASSUME TypeOK, NEW g \in Games, NEW phase \in Phase, Show(g, phase)
  PROVE  redis' \in [Games -> Keys]
<1>1. redis[g] \in Keys
  BY DEF TypeOK
<1>2. [redis[g] EXCEPT !.phase = phase] \in Keys
  BY <1>1 DEF Keys
<1>. QED
  BY <1>2 DEF TypeOK, Show

\* The session a coroutine works on has its row updated within its type.
LEMMA StatusType ==
  ASSUME TypeOK, NEW i \in Schedulers, NEW g \in Games,
         NEW status \in SessionStatus, SetStatus(i, g, status)
  PROVE  sessions' \in [SessionIds -> Session]
<1> DEFINE s == task[i][g].session
<1>1. CASE s \in SessionIds
  <2>0. sessions[s] \in Session
    BY <1>1 DEF TypeOK
  <2>1. [sessions[s] EXCEPT !.status = status] \in Session
    BY <2>0 DEF Session
  <2>. QED
    BY <1>1, <2>1 DEF TypeOK, SetStatus
<1>2. CASE s \notin SessionIds
  BY <1>2 DEF TypeOK, SetStatus
<1>. QED
  BY <1>1, <1>2

\* The cut of settlement: what is paid, and from what.
LEMMA SettlePays ==
  ASSUME TypeOK, NEW t \in Task
  PROVE  LET winners == Winners(t)
             prize   == [b \in winners |-> Payout(bets[b].amount)]
             pool    == Larger(wallet[Pool], Total(prize, winners))
         IN /\ winners \in SUBSET BetIds
            /\ prize \in [winners -> Nat]
            /\ Total(prize, winners) \in Nat
            /\ pool \in Nat /\ pool >= wallet[Pool] /\ pool >= Total(prize, winners)
<1> DEFINE winners == Winners(t)
           prize   == [b \in winners |-> Payout(bets[b].amount)]
<1>1. winners \in SUBSET BetIds
  BY DEF Winners, Task
<1>2. prize \in [winners -> Nat]
  <2>1. \A b \in winners : bets[b].amount \in Stakes \cup {0}
    BY <1>1 DEF TypeOK, Bet
  <2>. QED
    BY <2>1, PayoutType
<1>3. Total(prize, winners) \in Nat
  BY <1>1, <1>2, FS_Subset, TotalType
<1>4. wallet[Pool] \in Nat
  BY DEF TypeOK, Wallets
<1>. QED
  BY <1>1, <1>2, <1>3, <1>4 DEF Larger

\* What a bet stakes is a natural number.
LEMMA AmountType == TypeOK => \A b \in BetIds : bets[b].amount \in Nat
<1>. SUFFICES ASSUME TypeOK, NEW b \in BetIds PROVE bets[b].amount \in Nat
  OBVIOUS
<1>1. bets[b] \in Bet
  BY DEF TypeOK
<1>2. bets[b].amount \in Stakes \cup {0}
  BY <1>1 DEF Bet
<1>3. Stakes \cup {0} \subseteq Nat
  OBVIOUS
<1>. QED
  BY <1>2, <1>3

\* Marking the bets of a list changes nothing but their status.
LEMMA MarkType ==
  ASSUME TypeOK, NEW S, NEW f \in [S -> BetStatus]
  PROVE  Mark(S, f) \in [BetIds -> Bet]
<1>1. ASSUME NEW b \in BetIds \cap S
      PROVE  bets[b] \in Bet /\ [bets[b] EXCEPT !.status = f[b]] \in Bet
  <2>1. bets[b] \in Bet
    BY DEF TypeOK
  <2>. QED
    BY <2>1 DEF Bet
<1>. QED
  BY <1>1 DEF Mark, TypeOK

\* The ledger rows of payments have the type of the ledger.
LEMMA PaymentRowType ==
  ASSUME TypeOK, NEW b \in BetIds, NEW n \in Nat,
         NEW type \in {"BET_WIN_CREDIT", "BET_REFUND"}
  PROVE  PaymentRow(type, b, n) \in Row
<1>1. bets[b] \in Bet
  BY DEF TypeOK
<1>2. bets[b].player \in Players \cup {None}
  BY <1>1 DEF Bet
<1>. QED
  BY <1>2 DEF PaymentRow, Transfer, Row, Wallets

\* A settlement keeps the types.
LEMMA TypeSettle ==
  ASSUME TypeOK, NEW i \in Schedulers, NEW g \in Games, SettleBets(i, g)
  PROVE  TypeOK'
<1> DEFINE t       == task[i][g]
           winners == Winners(t)
           prize   == [b \in winners |-> Payout(bets[b].amount)]
           pool    == Larger(wallet[Pool], Total(prize, winners))
           payees  == {b \in winners : ~HasRow("BET_WIN_CREDIT", b)}
           topUp   == IF pool = wallet[Pool] THEN {}
                      ELSE {Transfer("SYSTEM_POOL_TOPUP", t.session, None, Pool,
                                     pool - wallet[Pool])}
           due     == [b \in payees |-> prize[b]]
           marks   == [b \in t.batch |-> IF b \in winners THEN "WON" ELSE "LOST"]
<1>1. t \in Task
  BY DEF TypeOK
<1>2. /\ winners \in SUBSET BetIds
      /\ prize \in [winners -> Nat]
      /\ pool \in Nat /\ pool >= wallet[Pool]
  BY <1>1, SettlePays
<1>3. payees \in SUBSET BetIds /\ due \in [payees -> Nat]
  BY <1>2
<1>. HIDE DEF t, winners, prize, pool, payees, topUp, due, marks
<1>4. PICK paid \in Payments(pool, due) :
        /\ wallet' = Paying(pool, paid)
        /\ ledger' = ledger \cup topUp
                       \cup {PaymentRow("BET_WIN_CREDIT", b, paid[b]) : b \in payees}
  BY DEF SettleBets, t, winners, prize, pool, payees, topUp, due
<1>5. wallet' \in [Wallets -> Nat]
  BY <1>2, <1>3, <1>4, PayingType
<1>6. ledger' \subseteq Row
  <2>1. paid \in [payees -> Nat]
    BY <1>2, <1>3, <1>4, FS_Subset, PaymentsBound
  <2>2. \A b \in payees : PaymentRow("BET_WIN_CREDIT", b, paid[b]) \in Row
    BY <1>3, <2>1, PaymentRowType
  <2>3. topUp \subseteq Row
    <3>1. t.session \in SessionIds \cup {None}
      BY <1>1 DEF Task
    <3>2. pool - wallet[Pool] \in Nat
      BY <1>2 DEF TypeOK, Wallets
    <3>. QED
      BY <3>1, <3>2 DEF topUp, Transfer, Row, Wallets
  <2>. QED
    BY <1>4, <2>2, <2>3 DEF TypeOK
<1>7. bets' \in [BetIds -> Bet]
  <2>1. bets' = Mark(t.batch, marks)
    BY DEF SettleBets, t, winners, marks
  <2>2. marks \in [t.batch -> BetStatus]
    BY DEF BetStatus, marks
  <2>. QED
    BY <2>1, <2>2, MarkType
<1>8. sessions' \in [SessionIds -> Session]
  <2>1. sessions' = [sessions EXCEPT ![t.session] =
                      [sessions[t.session] EXCEPT !.status = "COMPLETED",
                                                  !.winner = t.winner]]
    BY DEF SettleBets, t
  <2>2. CASE t.session \in SessionIds
    <3>1. sessions[t.session] \in Session
      BY <2>2 DEF TypeOK
    <3>2. t.winner \in Sides \cup {None}
      BY <1>1 DEF Task
    <3>3. [sessions[t.session] EXCEPT !.status = "COMPLETED", !.winner = t.winner]
            \in Session
      BY <3>1, <3>2 DEF Session, SessionStatus
    <3>. QED
      BY <2>1, <2>2, <3>3 DEF TypeOK
  <2>3. CASE t.session \notin SessionIds
    BY <2>1, <2>3 DEF TypeOK
  <2>. QED
    BY <2>2, <2>3
<1>9. task' \in [Schedulers -> [Games -> Task]]
  BY MoveType DEF SettleBets, InCycle, InTry
<1>. QED
  BY <1>5, <1>6, <1>7, <1>8, <1>9 DEF TypeOK, SettleBets

\* Each step of a coroutine keeps the types.
LEMMA TypeCycle ==
  ASSUME TypeOK, NEW i \in Schedulers, NEW g \in Games, Cycle(i, g) \/ Raise(i, g)
  PROVE  TypeOK'
<1>. USE DEF InCycle, InTry, SessionStatus
<1>1. CASE Acquire(i, g)
  BY <1>1, MoveType DEF TypeOK, Acquire, database
<1>2. CASE InsertSession(i, g)
  <2>1. PICK s \in SessionIds :
          /\ sessions' = [sessions EXCEPT ![s] = [@ EXCEPT !.status = "BETTING", !.game = g]]
          /\ SetTask(i, g, [task[i][g] EXCEPT !.pc = "inserted", !.session = s])
    BY <1>2 DEF InsertSession
  <2>2. sessions[s] \in Session /\ task[i][g] \in Task
    BY DEF TypeOK
  <2>3. [sessions[s] EXCEPT !.status = "BETTING", !.game = g] \in Session
    BY <2>2 DEF Session
  <2>4. [task[i][g] EXCEPT !.pc = "inserted", !.session = s] \in Task
    BY <2>2 DEF Task
  <2>5. sessions' \in [SessionIds -> Session]
    BY <2>1, <2>3 DEF TypeOK
  <2>6. task' \in [Schedulers -> [Games -> Task]]
    BY <2>1, <2>4, SetTaskType
  <2>. QED
    BY <1>2, <2>5, <2>6 DEF TypeOK, InsertSession
<1>3. CASE ShowBetting(i, g)
  <2>1. task[i][g].session \in SessionIds \cup {None}
    BY DEF TypeOK, Task
  <2>2. redis' \in [Games -> Keys]
    BY <1>3, <2>1 DEF TypeOK, ShowBetting, Keys, Phase
  <2>. QED
    BY <1>3, <2>2, MoveType DEF TypeOK, ShowBetting, database
<1>4. CASE CloseBetting(i, g)
  <2>1. sessions' \in [SessionIds -> Session]
    BY <1>4, StatusType DEF CloseBetting
  <2>. QED
    BY <1>4, <2>1, MoveType DEF TypeOK, CloseBetting
<1>5. CASE ShowInitiating(i, g)
  <2>1. redis' \in [Games -> Keys]
    BY <1>5, ShowType DEF ShowInitiating, Phase
  <2>. QED
    BY <1>5, <2>1, MoveType DEF TypeOK, ShowInitiating, database
<1>6. CASE ShowRunning(i, g)
  <2>1. redis' \in [Games -> Keys]
    BY <1>6, ShowType DEF ShowRunning, Phase
  <2>. QED
    BY <1>6, <2>1, MoveType DEF TypeOK, ShowRunning, database
<1>7. CASE DrawResult(i, g)
  <2>1. PICK w \in Sides : SetTask(i, g, [task[i][g] EXCEPT !.pc = "drawn", !.winner = w])
    BY <1>7 DEF DrawResult, Favoured
  <2>2. task[i][g] \in Task
    BY DEF TypeOK
  <2>3. [task[i][g] EXCEPT !.pc = "drawn", !.winner = w] \in Task
    BY <2>2 DEF Task
  <2>4. task' \in [Schedulers -> [Games -> Task]]
    BY <2>1, <2>3, SetTaskType
  <2>5. sessions' \in [SessionIds -> Session]
    BY <1>7, StatusType DEF DrawResult
  <2>. QED
    BY <1>7, <2>4, <2>5 DEF TypeOK, DrawResult
<1>8. CASE RevealWinner(i, g)
  <2>1. task[i][g].winner \in Sides \cup {None} /\ redis[g] \in Keys
    BY DEF TypeOK, Task
  <2>2. [redis[g] EXCEPT !.winner = task[i][g].winner] \in Keys
    BY <2>1 DEF Keys
  <2>3. redis' \in [Games -> Keys]
    BY <1>8, <2>2 DEF TypeOK, RevealWinner
  <2>. QED
    BY <1>8, <2>3, MoveType DEF TypeOK, RevealWinner, database
<1>9. CASE ReadBets(i, g)
  <2>1. task[i][g] \in Task
    BY DEF TypeOK
  <2>2. [task[i][g] EXCEPT !.pc = "settling",
                           !.batch = PlacedIn(task[i][g].session)] \in Task
    BY <2>1 DEF Task, PlacedIn
  <2>3. task' \in [Schedulers -> [Games -> Task]]
    BY <1>9, <2>2, SetTaskType DEF ReadBets
  <2>. QED
    BY <1>9, <2>3 DEF TypeOK, ReadBets, database
<1>10. CASE SettleBets(i, g)
  BY <1>10, TypeSettle
<1>11. CASE ShowSettling(i, g)
  <2>1. redis' \in [Games -> Keys]
    BY <1>11, ShowType DEF ShowSettling, Phase
  <2>. QED
    BY <1>11, <2>1, MoveType DEF TypeOK, ShowSettling, database
<1>12. CASE FailSession(i, g)
  <2>1. sessions' \in [SessionIds -> Session]
    BY <1>12, StatusType DEF TypeOK, FailSession
  <2>. QED
    BY <1>12, <2>1, MoveType DEF TypeOK, FailSession
<1>13. CASE LeaveSession(i, g)
  BY <1>13, MoveType DEF TypeOK, LeaveSession, database
<1>14. CASE ShowIdle(i, g)
  <2>1. TaskAt("begin") \in Task
    BY DEF TaskAt, Task
  <2>2. task' \in [Schedulers -> [Games -> Task]]
    BY <1>14, <2>1, SetTaskType DEF ShowIdle
  <2>3. redis[g] \in Keys
    BY DEF TypeOK
  <2>4. Idle(redis[g]) \in Keys
    BY <2>3 DEF Idle, Keys, Phase
  <2>5. redis' \in [Games -> Keys]
    BY <1>14, <2>4 DEF TypeOK, ShowIdle
  <2>. QED
    BY <1>14, <2>2, <2>5 DEF TypeOK, ShowIdle, database
<1>15. CASE Raise(i, g)
  <2>1. task' \in [Schedulers -> [Games -> Task]]
    BY <1>15, MoveType DEF Raise, Move
  <2>. QED
    BY <1>15, <2>1 DEF TypeOK, Raise, database
<1>. QED
  BY <1>1, <1>2, <1>3, <1>4, <1>5, <1>6, <1>7, <1>8, <1>9, <1>10, <1>11, <1>12,
     <1>13, <1>14, <1>15 DEF Cycle

\* Each step of recovery keeps the types.
LEMMA TypeRecover ==
  ASSUME TypeOK, NEW i \in Schedulers, Recover(i) \/ Exit(i)
  PROVE  TypeOK'
<1>0. recovery[i] \in Recovery
  BY DEF TypeOK
<1>1. CASE Start(i)
  <2>1. [recovery[i] EXCEPT !.state = "recovering", !.todo = Unfinished] \in Recovery
    BY <1>0 DEF Recovery, Unfinished
  <2>2. recovery' \in [Schedulers -> Recovery]
    BY <1>1, <2>1 DEF TypeOK, Start
  <2>. QED
    BY <1>1, <2>2 DEF TypeOK, Start, database
<1>2. CASE ReadStuck(i)
  <2>1. PICK s \in recovery[i].todo : recovery' = [recovery EXCEPT ![i] =
          [@ EXCEPT !.session = s, !.batch = PlacedIn(s), !.todo = recovery[i].todo \ {s}]]
    BY <1>2 DEF ReadStuck
  <2>2. [recovery[i] EXCEPT !.session = s, !.batch = PlacedIn(s),
                            !.todo = recovery[i].todo \ {s}] \in Recovery
    BY <1>0 DEF Recovery, PlacedIn
  <2>3. recovery' \in [Schedulers -> Recovery]
    BY <2>1, <2>2 DEF TypeOK
  <2>. QED
    BY <1>2, <2>3 DEF TypeOK, ReadStuck, database
<1>3. CASE RefundSession(i)
  <2> DEFINE batch == recovery[i].batch
             owed  == {b \in batch : ~HasRow("BET_REFUND", b)}
             due   == [b \in owed |-> bets[b].amount]
             marks == [b \in batch |-> "REFUNDED"]
             s     == recovery[i].session
  <2>1. batch \in SUBSET BetIds /\ s \in SessionIds \cup {None}
    BY <1>0 DEF Recovery
  <2>2. owed \in SUBSET BetIds /\ due \in [owed -> Nat]
    <3>1. owed \in SUBSET BetIds
      BY <2>1
    <3>. QED
      BY <3>1, AmountType
  <2>. HIDE DEF batch, owed, due, marks, s
  <2>3. PICK paid \in Payments(wallet[Pool], due) :
          /\ wallet' = Paying(wallet[Pool], paid)
          /\ ledger' = ledger \cup
               {PaymentRow("BET_REFUND", b, paid[b]) : b \in {c \in owed : paid[c] > 0}}
    BY <1>3 DEF RefundSession, batch, owed, due
  <2>4. wallet[Pool] \in Nat
    BY DEF TypeOK, Wallets
  <2>5. wallet' \in [Wallets -> Nat]
    BY <2>2, <2>3, <2>4, PayingType
  <2>6. ledger' \subseteq Row
    <3>1. paid \in [owed -> Nat]
      BY <2>2, <2>3, <2>4, FS_Subset, PaymentsBound
    <3>2. \A b \in owed : PaymentRow("BET_REFUND", b, paid[b]) \in Row
      BY <2>2, <3>1, PaymentRowType
    <3>. QED
      BY <2>3, <3>2 DEF TypeOK
  <2>7. bets' \in [BetIds -> Bet]
    <3>1. bets' = Mark(batch, marks)
      BY <1>3 DEF RefundSession, batch, marks
    <3>2. marks \in [batch -> BetStatus]
      BY DEF marks, BetStatus
    <3>. QED
      BY <3>1, <3>2, MarkType
  <2>8. sessions' \in [SessionIds -> Session]
    <3>1. sessions' = [sessions EXCEPT ![s].status = "FAILED"] /\ s \in SessionIds
      BY <1>3, <2>1 DEF RefundSession, s
    <3>2. sessions[s] \in Session
      BY <3>1 DEF TypeOK
    <3>3. [sessions[s] EXCEPT !.status = "FAILED"] \in Session
      BY <3>2 DEF Session, SessionStatus
    <3>. QED
      BY <3>1, <3>3 DEF TypeOK
  <2>9. recovery' \in [Schedulers -> Recovery]
    <3>1. [recovery[i] EXCEPT !.session = None, !.batch = {}] \in Recovery
      BY <1>0 DEF Recovery
    <3>. QED
      BY <1>3, <3>1 DEF TypeOK, RefundSession
  <2>. QED
    BY <1>3, <2>5, <2>6, <2>7, <2>8, <2>9 DEF TypeOK, RefundSession
<1>4. CASE EndRecovery(i)
  <2>1. [recovery[i] EXCEPT !.state = "up"] \in Recovery
    BY <1>0 DEF Recovery
  <2>2. recovery' \in [Schedulers -> Recovery]
    BY <1>4, <2>1 DEF TypeOK, EndRecovery
  <2>3. TaskAt("wait") \in Task
    BY DEF TaskAt, Task
  <2>4. task' \in [Schedulers -> [Games -> Task]]
    BY <1>4, <2>3 DEF TypeOK, EndRecovery
  <2>. QED
    BY <1>4, <2>2, <2>4 DEF TypeOK, EndRecovery, database
<1>5. CASE Exit(i)
  <2>1. PICK idle \in SUBSET Games, released \in SUBSET Games :
          /\ redis' = [g \in Games |-> IF g \in idle THEN Idle(redis[g]) ELSE redis[g]]
          /\ lock' = [g \in Games |-> lock[g] /\ g \notin released]
    <3>1. PICK idle \in SUBSET {g \in Games : task[i][g].pc \in InCycle},
               released \in SUBSET {g \in Games : task[i][g].pc \in InCycle} :
            /\ redis' = [g \in Games |-> IF g \in idle THEN Idle(redis[g]) ELSE redis[g]]
            /\ lock' = [g \in Games |-> lock[g] /\ g \notin released]
      BY <1>5 DEF Exit
    <3>2. idle \in SUBSET Games /\ released \in SUBSET Games
      OBVIOUS
    <3>. QED
      BY <3>1, <3>2
  <2>2. ASSUME NEW g \in Games
        PROVE  redis[g] \in Keys /\ Idle(redis[g]) \in Keys
    <3>1. redis[g] \in Keys
      BY DEF TypeOK
    <3>. QED
      BY <3>1 DEF Idle, Keys, Phase
  <2>3. redis' \in [Games -> Keys]
    BY <2>1, <2>2
  <2>4. lock' \in [Games -> BOOLEAN]
    BY <2>1
  <2>5. TaskAt("down") \in Task /\ Down \in Recovery
    BY DEF TaskAt, Task, Down, Recovery
  <2>6. task' \in [Schedulers -> [Games -> Task]]
    BY <1>5, <2>5 DEF TypeOK, Exit
  <2>7. recovery' \in [Schedulers -> Recovery]
    BY <1>5, <2>5 DEF TypeOK, Exit
  <2>8. exits' \in 0 .. MaxExits
    BY <1>5 DEF TypeOK, Exit
  <2>9. UNCHANGED <<wallet, ledger, bets, sessions, request, errors>>
    BY <1>5 DEF Exit, database
  <2>. HIDE GameRoundAssumption
  <2>. QED
    BY <2>3, <2>4, <2>6, <2>7, <2>8, <2>9 DEF TypeOK
<1>. QED
  BY <1>1, <1>2, <1>3, <1>4, <1>5 DEF Recover

\* Every step keeps the types.
LEMMA TypeNext == TypeOK /\ [Next]_vars => TypeOK'
<1>. SUFFICES ASSUME TypeOK, [Next]_vars PROVE TypeOK'
  OBVIOUS
<1>1. CASE \E r \in Requests : Bettor(r)
  BY <1>1, TypeBettor
<1>2. CASE \E i \in Schedulers, g \in Games : Cycle(i, g) \/ Raise(i, g)
  BY <1>2, TypeCycle
<1>3. CASE \E g \in Games : Expire(g)
  BY <1>3 DEF TypeOK, Expire, database
<1>4. CASE \E i \in Schedulers : Exit(i) \/ Recover(i)
  BY <1>4, TypeRecover
<1>5. CASE OutOfSessions
  BY <1>5 DEF TypeOK, OutOfSessions, vars, database
<1>6. CASE UNCHANGED vars
  BY <1>6 DEF TypeOK, vars, database
<1>. QED
  BY <1>1, <1>2, <1>3, <1>4, <1>5, <1>6 DEF Next

\* Whatever processes end, raise or run at the same time, every table, key and
\* coroutine keeps its type; in particular no balance becomes negative.
THEOREM TypeCorrect == Spec => []TypeOK
BY TypeInit, TypeNext, PTL DEF Spec

\* NULL is neither a row's number nor a side.
LEMMA NoneApart == None \notin SessionIds /\ None \notin Sides
<1>1. None \notin Nat /\ None \notin {"A", "B"}
  BY GameRoundAssumption
<1>. QED
  BY <1>1 DEF SessionIds, Sides

\* Marking a list of bets changes their status and nothing else.
LEMMA MarkChanges ==
  ASSUME TypeOK, NEW batch \in SUBSET BetIds, NEW status, bets' = Mark(batch, status)
  PROVE  \A b \in BetIds :
           /\ bets'[b].session = bets[b].session /\ bets'[b].side = bets[b].side
           /\ bets'[b].player = bets[b].player /\ bets'[b].amount = bets[b].amount
           /\ bets'[b].status = IF b \in batch THEN status[b] ELSE bets[b].status
<1>. SUFFICES ASSUME NEW b \in BetIds
              PROVE  /\ bets'[b].session = bets[b].session /\ bets'[b].side = bets[b].side
                     /\ bets'[b].player = bets[b].player /\ bets'[b].amount = bets[b].amount
                     /\ bets'[b].status = IF b \in batch THEN status[b] ELSE bets[b].status
  OBVIOUS
<1>1. bets[b] \in Bet
  BY DEF TypeOK
<1>2. bets'[b] = IF b \in batch THEN [bets[b] EXCEPT !.status = status[b]] ELSE bets[b]
  BY DEF Mark
<1>. QED
  BY <1>1, <1>2 DEF Bet

\* The steps that write to the table of bets: placing, settlement and refund.
LEMMA BetWriters ==
  ASSUME [Next]_vars
  PROVE  \/ UNCHANGED bets
         \/ \E r \in Requests : CommitBet(r)
         \/ \E i \in Schedulers, g \in Games : SettleBets(i, g)
         \/ \E i \in Schedulers : RefundSession(i)
<1>1. ASSUME NEW r \in Requests, Bettor(r) PROVE UNCHANGED bets \/ CommitBet(r)
  BY <1>1 DEF Bettor, ReadPhase, CheckActive, RejectBet, database
<1>2. ASSUME NEW i \in Schedulers, NEW g \in Games, Cycle(i, g) \/ Raise(i, g)
      PROVE  UNCHANGED bets \/ SettleBets(i, g)
  BY <1>2 DEF Cycle, Acquire, InsertSession, ShowBetting, CloseBetting, ShowInitiating,
     ShowRunning, DrawResult, RevealWinner, ReadBets, ShowSettling, FailSession,
     LeaveSession, ShowIdle, Raise, database
<1>3. ASSUME NEW i \in Schedulers, Exit(i) \/ Recover(i)
      PROVE  UNCHANGED bets \/ RefundSession(i)
  BY <1>3 DEF Recover, Exit, Start, ReadStuck, EndRecovery, database
<1>4. ASSUME NEW g \in Games, Expire(g) PROVE UNCHANGED bets
  BY <1>4 DEF Expire, database
<1>5. ASSUME OutOfSessions \/ UNCHANGED vars PROVE UNCHANGED bets
  BY <1>5 DEF OutOfSessions, vars, database
<1>. QED
  BY <1>1, <1>2, <1>3, <1>4, <1>5 DEF Next

-----------------------------------------------------------------------------
(* The totals of a session: they and the bets are only written together, under the *)
(* lock on the row of an open session.                                             *)

\* Setting the status of a session leaves its totals alone.
LEMMA StatusKeepsTotals ==
  ASSUME TypeOK, NEW i \in Schedulers, NEW g \in Games, NEW status, SetStatus(i, g, status)
  PROVE  \A s \in SessionIds : sessions'[s].total = sessions[s].total
<1>. SUFFICES ASSUME NEW s \in SessionIds PROVE sessions'[s].total = sessions[s].total
  OBVIOUS
<1>1. sessions[s] \in Session
  BY DEF TypeOK
<1>2. sessions'[s] = IF s = task[i][g].session THEN [sessions[s] EXCEPT !.status = status]
                     ELSE sessions[s]
  BY DEF SetStatus, TypeOK
<1>. QED
  BY <1>1, <1>2 DEF Session

\* Only a bet changes the totals.
LEMMA TotalsKept ==
  ASSUME TypeOK, [Next]_vars, \A r \in Requests : ~CommitBet(r)
  PROVE  \A s \in SessionIds : sessions'[s].total = sessions[s].total
<1>0. \A s \in SessionIds : sessions[s] \in Session
  BY DEF TypeOK
<1>1. ASSUME NEW r \in Requests, Bettor(r) PROVE UNCHANGED sessions
  BY <1>1 DEF Bettor, ReadPhase, CheckActive, RejectBet, database
<1>2. ASSUME NEW i \in Schedulers, NEW g \in Games, Cycle(i, g) \/ Raise(i, g)
      PROVE  \A s \in SessionIds : sessions'[s].total = sessions[s].total
  <2>1. CASE InsertSession(i, g)
    <3>1. PICK u \in SessionIds : sessions' =
            [sessions EXCEPT ![u] = [@ EXCEPT !.status = "BETTING", !.game = g]]
      BY <2>1 DEF InsertSession
    <3>2. \A s \in SessionIds : sessions'[s] =
            IF s = u THEN [sessions[s] EXCEPT !.status = "BETTING", !.game = g]
            ELSE sessions[s]
      BY <3>1 DEF TypeOK
    <3>. QED
      BY <1>0, <3>2 DEF Session
  <2>2. CASE CloseBetting(i, g)
    BY <2>2, StatusKeepsTotals DEF CloseBetting
  <2>3. CASE DrawResult(i, g)
    BY <2>3, StatusKeepsTotals DEF DrawResult
  <2>4. CASE FailSession(i, g)
    BY <2>4, StatusKeepsTotals DEF FailSession
  <2>5. CASE SettleBets(i, g)
    <3>1. \A s \in SessionIds : sessions'[s] =
            IF s = task[i][g].session
            THEN [sessions[s] EXCEPT !.status = "COMPLETED", !.winner = task[i][g].winner]
            ELSE sessions[s]
      BY <2>5 DEF SettleBets, TypeOK
    <3>. QED
      BY <1>0, <3>1 DEF Session
  <2>6. CASE UNCHANGED sessions
    BY <2>6
  <2>. QED
    BY <1>2, <2>1, <2>2, <2>3, <2>4, <2>5, <2>6
    DEF Cycle, Acquire, ShowBetting, ShowInitiating, ShowRunning, RevealWinner, ReadBets,
        ShowSettling, LeaveSession, ShowIdle, Raise, database
<1>3. ASSUME NEW i \in Schedulers, Exit(i) \/ Recover(i)
      PROVE  \A s \in SessionIds : sessions'[s].total = sessions[s].total
  <2>1. CASE RefundSession(i)
    <3>1. \A s \in SessionIds : sessions'[s] =
            IF s = recovery[i].session THEN [sessions[s] EXCEPT !.status = "FAILED"]
            ELSE sessions[s]
      BY <2>1 DEF RefundSession, TypeOK
    <3>. QED
      BY <1>0, <3>1 DEF Session
  <2>2. CASE UNCHANGED sessions
    BY <2>2
  <2>. QED
    BY <1>3, <2>1, <2>2 DEF Recover, Exit, Start, ReadStuck, EndRecovery, database
<1>4. ASSUME NEW g \in Games, Expire(g) PROVE UNCHANGED sessions
  BY <1>4 DEF Expire, database
<1>5. ASSUME OutOfSessions \/ UNCHANGED vars PROVE UNCHANGED sessions
  BY <1>5 DEF OutOfSessions, vars, database
<1>. QED
  BY <1>1, <1>2, <1>3, <1>4, <1>5 DEF Next

\* What a bet does to the totals and to the table of bets.
LEMMA BetAdds ==
  ASSUME TypeOK, NEW r \in Requests, CommitBet(r)
  PROVE  \E s \in SessionIds, b \in BetIds, x \in Sides, a \in Nat :
           /\ sessions[s].status = "BETTING" /\ bets[b].status = "NONE"
           /\ sessions'[s].total = [sessions[s].total EXCEPT ![x] = @ + a]
           /\ \A u \in SessionIds : u # s => sessions'[u] = sessions[u]
           /\ bets'[b].status = "PLACED" /\ bets'[b].session = s
           /\ bets'[b].side = x /\ bets'[b].amount = a
           /\ \A c \in BetIds : c # b => bets'[c] = bets[c]
<1> DEFINE q == request[r]
<1>1. PICK s \in OpenSession(q.game), b \in BetIds :
        /\ bets[b].status = "NONE"
        /\ bets' = [bets EXCEPT ![b] =
             [status |-> "PLACED", session |-> s, player |-> q.player,
              side |-> q.side, amount |-> q.amount]]
        /\ Tally(s, q.side, q.amount)
  BY DEF CommitBet
<1>2. s \in SessionIds /\ sessions[s].status = "BETTING"
  BY DEF OpenSession
<1>3. q.side \in Sides /\ q.amount \in Nat
  <2>1. q \in Request
    BY DEF TypeOK, CommitBet
  <2>2. q.side \in Sides /\ q.amount \in Stakes
    BY <2>1 DEF Request
  <2>. QED
    BY <2>2, GameRoundAssumption
<1>4. sessions[s] \in Session
  BY <1>2 DEF TypeOK
<1>5. /\ sessions'[s] =
           [sessions[s] EXCEPT !.total = [sessions[s].total EXCEPT ![q.side] = @ + q.amount]]
      /\ \A u \in SessionIds : u # s => sessions'[u] = sessions[u]
  BY <1>1, <1>2 DEF Tally, TypeOK
<1>6. sessions'[s].total = [sessions[s].total EXCEPT ![q.side] = @ + q.amount]
  BY <1>4, <1>5 DEF Session
<1>7. /\ bets'[b].status = "PLACED" /\ bets'[b].session = s
      /\ bets'[b].side = q.side /\ bets'[b].amount = q.amount
      /\ \A c \in BetIds : c # b => bets'[c] = bets[c]
  BY <1>1 DEF TypeOK
<1>. HIDE DEF q
<1>8. /\ s \in SessionIds /\ b \in BetIds /\ q.side \in Sides /\ q.amount \in Nat
      /\ sessions[s].status = "BETTING" /\ bets[b].status = "NONE"
  BY <1>1, <1>2, <1>3
<1>. USE <1>8
<1>. WITNESS s \in SessionIds, b \in BetIds, q.side \in Sides, q.amount \in Nat
<1>. QED
  BY <1>5, <1>6, <1>7, <1>8

\* Whatever runs at the same time, no bet changes the totals of a session whose
\* betting has closed.
THEOREM ClosedTotals == Spec => ClosedTotalsFixed
<1> DEFINE Fixed == \A s \in SessionIds : sessions[s].status \notin {"NONE", "BETTING"} =>
                      sessions'[s].total = sessions[s].total
<1>1. ASSUME TypeOK, [Next]_vars PROVE Fixed
  <2>1. CASE \E r \in Requests : CommitBet(r)
    BY <1>1, <2>1, BetAdds
  <2>2. CASE \A r \in Requests : ~CommitBet(r)
    BY <1>1, <2>2, TotalsKept
  <2>. QED
    BY <2>1, <2>2
<1>2. TypeOK /\ [Next]_vars => [Fixed]_vars
  BY <1>1
<1>. QED
  BY <1>2, TypeCorrect, PTL DEF Spec, ClosedTotalsFixed

\* A bet row that is not there is on no session.
Unplaced == \A b \in BetIds : bets[b].status = "NONE" => bets[b].session = None

\* A step that is not a bet keeps session, side and stake of every bet.
LEMMA BetsKept ==
  ASSUME TypeOK, [Next]_vars, \A r \in Requests : ~CommitBet(r)
  PROVE  \A b \in BetIds :
           /\ bets'[b].session = bets[b].session /\ bets'[b].side = bets[b].side
           /\ bets'[b].amount = bets[b].amount
           /\ bets'[b].status = "NONE" => bets[b].status = "NONE"
<1>1. CASE UNCHANGED bets
  BY <1>1
<1>2. ASSUME NEW i \in Schedulers, NEW g \in Games, SettleBets(i, g)
      PROVE  \A b \in BetIds :
               /\ bets'[b].session = bets[b].session /\ bets'[b].side = bets[b].side
               /\ bets'[b].amount = bets[b].amount
               /\ bets'[b].status = "NONE" => bets[b].status = "NONE"
  <2> DEFINE batch  == task[i][g].batch
             status == [b \in batch |-> IF b \in Winners(task[i][g]) THEN "WON" ELSE "LOST"]
  <2>1. task[i][g] \in Task
    BY DEF TypeOK
  <2>2. batch \in SUBSET BetIds
    BY <2>1 DEF Task
  <2>3. bets' = Mark(batch, status) /\ \A b \in batch : status[b] # "NONE"
    BY <1>2 DEF SettleBets
  <2>. HIDE DEF batch, status
  <2>4. \A b \in BetIds :
          /\ bets'[b].session = bets[b].session /\ bets'[b].side = bets[b].side
          /\ bets'[b].amount = bets[b].amount
          /\ bets'[b].status = IF b \in batch THEN status[b] ELSE bets[b].status
    BY <2>2, <2>3, MarkChanges
  <2>. QED
    BY <2>3, <2>4
<1>3. ASSUME NEW i \in Schedulers, RefundSession(i)
      PROVE  \A b \in BetIds :
               /\ bets'[b].session = bets[b].session /\ bets'[b].side = bets[b].side
               /\ bets'[b].amount = bets[b].amount
               /\ bets'[b].status = "NONE" => bets[b].status = "NONE"
  <2> DEFINE batch  == recovery[i].batch
             status == [b \in batch |-> "REFUNDED"]
  <2>1. recovery[i] \in Recovery
    BY DEF TypeOK
  <2>2. batch \in SUBSET BetIds
    BY <2>1 DEF Recovery
  <2>3. bets' = Mark(batch, status) /\ \A b \in batch : status[b] # "NONE"
    BY <1>3 DEF RefundSession
  <2>. HIDE DEF batch, status
  <2>4. \A b \in BetIds :
          /\ bets'[b].session = bets[b].session /\ bets'[b].side = bets[b].side
          /\ bets'[b].amount = bets[b].amount
          /\ bets'[b].status = IF b \in batch THEN status[b] ELSE bets[b].status
    BY <2>2, <2>3, MarkChanges
  <2>. QED
    BY <2>3, <2>4
<1>. QED
  BY <1>1, <1>2, <1>3, BetWriters

LEMMA TotalsInit == Init => TotalsMatchStakes /\ Unplaced
<1>. SUFFICES ASSUME Init PROVE TotalsMatchStakes /\ Unplaced
  OBVIOUS
<1>1. \A s \in SessionIds, x \in Sides : BetsOn(s, x) = {}
  BY NoneApart DEF Init, NoBet, BetsOn
<1>2. \A s \in SessionIds, x \in Sides : sessions[s].total[x] = 0
  BY DEF Init, NoSession
<1>3. Unplaced
  BY DEF Init, NoBet, Unplaced
<1>. QED
  BY <1>1, <1>2, <1>3, TotalEmpty DEF TotalsMatchStakes

\* A bet adds its stake to the total of its side, and to the bets on that side.
LEMMA TotalsBet ==
  ASSUME TypeOK, TotalsMatchStakes, Unplaced, NEW r \in Requests, CommitBet(r)
  PROVE  TotalsMatchStakes' /\ Unplaced'
<1>1. PICK s \in SessionIds, b \in BetIds, x \in Sides, a \in Nat :
        /\ sessions[s].status = "BETTING" /\ bets[b].status = "NONE"
        /\ sessions'[s].total = [sessions[s].total EXCEPT ![x] = @ + a]
        /\ \A u \in SessionIds : u # s => sessions'[u] = sessions[u]
        /\ bets'[b].status = "PLACED" /\ bets'[b].session = s
        /\ bets'[b].side = x /\ bets'[b].amount = a
        /\ \A c \in BetIds : c # b => bets'[c] = bets[c]
  BY BetAdds
<1>2. bets[b].session = None
  BY <1>1 DEF Unplaced
<1>3. Unplaced'
  BY <1>1 DEF Unplaced
<1>4. ASSUME NEW u \in SessionIds, NEW y \in Sides
      PROVE  sessions'[u].total[y] = Total(Staked', BetsOn(u, y)')
  <2>1. IsFiniteSet(BetsOn(u, y)) /\ b \notin BetsOn(u, y)
    BY <1>2, NoneApart, GameRoundAssumption, FS_Subset DEF BetsOn
  <2>2. \A c \in BetsOn(u, y) : Staked'[c] = Staked[c] /\ Staked[c] \in Nat
    BY <1>1, <2>1, AmountType DEF Staked, BetsOn
  <2>3. Total(Staked', BetsOn(u, y)) = Total(Staked, BetsOn(u, y))
    BY <2>2, TotalEqual
  <2>4. sessions[u].total \in [Sides -> Nat]
    <3>1. sessions[u] \in Session
      BY DEF TypeOK
    <3>. QED
      BY <3>1 DEF Session
  <2>5. CASE u = s /\ y = x
    <3>1. BetsOn(u, y)' = BetsOn(u, y) \cup {b}
      BY <1>1, <2>5 DEF BetsOn
    <3>2. Staked'[b] = a /\ Staked'[b] \in Nat
      BY <1>1 DEF Staked
    <3>3. Total(Staked', {b}) = a
      <4>1. Total(Staked', {b}) = Staked'[b]
        BY <3>2, TotalOne, Zenon
      <4>. QED
        BY <3>2, <4>1
    <3>4. IsFiniteSet({b}) /\ BetsOn(u, y) \cap {b} = {}
      <4>1. IsFiniteSet({b})
        BY FS_Singleton, Zenon
      <4>. QED
        BY <2>1, <4>1
    <3>5. \A c \in BetsOn(u, y) \cup {b} : Staked'[c] \in Nat
      BY <2>2, <3>2
    <3>6. Total(Staked', BetsOn(u, y) \cup {b}) = Total(Staked', BetsOn(u, y)) + a
      BY <2>1, <3>3, <3>4, <3>5, TotalSplit
    <3>7. sessions'[u].total[y] = sessions[u].total[y] + a
      BY <1>1, <2>4, <2>5
    <3>. QED
      BY <2>3, <3>1, <3>6, <3>7 DEF TotalsMatchStakes
  <2>6. CASE ~(u = s /\ y = x)
    <3>1. BetsOn(u, y)' = BetsOn(u, y)
      BY <1>1, <2>1, <2>6 DEF BetsOn
    <3>2. sessions'[u].total[y] = sessions[u].total[y]
      BY <1>1, <2>4, <2>6
    <3>. QED
      BY <2>3, <3>1, <3>2 DEF TotalsMatchStakes
  <2>. QED
    BY <2>5, <2>6
<1>. QED
  BY <1>3, <1>4 DEF TotalsMatchStakes

LEMMA TotalsNext ==
  TypeOK /\ TotalsMatchStakes /\ Unplaced /\ [Next]_vars => TotalsMatchStakes' /\ Unplaced'
<1>. SUFFICES ASSUME TypeOK, TotalsMatchStakes, Unplaced, [Next]_vars
              PROVE  TotalsMatchStakes' /\ Unplaced'
  OBVIOUS
<1>1. CASE \E r \in Requests : CommitBet(r)
  BY <1>1, TotalsBet
<1>2. CASE \A r \in Requests : ~CommitBet(r)
  <2>1. \A b \in BetIds :
          /\ bets'[b].session = bets[b].session /\ bets'[b].side = bets[b].side
          /\ bets'[b].amount = bets[b].amount
          /\ bets'[b].status = "NONE" => bets[b].status = "NONE"
    BY <1>2, BetsKept
  <2>2. Staked' = Staked /\ \A s, x : BetsOn(s, x)' = BetsOn(s, x)
    BY <2>1 DEF Staked, BetsOn
  <2>3. \A s \in SessionIds : sessions'[s].total = sessions[s].total
    BY <1>2, TotalsKept
  <2>4. TotalsMatchStakes'
    BY <2>2, <2>3 DEF TotalsMatchStakes
  <2>. QED
    BY <2>1, <2>4 DEF Unplaced
<1>. QED
  BY <1>1, <1>2

\* Whatever runs at the same time, the totals of a session are the sums of the stakes
\* of the bets on its two sides.
THEOREM TotalsCorrect == Spec => []TotalsMatchStakes
BY TotalsInit, TotalsNext, TypeCorrect, PTL DEF Spec

-----------------------------------------------------------------------------
(* The ledger: a balance is only written together with a row that records the change, *)
(* and no step writes a row that is there already.                                     *)

\* The steps that move money are those that write bets.
LEMMA MoneyWriters ==
  ASSUME [Next]_vars
  PROVE  \/ UNCHANGED <<wallet, ledger, bets>>
         \/ \E r \in Requests : CommitBet(r)
         \/ \E i \in Schedulers, g \in Games : SettleBets(i, g)
         \/ \E i \in Schedulers : RefundSession(i)
<1>1. ASSUME NEW r \in Requests, Bettor(r)
      PROVE  UNCHANGED <<wallet, ledger, bets>> \/ CommitBet(r)
  BY <1>1 DEF Bettor, ReadPhase, CheckActive, RejectBet, database
<1>2. ASSUME NEW i \in Schedulers, NEW g \in Games, Cycle(i, g) \/ Raise(i, g)
      PROVE  UNCHANGED <<wallet, ledger, bets>> \/ SettleBets(i, g)
  BY <1>2 DEF Cycle, Acquire, InsertSession, ShowBetting, CloseBetting, ShowInitiating,
     ShowRunning, DrawResult, RevealWinner, ReadBets, ShowSettling, FailSession,
     LeaveSession, ShowIdle, Raise, database
<1>3. ASSUME NEW i \in Schedulers, Exit(i) \/ Recover(i)
      PROVE  UNCHANGED <<wallet, ledger, bets>> \/ RefundSession(i)
  BY <1>3 DEF Recover, Exit, Start, ReadStuck, EndRecovery, database
<1>4. ASSUME NEW g \in Games, Expire(g) PROVE UNCHANGED <<wallet, ledger, bets>>
  BY <1>4 DEF Expire, database
<1>5. ASSUME OutOfSessions \/ UNCHANGED vars PROVE UNCHANGED <<wallet, ledger, bets>>
  BY <1>5 DEF OutOfSessions, vars, database
<1>. QED
  BY <1>1, <1>2, <1>3, <1>4, <1>5 DEF Next

\* What a bet that is placed does.
LEMMA BetPlaced ==
  ASSUME TypeOK, NEW r \in Requests, CommitBet(r)
  PROVE  \E s \in SessionIds, b \in BetIds, p \in Players, x \in Sides, a \in Stakes :
           /\ sessions[s].status = "BETTING" /\ bets[b].status = "NONE" /\ wallet[p] >= a
           /\ wallet' = [wallet EXCEPT ![p] = @ - a, ![Pool] = @ + a]
           /\ ledger' = ledger \cup {Transfer("BET_DEBIT", b, p, Pool, a)}
           /\ bets' = [bets EXCEPT ![b] = [status |-> "PLACED", session |-> s, player |-> p,
                                           side |-> x, amount |-> a]]
           /\ sessions' = [sessions EXCEPT ![s].total[x] = @ + a]
<1> DEFINE q == request[r]
<1>1. q \in Request
  BY DEF TypeOK, CommitBet
<1>2. q.player \in Players /\ q.side \in Sides /\ q.amount \in Stakes
  BY <1>1 DEF Request
<1>3. wallet[q.player] >= q.amount
  BY DEF CommitBet, Accepted
<1>4. PICK s \in OpenSession(q.game), b \in BetIds :
        /\ bets[b].status = "NONE"
        /\ wallet' = [wallet EXCEPT ![q.player] = @ - q.amount, ![Pool] = @ + q.amount]
        /\ ledger' = ledger \cup {Transfer("BET_DEBIT", b, q.player, Pool, q.amount)}
        /\ bets' = [bets EXCEPT ![b] =
             [status |-> "PLACED", session |-> s, player |-> q.player,
              side |-> q.side, amount |-> q.amount]]
        /\ Tally(s, q.side, q.amount)
  BY DEF CommitBet
<1>5. s \in SessionIds /\ sessions[s].status = "BETTING"
  BY DEF OpenSession
<1>. HIDE DEF q
<1>. USE <1>2, <1>5
<1>. WITNESS s \in SessionIds, b \in BetIds, q.player \in Players, q.side \in Sides,
             q.amount \in Stakes
<1>. QED
  BY <1>3, <1>4, <1>5 DEF Tally


\* The rows of a set that take from a wallet, and those that give to it.
RowsFrom(rows, o) == {e \in rows : e.from = o}
RowsTo(rows, o) == {e \in rows : e.to = o}

\* What rows amount to is a number, and adds up over disjoint sets of rows.
LEMMA RowTotals ==
  ASSUME NEW R \in SUBSET Row, IsFiniteSet(R), NEW T \in SUBSET Row, IsFiniteSet(T),
         R \cap T = {}
  PROVE  /\ RowTotal(R) \in Nat /\ RowTotal(T) \in Nat
         /\ RowTotal(R \cup T) = RowTotal(R) + RowTotal(T)
<1> DEFINE f == [e \in R \cup T |-> e.amount]
           fR == [e \in R |-> e.amount]
           fT == [e \in T |-> e.amount]
<1>1. \A e \in R \cup T : f[e] \in Nat
  BY DEF Row
<1>2. Total(f, R \cup T) = Total(f, R) + Total(f, T)
  BY <1>1, TotalSplit
<1>3. Total(fR, R) = Total(f, R) /\ Total(fT, T) = Total(f, T)
  <2>1. (\A e \in R : fR[e] = f[e]) /\ (\A e \in T : fT[e] = f[e])
    OBVIOUS
  <2>. HIDE DEF f, fR, fT
  <2>. QED
    BY <2>1, TotalEqual
<1>4. Total(f, R) \in Nat /\ Total(f, T) \in Nat
  <2>. HIDE DEF f
  <2>. QED
    BY <1>1, TotalType
<1>. QED
  BY <1>2, <1>3, <1>4 DEF RowTotal

\* No rows amount to nothing.
LEMMA NoRows == RowTotal({}) = 0
BY TotalEmpty DEF RowTotal

\* One row amounts to what it says.
LEMMA OneRow == ASSUME NEW e \in Row PROVE RowTotal({e}) = e.amount
<1> DEFINE f == [d \in {e} |-> d.amount]
<1>1. f[e] \in Nat /\ f[e] = e.amount
  BY DEF Row
<1>2. Total(f, {e}) = f[e]
  <2>. HIDE DEF f
  <2>. QED
    BY <1>1, TotalOne
<1>. QED
  BY <1>1, <1>2 DEF RowTotal

\* New rows, written together with the balances they change, keep the books balanced.
LEMMA Posting ==
  ASSUME TypeOK, TypeOK', IsFiniteSet(ledger), LedgerBalances,
         NEW rows \in SUBSET Row, IsFiniteSet(rows), rows \cap ledger = {},
         ledger' = ledger \cup rows,
         \A o \in Wallets : wallet'[o] + RowTotal(RowsFrom(rows, o))
                              = wallet[o] + RowTotal(RowsTo(rows, o))
  PROVE  IsFiniteSet(ledger') /\ LedgerBalances'
<1>1. IsFiniteSet(ledger')
  BY FS_Union
<1>2. ASSUME NEW o \in Wallets
      PROVE  wallet'[o] + RowTotal(RowsFrom(ledger', o))
               = (IF o = Pool THEN 0 ELSE InitialBalance[o]) + RowTotal(RowsTo(ledger', o))
  <2>1. /\ RowsFrom(ledger', o) = RowsFrom(ledger, o) \cup RowsFrom(rows, o)
        /\ RowsTo(ledger', o) = RowsTo(ledger, o) \cup RowsTo(rows, o)
    BY DEF RowsFrom, RowsTo
  <2>2. /\ RowsFrom(ledger, o) \in SUBSET Row /\ RowsFrom(rows, o) \in SUBSET Row
        /\ RowsTo(ledger, o) \in SUBSET Row /\ RowsTo(rows, o) \in SUBSET Row
    BY DEF RowsFrom, RowsTo, TypeOK
  <2>3. /\ RowsFrom(ledger, o) \cap RowsFrom(rows, o) = {}
        /\ RowsTo(ledger, o) \cap RowsTo(rows, o) = {}
    BY DEF RowsFrom, RowsTo
  <2>4. /\ IsFiniteSet(RowsFrom(ledger, o)) /\ IsFiniteSet(RowsFrom(rows, o))
        /\ IsFiniteSet(RowsTo(ledger, o)) /\ IsFiniteSet(RowsTo(rows, o))
    BY FS_Subset DEF RowsFrom, RowsTo
  <2>5. /\ RowTotal(RowsFrom(ledger, o)) \in Nat /\ RowTotal(RowsFrom(rows, o)) \in Nat
        /\ RowTotal(RowsFrom(ledger', o))
             = RowTotal(RowsFrom(ledger, o)) + RowTotal(RowsFrom(rows, o))
    BY <2>1, <2>2, <2>3, <2>4, RowTotals
  <2>6. /\ RowTotal(RowsTo(ledger, o)) \in Nat /\ RowTotal(RowsTo(rows, o)) \in Nat
        /\ RowTotal(RowsTo(ledger', o))
             = RowTotal(RowsTo(ledger, o)) + RowTotal(RowsTo(rows, o))
    BY <2>1, <2>2, <2>3, <2>4, RowTotals
  <2>7. wallet[o] \in Nat /\ wallet'[o] \in Nat
    BY DEF TypeOK
  <2>8. (IF o = Pool THEN 0 ELSE InitialBalance[o]) \in Nat
    BY DEF Wallets
  <2>9. wallet[o] + RowTotal(RowsFrom(ledger, o))
          = (IF o = Pool THEN 0 ELSE InitialBalance[o]) + RowTotal(RowsTo(ledger, o))
    BY DEF LedgerBalances, RowsFrom, RowsTo
  <2>10. wallet'[o] + RowTotal(RowsFrom(rows, o)) = wallet[o] + RowTotal(RowsTo(rows, o))
    OBVIOUS
  <2>. HIDE DEF LedgerBalances
  <2>. QED
    BY <2>5, <2>6, <2>7, <2>8, <2>9, <2>10
<1>. QED
  BY <1>1, <1>2 DEF LedgerBalances, RowsFrom, RowsTo

\* The payments of a list of bets.
PaymentRows(type, paid, S) == {PaymentRow(type, b, paid[b]) : b \in S}

\* Payments have a row each: together the rows amount to what is paid.
LEMMA PaymentsTotal ==
  ASSUME TypeOK, NEW type \in {"BET_WIN_CREDIT", "BET_REFUND"}, NEW S \in SUBSET BetIds,
         NEW paid, \A b \in S : paid[b] \in Nat
  PROVE  /\ PaymentRows(type, paid, S) \in SUBSET Row
         /\ IsFiniteSet(PaymentRows(type, paid, S))
         /\ RowTotal(PaymentRows(type, paid, S)) = Total(paid, S)
<1> DEFINE rows == PaymentRows(type, paid, S)
           row  == [b \in S |-> PaymentRow(type, b, paid[b])]
           f    == [e \in rows |-> e.amount]
<1>1. IsFiniteSet(S)
  BY FS_Subset
<1>2. \A b \in S : PaymentRow(type, b, paid[b]) \in Row
  BY PaymentRowType
<1>3. rows \in SUBSET Row
  BY <1>2 DEF PaymentRows
<1>4. row \in Bijection(S, rows)
  <2>1. row \in [S -> rows] /\ \A e \in rows : \E b \in S : row[b] = e
    BY DEF PaymentRows
  <2>2. ASSUME NEW b \in S, NEW c \in S, row[b] = row[c] PROVE b = c
    <3>1. row[b].ref = b /\ row[c].ref = c
      BY DEF PaymentRow, Transfer
    <3>. QED
      BY <2>2, <3>1
  <2>. QED
    BY <2>1, <2>2 DEF Bijection, Injection, IsInjective, Surjection
<1>5. \A b \in S : f[row[b]] = paid[b]
  BY DEF PaymentRows, PaymentRow, Transfer
<1>. HIDE DEF row, f, rows
<1>6. IsFiniteSet(rows) /\ Total(f, rows) = Total(paid, S)
  BY <1>1, <1>4, <1>5, TotalImage
<1>. QED
  BY <1>3, <1>6 DEF RowTotal, f, rows

\* The bets in a list that are o's.
Owned(S, o) == {b \in S : bets[b].player = o}

\* What is paid goes from the pool to the players whose bets they are.
LEMMA PaymentsMove ==
  ASSUME TypeOK, NEW type \in {"BET_WIN_CREDIT", "BET_REFUND"}, NEW S \in SUBSET BetIds,
         NEW paid, \A b \in S : paid[b] \in Nat, NEW o \in Wallets
  PROVE  LET rows == PaymentRows(type, paid, S) IN
         /\ RowTotal(RowsFrom(rows, o)) = IF o = Pool THEN Total(paid, S) ELSE 0
         /\ RowTotal(RowsTo(rows, o)) =
              IF o = Pool THEN 0 ELSE Total(paid, Owned(S, o))
<1> DEFINE rows == PaymentRows(type, paid, S)
           own  == Owned(S, o)
<1>1. \A b \in S : bets[b].player # Pool
  <2>1. \A b \in S : bets[b] \in Bet
    BY DEF TypeOK
  <2>. QED
    BY <2>1 DEF Bet
<1>2. RowsFrom(rows, o) = IF o = Pool THEN rows ELSE {}
  BY DEF RowsFrom, PaymentRows, PaymentRow, Transfer
<1>3. RowsTo(rows, o) = PaymentRows(type, paid, own)
  BY DEF RowsTo, PaymentRows, PaymentRow, Transfer, Owned
<1>4. RowTotal(rows) = Total(paid, S)
  BY PaymentsTotal
<1>5. RowTotal(PaymentRows(type, paid, own)) = Total(paid, own)
  <2>1. own \in SUBSET BetIds /\ \A b \in own : paid[b] \in Nat
    BY DEF Owned
  <2>. QED
    BY <2>1, PaymentsTotal
<1>6. o = Pool => own = {}
  BY <1>1 DEF Owned
<1>7. Total(paid, {}) = 0
  BY TotalEmpty
<1>. HIDE DEF rows, own
<1>. QED
  BY <1>2, <1>3, <1>4, <1>5, <1>6, <1>7, NoRows DEF rows, own

\* The claims that got something are all that was paid.
LEMMA TotalPositive ==
  ASSUME NEW S, NEW f, \A x \in S : f[x] \in Nat
  PROVE  Total(f, {x \in S : f[x] > 0}) = Total(f, S)
<1>1. Coins(f, {x \in S : f[x] > 0}) = Coins(f, S)
  <2>1. ASSUME NEW c \in Coins(f, S) PROVE c \in Coins(f, {x \in S : f[x] > 0})
    <3>1. PICK x \in S : c \in {x} \X (1 .. f[x])
      BY <2>1 DEF Coins
    <3>2. f[x] > 0
      BY <3>1
    <3>. QED
      BY <3>1, <3>2 DEF Coins
  <2>2. Coins(f, {x \in S : f[x] > 0}) \subseteq Coins(f, S)
    BY DEF Coins
  <2>. QED
    BY <2>1, <2>2
<1>. QED
  BY <1>1 DEF Total

\* A bet that is not placed has not been paid for.
DebitOnce == \A b \in BetIds : bets[b].status = "NONE" => ~HasRow("BET_DEBIT", b)


\* The points of a cycle from the opening of a session to its settlement.
Playing == {"inserted", "betting", "closed", "initiating", "running", "drawn", "revealed",
            "settling"}

\* The pool is filled up once for a session: every cycle plays a session of its own, that
\* no other cycle has settled.
TopUpOnce ==
  /\ \A s \in SessionIds : sessions[s].status = "NONE" => ~HasRow("SYSTEM_POOL_TOPUP", s)
  /\ \A i \in Schedulers, g \in Games : task[i][g].pc \in Playing =>
       /\ task[i][g].session \in SessionIds
       /\ sessions[task[i][g].session].status # "NONE"
       /\ ~HasRow("SYSTEM_POOL_TOPUP", task[i][g].session)
  /\ \A i, j \in Schedulers, g, h \in Games :
       /\ task[i][g].pc \in Playing /\ task[j][h].pc \in Playing
       /\ task[i][g].session = task[j][h].session
       => i = j /\ g = h

\* The inductive invariant of the ledger.
LedgerInv == IsFiniteSet(ledger) /\ LedgerBalances /\ DebitOnce /\ TopUpOnce

\* The one coroutine that a step of a coroutine changes.
LEMMA TaskStep ==
  ASSUME TypeOK, NEW i \in Schedulers, NEW g \in Games, NEW t, SetTask(i, g, t)
  PROVE  \A j \in Schedulers, h \in Games :
           task'[j][h] = IF j = i /\ h = g THEN t ELSE task[j][h]
<1>1. task \in [Schedulers -> [Games -> Task]]
  BY DEF TypeOK
<1>2. task[i] \in [Games -> Task]
  BY <1>1
<1>3. \A j \in Schedulers : task'[j] = IF j = i THEN [task[i] EXCEPT ![g] = t] ELSE task[j]
  BY <1>1 DEF SetTask
<1>. QED
  BY <1>2, <1>3

\* A session that was created does not vanish.
LEMMA SessionsRemain ==
  ASSUME TypeOK, [Next]_vars, NEW s \in SessionIds, sessions[s].status # "NONE"
  PROVE  sessions'[s].status # "NONE"
<1>0. sessions[s] \in Session
  BY DEF TypeOK
<1>1. ASSUME NEW i \in Schedulers, NEW g \in Games, NEW status, status # "NONE",
             SetStatus(i, g, status)
      PROVE  sessions'[s].status # "NONE"
  <2>1. sessions'[s] = IF s = task[i][g].session THEN [sessions[s] EXCEPT !.status = status]
                       ELSE sessions[s]
    BY <1>1 DEF SetStatus, TypeOK
  <2>. QED
    BY <1>0, <1>1, <2>1 DEF Session
<1>2. ASSUME NEW r \in Requests, Bettor(r) PROVE sessions'[s].status # "NONE"
  <2>1. CASE CommitBet(r)
    <3>1. PICK u \in SessionIds, x \in Sides, a \in Stakes :
            sessions' = [sessions EXCEPT ![u].total[x] = @ + a]
      BY <2>1, BetPlaced
    <3>2. sessions'[s] = IF s = u THEN [sessions[s] EXCEPT !.total[x] = @ + a]
                         ELSE sessions[s]
      BY <3>1 DEF TypeOK
    <3>. QED
      BY <1>0, <3>2 DEF Session
  <2>. QED
    BY <1>2, <2>1 DEF Bettor, ReadPhase, CheckActive, RejectBet, database
<1>3. ASSUME NEW i \in Schedulers, NEW g \in Games, Cycle(i, g) \/ Raise(i, g)
      PROVE  sessions'[s].status # "NONE"
  <2>1. CASE InsertSession(i, g)
    <3>1. PICK u \in SessionIds : sessions' =
            [sessions EXCEPT ![u] = [@ EXCEPT !.status = "BETTING", !.game = g]]
      BY <2>1 DEF InsertSession
    <3>2. sessions'[s] = IF s = u THEN [sessions[s] EXCEPT !.status = "BETTING", !.game = g]
                         ELSE sessions[s]
      BY <3>1 DEF TypeOK
    <3>. QED
      BY <1>0, <3>2 DEF Session
  <2>2. CASE SettleBets(i, g)
    <3>1. sessions'[s] =
            IF s = task[i][g].session
            THEN [sessions[s] EXCEPT !.status = "COMPLETED", !.winner = task[i][g].winner]
            ELSE sessions[s]
      BY <2>2 DEF SettleBets, TypeOK
    <3>. QED
      BY <1>0, <3>1 DEF Session
  <2>3. CASE CloseBetting(i, g) \/ DrawResult(i, g) \/ FailSession(i, g)
    BY <1>1, <2>3 DEF CloseBetting, DrawResult, FailSession
  <2>4. CASE UNCHANGED sessions
    BY <2>4
  <2>. QED
    BY <1>3, <2>1, <2>2, <2>3, <2>4
    DEF Cycle, Acquire, ShowBetting, ShowInitiating, ShowRunning, RevealWinner, ReadBets,
        ShowSettling, LeaveSession, ShowIdle, Raise, database
<1>4. ASSUME NEW i \in Schedulers, Exit(i) \/ Recover(i) PROVE sessions'[s].status # "NONE"
  <2>1. CASE RefundSession(i)
    <3>1. sessions'[s] = IF s = recovery[i].session
                         THEN [sessions[s] EXCEPT !.status = "FAILED"] ELSE sessions[s]
      BY <2>1 DEF RefundSession, TypeOK
    <3>. QED
      BY <1>0, <3>1 DEF Session
  <2>. QED
    BY <1>4, <2>1 DEF Recover, Exit, Start, ReadStuck, EndRecovery, database
<1>5. ASSUME NEW g \in Games, Expire(g) PROVE sessions'[s].status # "NONE"
  BY <1>5 DEF Expire, database
<1>6. ASSUME OutOfSessions \/ UNCHANGED vars PROVE sessions'[s].status # "NONE"
  BY <1>6 DEF OutOfSessions, vars, database
<1>. QED
  BY <1>2, <1>3, <1>4, <1>5, <1>6 DEF Next

\* A coroutine comes to a point between opening and settlement by opening a session, or
\* from another such point, and keeps its session on the way.
LEMMA PlayKept ==
  ASSUME TypeOK, [Next]_vars, NEW i \in Schedulers, NEW g \in Games,
         task'[i][g].pc \in Playing
  PROVE  \/ InsertSession(i, g)
         \/ /\ task[i][g].pc \in Playing /\ task'[i][g].session = task[i][g].session
            /\ ~SettleBets(i, g)
<1> DEFINE Kept == /\ task[i][g].pc \in Playing
                   /\ task'[i][g].session = task[i][g].session
<1>0. ~SettleBets(i, g)
  <2>1. ASSUME SettleBets(i, g) PROVE FALSE
    <3>1. SetTask(i, g, [task[i][g] EXCEPT !.pc = "settled"]) /\ task[i][g] \in Task
      BY <2>1 DEF SettleBets, Move, TypeOK
    <3>2. task'[i][g] = [task[i][g] EXCEPT !.pc = "settled"]
      BY <3>1, TaskStep
    <3>. QED
      BY <3>1, <3>2 DEF Playing, Task
  <2>. QED
    BY <2>1
<1>. SUFFICES InsertSession(i, g) \/ Kept
  BY <1>0
<1>1. CASE UNCHANGED task
  BY <1>1
<1>2. ASSUME NEW j \in Schedulers, NEW h \in Games, Cycle(j, h) \/ Raise(j, h)
      PROVE  InsertSession(i, g) \/ Kept
  <2>0. task[j][h] \in Task
    BY DEF TypeOK
  <2>1. ASSUME NEW t, SetTask(j, h, t),
               t.pc \in Playing => task[j][h].pc \in Playing /\ t.session = task[j][h].session
        PROVE  Kept
    <3>1. task'[i][g] = IF i = j /\ g = h THEN t ELSE task[i][g]
      BY <2>1, TaskStep
    <3>. QED
      BY <2>1, <3>1
  <2>2. ASSUME NEW from, NEW to, Move(j, h, from, to),
               to \notin Playing \/ from \in Playing
        PROVE  Kept
    <3> DEFINE t == [task[j][h] EXCEPT !.pc = to]
    <3>1. t.pc = to /\ t.session = task[j][h].session
      BY <2>0 DEF Task
    <3>2. SetTask(j, h, t) /\ task[j][h].pc = from
      BY <2>2 DEF Move
    <3>. HIDE DEF t
    <3>. QED
      BY <2>1, <2>2, <3>1, <3>2
  <2>3. CASE DrawResult(j, h)
    <3>1. PICK w \in Sides : SetTask(j, h, [task[j][h] EXCEPT !.pc = "drawn", !.winner = w])
      BY <2>3 DEF DrawResult, Favoured
    <3>2. task[j][h].pc = "running"
      BY <2>3 DEF DrawResult
    <3> DEFINE t == [task[j][h] EXCEPT !.pc = "drawn", !.winner = w]
    <3>3. t.session = task[j][h].session
      BY <2>0 DEF Task
    <3>. HIDE DEF t
    <3>. QED
      BY <2>1, <3>1, <3>2, <3>3 DEF Playing, t
  <2>4. CASE ReadBets(j, h)
    <3> DEFINE t == [task[j][h] EXCEPT !.pc = "settling",
                                       !.batch = PlacedIn(task[j][h].session)]
    <3>1. SetTask(j, h, t) /\ task[j][h].pc = "revealed"
      BY <2>4 DEF ReadBets
    <3>2. t.session = task[j][h].session
      BY <2>0 DEF Task
    <3>. HIDE DEF t
    <3>. QED
      BY <2>1, <3>1, <3>2 DEF Playing
  <2>5. CASE InsertSession(j, h)
    <3>1. CASE j = i /\ h = g
      BY <2>5, <3>1
    <3>2. CASE ~(j = i /\ h = g)
      <4>1. PICK s : SetTask(j, h, [task[j][h] EXCEPT !.pc = "inserted", !.session = s])
        BY <2>5 DEF InsertSession
      <4>2. task'[i][g] = task[i][g]
        BY <3>2, <4>1, TaskStep
      <4>. QED
        BY <4>2
    <3>. QED
      BY <3>1, <3>2
  <2>6. CASE ShowIdle(j, h)
    <3>1. SetTask(j, h, TaskAt("begin")) /\ TaskAt("begin").pc = "begin"
      BY <2>6 DEF ShowIdle, TaskAt
    <3>. QED
      BY <2>1, <3>1 DEF Playing
  <2>7. CASE Raise(j, h)
    <3>1. SetTask(j, h, [task[j][h] EXCEPT !.pc = "error"])
      BY <2>7 DEF Raise
    <3>2. [task[j][h] EXCEPT !.pc = "error"].pc = "error"
      BY <2>0 DEF Task
    <3>. QED
      BY <2>1, <3>1, <3>2 DEF Playing
  <2>. QED
    BY <1>2, <2>2, <2>3, <2>4, <2>5, <2>6, <2>7
    DEF Cycle, Acquire, ShowBetting, CloseBetting, ShowInitiating, ShowRunning,
        RevealWinner, SettleBets, ShowSettling, FailSession, LeaveSession, Playing
<1>3. ASSUME NEW j \in Schedulers, Exit(j) \/ EndRecovery(j) PROVE Kept
  <2>1. PICK pc \in {"down", "wait"} : task' = [task EXCEPT ![j] = [k \in Games |-> TaskAt(pc)]]
    BY <1>3 DEF Exit, EndRecovery
  <2>2. task'[i][g] = IF i = j THEN TaskAt(pc) ELSE task[i][g]
    BY <2>1 DEF TypeOK
  <2>3. TaskAt(pc).pc \notin Playing
    BY DEF TaskAt, Playing
  <2>. QED
    BY <2>2, <2>3
<1>4. ASSUME NEW j \in Schedulers, Recover(j), ~EndRecovery(j) PROVE UNCHANGED task
  BY <1>4 DEF Recover, Start, ReadStuck, RefundSession
<1>5. ASSUME NEW r \in Requests, Bettor(r) PROVE UNCHANGED task
  BY <1>5 DEF Bettor, ReadPhase, CheckActive, CommitBet, RejectBet
<1>6. ASSUME NEW h \in Games, Expire(h) PROVE UNCHANGED task
  BY <1>6 DEF Expire
<1>7. ASSUME OutOfSessions \/ UNCHANGED vars PROVE UNCHANGED task
  BY <1>7 DEF OutOfSessions, vars
<1>. QED
  BY <1>1, <1>2, <1>3, <1>4, <1>5, <1>6, <1>7 DEF Next


\* Opening a session takes a number nobody has used.
LEMMA InsertFresh ==
  ASSUME TypeOK, NEW i \in Schedulers, NEW g \in Games, InsertSession(i, g)
  PROVE  /\ task[i][g].pc = "begin" /\ task'[i][g].session \in SessionIds
         /\ sessions[task'[i][g].session].status = "NONE"
         /\ sessions'[task'[i][g].session].status = "BETTING"
<1>1. PICK s \in SessionIds :
        /\ sessions[s].status = "NONE"
        /\ sessions' = [sessions EXCEPT ![s] = [@ EXCEPT !.status = "BETTING", !.game = g]]
        /\ SetTask(i, g, [task[i][g] EXCEPT !.pc = "inserted", !.session = s])
  BY DEF InsertSession
<1>2. task[i][g] \in Task /\ sessions[s] \in Session
  BY DEF TypeOK
<1>3. task'[i][g] = [task[i][g] EXCEPT !.pc = "inserted", !.session = s]
  BY <1>1, TaskStep
<1>4. task'[i][g].session = s
  BY <1>2, <1>3 DEF Task
<1>5. sessions'[s] = [sessions[s] EXCEPT !.status = "BETTING", !.game = g]
  BY <1>1 DEF TypeOK
<1>6. sessions'[s].status = "BETTING"
  BY <1>2, <1>5 DEF Session
<1>. QED
  BY <1>1, <1>4, <1>6 DEF InsertSession

\* What a settlement pays, and the rows it writes.
LEMMA SettleMoney ==
  ASSUME TypeOK, NEW i \in Schedulers, NEW g \in Games, SettleBets(i, g)
  PROVE  \E pool \in Nat, S \in SUBSET BetIds : \E due \in [S -> Nat] :
           \E paid \in Payments(pool, due) :
             /\ pool >= wallet[Pool] /\ \A b \in S : ~HasRow("BET_WIN_CREDIT", b)
             /\ wallet' = Paying(pool, paid)
             /\ ledger' = ledger
                  \cup (IF pool = wallet[Pool] THEN {}
                        ELSE {Transfer("SYSTEM_POOL_TOPUP", task[i][g].session, None, Pool,
                                       pool - wallet[Pool])})
                  \cup PaymentRows("BET_WIN_CREDIT", paid, S)
<1> DEFINE t       == task[i][g]
           winners == Winners(t)
           prize   == [b \in winners |-> Payout(bets[b].amount)]
           pool    == Larger(wallet[Pool], Total(prize, winners))
           payees  == {b \in winners : ~HasRow("BET_WIN_CREDIT", b)}
           due     == [b \in payees |-> prize[b]]
<1>1. t \in Task
  BY DEF TypeOK
<1>2. /\ winners \in SUBSET BetIds /\ prize \in [winners -> Nat]
      /\ pool \in Nat /\ pool >= wallet[Pool]
  BY <1>1, SettlePays
<1>3. payees \in SUBSET BetIds /\ due \in [payees -> Nat]
  BY <1>2
<1>4. \A b \in payees : ~HasRow("BET_WIN_CREDIT", b)
  OBVIOUS
<1>. HIDE DEF t, winners, prize, pool, payees, due
<1>5. PICK paid \in Payments(pool, due) :
        /\ wallet' = Paying(pool, paid)
        /\ ledger' = ledger
             \cup (IF pool = wallet[Pool] THEN {}
                   ELSE {Transfer("SYSTEM_POOL_TOPUP", t.session, None, Pool,
                                  pool - wallet[Pool])})
             \cup PaymentRows("BET_WIN_CREDIT", paid, payees)
  BY DEF SettleBets, t, winners, prize, pool, payees, due, PaymentRows
<1>6. t = task[i][g]
  BY DEF t
<1>. USE <1>2, <1>3
<1>. WITNESS pool \in Nat, payees \in SUBSET BetIds
<1>. WITNESS due \in [payees -> Nat]
<1>. WITNESS paid \in Payments(pool, due)
<1>. QED
  BY <1>4, <1>5, <1>6

\* The pool is filled up for the session that is being settled.
LEMMA TopUpWriter ==
  ASSUME TypeOK, [Next]_vars, NEW s \in SessionIds, HasRow("SYSTEM_POOL_TOPUP", s)'
  PROVE  \/ HasRow("SYSTEM_POOL_TOPUP", s)
         \/ \E i \in Schedulers, g \in Games : SettleBets(i, g) /\ task[i][g].session = s
<1>1. PICK e \in ledger' : e.type = "SYSTEM_POOL_TOPUP" /\ e.ref = s
  BY DEF HasRow
<1>. SUFFICES ASSUME e \notin ledger
              PROVE  \E i \in Schedulers, g \in Games :
                       SettleBets(i, g) /\ task[i][g].session = s
  BY <1>1 DEF HasRow
<1>2. ASSUME NEW r \in Requests, CommitBet(r) PROVE FALSE
  <2>1. \A b, p, a : Transfer("BET_DEBIT", b, p, Pool, a).type = "BET_DEBIT"
    BY DEF Transfer
  <2>2. PICK b, p, a : ledger' = ledger \cup {Transfer("BET_DEBIT", b, p, Pool, a)}
    BY <1>2, BetPlaced
  <2>. QED
    BY <1>1, <2>1, <2>2
<1>3. ASSUME NEW i \in Schedulers, RefundSession(i) PROVE FALSE
  <2> DEFINE owed == {b \in recovery[i].batch : ~HasRow("BET_REFUND", b)}
  <2>1. PICK paid : ledger' = ledger \cup
          {PaymentRow("BET_REFUND", b, paid[b]) : b \in {c \in owed : paid[c] > 0}}
    BY <1>3 DEF RefundSession
  <2>2. PICK b : e = PaymentRow("BET_REFUND", b, paid[b])
    BY <1>1, <2>1
  <2>. QED
    BY <1>1, <2>2 DEF PaymentRow, Transfer
<1>4. ASSUME NEW i \in Schedulers, NEW g \in Games, SettleBets(i, g)
      PROVE  task[i][g].session = s
  <2> DEFINE TopUp(n) == Transfer("SYSTEM_POOL_TOPUP", task[i][g].session, None, Pool, n)
  <2>0. PICK pool \in Nat, S \in SUBSET BetIds : \E due \in [S -> Nat] :
          \E paid \in Payments(pool, due) :
            ledger' = ledger
              \cup (IF pool = wallet[Pool] THEN {} ELSE {TopUp(pool - wallet[Pool])})
              \cup PaymentRows("BET_WIN_CREDIT", paid, S)
    BY <1>4, SettleMoney
  <2>1. PICK paid : ledger' = ledger
              \cup (IF pool = wallet[Pool] THEN {} ELSE {TopUp(pool - wallet[Pool])})
              \cup PaymentRows("BET_WIN_CREDIT", paid, S)
    BY <2>0
  <2>2. \A b : PaymentRow("BET_WIN_CREDIT", b, paid[b]).type = "BET_WIN_CREDIT"
    BY DEF PaymentRow, Transfer
  <2>3. TopUp(pool - wallet[Pool]).ref = task[i][g].session
    BY DEF Transfer
  <2>. HIDE DEF TopUp
  <2>. QED
    BY <1>1, <2>1, <2>2, <2>3 DEF PaymentRows
<1>. QED
  BY <1>1, <1>2, <1>3, <1>4, MoneyWriters

LEMMA TopUpNext ==
  ASSUME TypeOK, TopUpOnce, [Next]_vars
  PROVE  TopUpOnce'
<1>0. \A i, j \in Schedulers, g, h \in Games :
        /\ task[i][g].pc \in Playing /\ task[j][h].pc \in Playing
        /\ task[i][g].session = task[j][h].session
        => i = j /\ g = h
  BY DEF TopUpOnce
<1>1. ASSUME NEW i \in Schedulers, NEW g \in Games, SettleBets(i, g)
      PROVE  task[i][g].pc \in Playing
  BY <1>1 DEF SettleBets, Move, Playing
<1>2. ASSUME NEW s \in SessionIds, sessions[s].status = "NONE"
      PROVE  ~HasRow("SYSTEM_POOL_TOPUP", s)'
  BY <1>1, <1>2, TopUpWriter DEF TopUpOnce
<1>3. ASSUME NEW s \in SessionIds, sessions'[s].status = "NONE"
      PROVE  ~HasRow("SYSTEM_POOL_TOPUP", s)'
  BY <1>2, <1>3, SessionsRemain
<1>4. ASSUME NEW i \in Schedulers, NEW g \in Games, task'[i][g].pc \in Playing,
             NEW s, s = task'[i][g].session
      PROVE  s \in SessionIds /\ sessions'[s].status # "NONE" /\ ~HasRow("SYSTEM_POOL_TOPUP", s)'
  <2>1. CASE InsertSession(i, g)
    BY <1>2, <1>4, <2>1, InsertFresh
  <2>2. CASE ~InsertSession(i, g)
    <3>1. task[i][g].pc \in Playing /\ s = task[i][g].session /\ ~SettleBets(i, g)
      BY <1>4, <2>2, PlayKept
    <3>2. /\ s \in SessionIds /\ sessions[s].status # "NONE"
          /\ ~HasRow("SYSTEM_POOL_TOPUP", s)
      BY <3>1 DEF TopUpOnce
    <3>3. ASSUME NEW j \in Schedulers, NEW h \in Games, SettleBets(j, h),
                 task[j][h].session = s
          PROVE  FALSE
      <4>1. task[j][h].pc \in Playing
        BY <1>1, <3>3
      <4>2. i = j /\ g = h
        BY <1>0, <3>1, <3>3, <4>1
      <4>. QED
        BY <3>1, <3>3, <4>2
    <3>4. ~HasRow("SYSTEM_POOL_TOPUP", s)'
      BY <3>2, <3>3, TopUpWriter
    <3>5. sessions'[s].status # "NONE"
      BY <3>2, SessionsRemain
    <3>. QED
      BY <3>2, <3>4, <3>5
  <2>. QED
    BY <2>1, <2>2
<1>5. ASSUME NEW i \in Schedulers, NEW g \in Games, NEW j \in Schedulers, NEW h \in Games,
             task'[i][g].pc \in Playing, task'[j][h].pc \in Playing,
             task'[i][g].session = task'[j][h].session, InsertSession(i, g)
      PROVE  i = j /\ g = h
  <2>1. sessions[task'[i][g].session].status = "NONE"
    BY <1>5, InsertFresh
  <2>2. CASE InsertSession(j, h)
    <3>1. PICK t : SetTask(i, g, t)
      BY <1>5 DEF InsertSession
    <3>2. ~(j = i /\ h = g) => task'[j][h] = task[j][h]
      BY <3>1, TaskStep
    <3>3. task[j][h].pc = "begin"
      BY <2>2 DEF InsertSession
    <3>. QED
      BY <1>5, <3>2, <3>3 DEF Playing
  <2>3. CASE ~InsertSession(j, h)
    <3>1. task[j][h].pc \in Playing /\ task'[j][h].session = task[j][h].session
      BY <1>5, <2>3, PlayKept
    <3>. QED
      BY <1>5, <2>1, <3>1 DEF TopUpOnce
  <2>. QED
    BY <2>2, <2>3
<1>6. ASSUME NEW i \in Schedulers, NEW g \in Games, NEW j \in Schedulers, NEW h \in Games,
             task'[i][g].pc \in Playing, task'[j][h].pc \in Playing,
             task'[i][g].session = task'[j][h].session
      PROVE  i = j /\ g = h
  <2>1. CASE InsertSession(i, g) \/ InsertSession(j, h)
    BY <1>5, <1>6, <2>1
  <2>2. CASE ~InsertSession(i, g) /\ ~InsertSession(j, h)
    <3>1. /\ task[i][g].pc \in Playing /\ task'[i][g].session = task[i][g].session
          /\ task[j][h].pc \in Playing /\ task'[j][h].session = task[j][h].session
      BY <1>6, <2>2, PlayKept
    <3>2. task[i][g].session = task[j][h].session
      BY <1>6, <3>1
    <3>. QED
      BY <1>0, <3>1, <3>2
  <2>. QED
    BY <2>1, <2>2
<1>7. \A s \in SessionIds : sessions'[s].status = "NONE" => ~HasRow("SYSTEM_POOL_TOPUP", s)'
  BY <1>3
<1>8. \A i \in Schedulers, g \in Games : task'[i][g].pc \in Playing =>
        /\ task'[i][g].session \in SessionIds
        /\ sessions'[task'[i][g].session].status # "NONE"
        /\ \A e \in ledger' :
             ~(e.type = "SYSTEM_POOL_TOPUP" /\ e.ref = task'[i][g].session)
  BY <1>4 DEF HasRow
<1>. QED
  BY <1>6, <1>7, <1>8 DEF TopUpOnce, HasRow

\* A bet takes its stake from the player's wallet to the pool, and says so in a row.
LEMMA LedgerBet ==
  ASSUME TypeOK, TypeOK', LedgerInv, NEW r \in Requests, CommitBet(r)
  PROVE  IsFiniteSet(ledger') /\ LedgerBalances' /\ DebitOnce'
<1>1. PICK s \in SessionIds, b \in BetIds, p \in Players, x \in Sides, a \in Stakes :
        /\ bets[b].status = "NONE" /\ wallet[p] >= a
        /\ wallet' = [wallet EXCEPT ![p] = @ - a, ![Pool] = @ + a]
        /\ ledger' = ledger \cup {Transfer("BET_DEBIT", b, p, Pool, a)}
        /\ bets' = [bets EXCEPT ![b] = [status |-> "PLACED", session |-> s, player |-> p,
                                        side |-> x, amount |-> a]]
  BY BetPlaced
<1> DEFINE e == Transfer("BET_DEBIT", b, p, Pool, a)
<1>2. a \in Nat /\ p # Pool /\ p \in Wallets /\ Pool \in Wallets
  BY DEF Wallets
<1>3. e \in Row /\ e.from = p /\ e.to = Pool /\ e.amount = a /\ e.type = "BET_DEBIT" /\ e.ref = b
  BY <1>2 DEF Row, Transfer
<1>4. e \notin ledger
  BY <1>1, <1>3 DEF LedgerInv, DebitOnce, HasRow
<1>5. DebitOnce'
  <2>1. ASSUME NEW c \in BetIds, bets'[c].status = "NONE" PROVE ~HasRow("BET_DEBIT", c)'
    <3>1. c # b /\ bets[c].status = "NONE"
      BY <1>1, <2>1 DEF TypeOK
    <3>2. ~HasRow("BET_DEBIT", c)
      BY <3>1 DEF LedgerInv, DebitOnce
    <3>. QED
      BY <1>1, <1>3, <3>1, <3>2 DEF HasRow
  <2>. QED
    BY <2>1 DEF DebitOnce, HasRow
<1>. HIDE DEF e
<1>6. ASSUME NEW o \in Wallets
      PROVE  wallet'[o] + RowTotal(RowsFrom({e}, o)) = wallet[o] + RowTotal(RowsTo({e}, o))
  <2>1. RowTotal({e}) = a /\ RowTotal({}) = 0
    BY <1>3, OneRow, NoRows
  <2>2. /\ RowsFrom({e}, o) = IF o = p THEN {e} ELSE {}
        /\ RowsTo({e}, o) = IF o = Pool THEN {e} ELSE {}
    BY <1>3 DEF RowsFrom, RowsTo
  <2>3. wallet[o] \in Nat
    BY DEF TypeOK
  <2>4. wallet'[o] = IF o = p THEN wallet[o] - a ELSE IF o = Pool THEN wallet[o] + a
                     ELSE wallet[o]
    BY <1>1, <1>2 DEF TypeOK
  <2>5. wallet[o] - a + a = wallet[o]
    BY <1>2, <2>3
  <2>6. CASE o = p
    <3>1. RowsFrom({e}, o) = {e} /\ RowsTo({e}, o) = {}
      BY <1>2, <2>2, <2>6
    <3>2. wallet'[o] = wallet[o] - a
      BY <2>4, <2>6
    <3>3. RowTotal(RowsFrom({e}, o)) = a /\ RowTotal(RowsTo({e}, o)) = 0
      BY <2>1, <3>1
    <3>. QED
      BY <1>2, <2>3, <3>2, <3>3
  <2>7. CASE o = Pool
    <3>1. RowsFrom({e}, o) = {} /\ RowsTo({e}, o) = {e}
      BY <1>2, <2>2, <2>7
    <3>2. wallet'[o] = wallet[o] + a
      BY <1>2, <2>4, <2>7
    <3>3. RowTotal(RowsFrom({e}, o)) = 0 /\ RowTotal(RowsTo({e}, o)) = a
      BY <2>1, <3>1
    <3>. QED
      BY <1>2, <2>3, <3>2, <3>3
  <2>8. CASE o # p /\ o # Pool
    BY <2>1, <2>2, <2>3, <2>4, <2>8
  <2>. QED
    BY <2>6, <2>7, <2>8
<1>7. IsFiniteSet({e}) /\ {e} \in SUBSET Row /\ {e} \cap ledger = {} /\ ledger' = ledger \cup {e}
  BY <1>1, <1>3, <1>4, FS_Singleton DEF e
<1>8. IsFiniteSet(ledger') /\ LedgerBalances'
  BY <1>6, <1>7, Posting DEF LedgerInv
<1>. QED
  BY <1>5, <1>8

\* Payments have no row yet, when the idempotency check says so.
LEMMA PaymentsFresh ==
  ASSUME NEW type, NEW S, \A b \in S : ~HasRow(type, b), NEW paid
  PROVE  PaymentRows(type, paid, S) \cap ledger = {}
<1>1. \A b, n : PaymentRow(type, b, n).type = type /\ PaymentRow(type, b, n).ref = b
  BY DEF PaymentRow, Transfer
<1>. QED
  BY <1>1 DEF PaymentRows, HasRow

\* What the players and the pool hold after payments.
LEMMA PayingIs ==
  ASSUME TypeOK, NEW pool \in Nat, NEW S \in SUBSET BetIds, NEW due \in [S -> Nat],
         NEW paid \in Payments(pool, due), wallet' = Paying(pool, paid)
  PROVE  /\ paid \in [S -> Nat] /\ Total(paid, S) \in Nat /\ Total(paid, S) <= pool
         /\ wallet'[Pool] = pool - Total(paid, S)
         /\ \A o \in Wallets : o # Pool =>
              wallet'[o] = wallet[o] + Total(paid, Owned(S, o))
<1>1. IsFiniteSet(S)
  BY FS_Subset
<1>2. paid \in [S -> Nat] /\ Total(paid, S) <= pool
  BY <1>1, PaymentsBound
<1>3. Total(paid, S) \in Nat
  BY <1>1, <1>2, TotalType
<1>4. DOMAIN paid = S
  BY <1>2
<1>. QED
  BY <1>2, <1>3, <1>4 DEF Paying, Wallets, Owned


\* A settlement pays out of the pool, after filling it up, with a row for each payment.
LEMMA LedgerSettle ==
  ASSUME TypeOK, TypeOK', LedgerInv, NEW i \in Schedulers, NEW g \in Games, SettleBets(i, g)
  PROVE  IsFiniteSet(ledger') /\ LedgerBalances' /\ DebitOnce'
<1> DEFINE u == task[i][g].session
           TopUp(n) == Transfer("SYSTEM_POOL_TOPUP", u, None, Pool, n)
           Filling(n) == IF n = 0 THEN {} ELSE {TopUp(n)}
<1>0. Pool \in Wallets /\ wallet[Pool] \in Nat
  BY DEF TypeOK, Wallets
<1>1. PICK pool \in Nat, S \in SUBSET BetIds : \E due \in [S -> Nat] :
        \E paid \in Payments(pool, due) :
          /\ pool >= wallet[Pool] /\ \A b \in S : ~HasRow("BET_WIN_CREDIT", b)
          /\ wallet' = Paying(pool, paid)
          /\ ledger' = ledger
               \cup (IF pool = wallet[Pool] THEN {} ELSE {TopUp(pool - wallet[Pool])})
               \cup PaymentRows("BET_WIN_CREDIT", paid, S)
  BY SettleMoney
<1>2. PICK due \in [S -> Nat] :
        \E paid \in Payments(pool, due) :
          /\ pool >= wallet[Pool] /\ \A b \in S : ~HasRow("BET_WIN_CREDIT", b)
          /\ wallet' = Paying(pool, paid)
          /\ ledger' = ledger
               \cup (IF pool = wallet[Pool] THEN {} ELSE {TopUp(pool - wallet[Pool])})
               \cup PaymentRows("BET_WIN_CREDIT", paid, S)
  BY <1>1
<1>3. PICK paid \in Payments(pool, due) :
        /\ pool >= wallet[Pool] /\ \A b \in S : ~HasRow("BET_WIN_CREDIT", b)
        /\ wallet' = Paying(pool, paid)
        /\ ledger' = ledger
             \cup (IF pool = wallet[Pool] THEN {} ELSE {TopUp(pool - wallet[Pool])})
             \cup PaymentRows("BET_WIN_CREDIT", paid, S)
  BY <1>2
<1> DEFINE n    == pool - wallet[Pool]
           fill == Filling(n)
           pay  == PaymentRows("BET_WIN_CREDIT", paid, S)
           rows == fill \cup pay
<1>4. n \in Nat /\ (n = 0 <=> pool = wallet[Pool])
  BY <1>0, <1>3
<1>5. ledger' = ledger \cup rows
  BY <1>3, <1>4
<1>6. /\ paid \in [S -> Nat] /\ Total(paid, S) \in Nat /\ Total(paid, S) <= pool
      /\ wallet'[Pool] = pool - Total(paid, S)
      /\ \A o \in Wallets : o # Pool =>
           wallet'[o] = wallet[o] + Total(paid, Owned(S, o))
  <2>1. wallet' = Paying(pool, paid)
    BY <1>3
  <2>. HIDE DEF n, fill, pay, rows
  <2>. QED
    BY <2>1, PayingIs
<1>7. \A b \in S : paid[b] \in Nat
  BY <1>6
<1>8. pay \in SUBSET Row /\ IsFiniteSet(pay) /\ pay \cap ledger = {}
  BY <1>3, <1>7, PaymentsTotal, PaymentsFresh
<1>9. task[i][g].pc = "settling" /\ u \in SessionIds
  BY DEF SettleBets, Move, LedgerInv, TopUpOnce, Playing
<1>10. TopUp(n) \in Row /\ TopUp(n).from = None /\ TopUp(n).to = Pool /\ TopUp(n).amount = n
       /\ TopUp(n).type = "SYSTEM_POOL_TOPUP" /\ TopUp(n).ref = u
  BY <1>4, <1>9 DEF Row, Transfer, Wallets
<1>11. TopUp(n) \notin ledger
  BY <1>9, <1>10 DEF LedgerInv, TopUpOnce, HasRow, Playing
<1>12. \A e \in pay : e.type = "BET_WIN_CREDIT"
  BY DEF PaymentRows, PaymentRow, Transfer
<1>. HIDE DEF u, TopUp
<1>13. fill \in SUBSET Row /\ IsFiniteSet(fill) /\ fill \cap ledger = {}
  <2>1. fill \subseteq {TopUp(n)} /\ IsFiniteSet({TopUp(n)})
    BY FS_Singleton
  <2>2. IsFiniteSet(fill)
    BY <2>1, FS_Subset
  <2>. QED
    BY <1>10, <1>11, <2>1, <2>2
<1>14. fill \cap pay = {}
  BY <1>10, <1>12
<1>15. ASSUME NEW o \in Wallets
       PROVE  wallet'[o] + RowTotal(RowsFrom(rows, o)) = wallet[o] + RowTotal(RowsTo(rows, o))
  <2>1. /\ RowTotal(RowsFrom(pay, o)) = IF o = Pool THEN Total(paid, S) ELSE 0
        /\ RowTotal(RowsTo(pay, o)) =
             IF o = Pool THEN 0 ELSE Total(paid, Owned(S, o))
    BY <1>7, PaymentsMove
  <2>2. RowTotal(RowsFrom(fill, o)) = 0
    <3>1. None \notin Wallets
      BY GameRoundAssumption DEF Wallets
    <3>2. RowsFrom(fill, o) = {}
      BY <1>10, <3>1 DEF RowsFrom
    <3>. QED
      BY <3>2, NoRows
  <2>3. RowTotal(RowsTo(fill, o)) = IF o = Pool THEN n ELSE 0
    <3>1. RowTotal({TopUp(n)}) = n /\ RowTotal({}) = 0
      BY <1>10, OneRow, NoRows
    <3>2. RowsTo(fill, o) = IF o = Pool THEN fill ELSE {}
      BY <1>10 DEF RowsTo
    <3>3. RowTotal(fill) = n
      BY <3>1
    <3>. QED
      BY <3>1, <3>2, <3>3
  <2>4. /\ RowsFrom(rows, o) = RowsFrom(fill, o) \cup RowsFrom(pay, o)
        /\ RowsTo(rows, o) = RowsTo(fill, o) \cup RowsTo(pay, o)
        /\ RowsFrom(fill, o) \cap RowsFrom(pay, o) = {}
        /\ RowsTo(fill, o) \cap RowsTo(pay, o) = {}
    BY <1>14 DEF RowsFrom, RowsTo
  <2>5. /\ RowsFrom(fill, o) \subseteq fill /\ RowsFrom(pay, o) \subseteq pay
        /\ RowsTo(fill, o) \subseteq fill /\ RowsTo(pay, o) \subseteq pay
    BY DEF RowsFrom, RowsTo
  <2>. HIDE DEF fill, pay, rows, n
  <2>6. /\ IsFiniteSet(RowsFrom(fill, o)) /\ IsFiniteSet(RowsFrom(pay, o))
        /\ IsFiniteSet(RowsTo(fill, o)) /\ IsFiniteSet(RowsTo(pay, o))
    BY <1>8, <1>13, <2>5, FS_Subset
  <2>7. /\ RowTotal(RowsFrom(rows, o)) = RowTotal(RowsFrom(fill, o)) + RowTotal(RowsFrom(pay, o))
        /\ RowTotal(RowsFrom(pay, o)) \in Nat
    BY <1>8, <1>13, <2>4, <2>5, <2>6, RowTotals
  <2>8. /\ RowTotal(RowsTo(rows, o)) = RowTotal(RowsTo(fill, o)) + RowTotal(RowsTo(pay, o))
        /\ RowTotal(RowsTo(pay, o)) \in Nat
    BY <1>8, <1>13, <2>4, <2>5, <2>6, RowTotals
  <2>9. wallet[o] \in Nat
    BY DEF TypeOK
  <2>10. CASE o = Pool
    <3>1. RowTotal(RowsFrom(rows, o)) = Total(paid, S) /\ RowTotal(RowsTo(rows, o)) = n
      BY <1>4, <1>6, <2>1, <2>2, <2>3, <2>7, <2>8, <2>10
    <3>2. wallet'[o] = pool - Total(paid, S) /\ wallet[o] + n = pool
      BY <1>0, <1>6, <2>10 DEF n
    <3>. QED
      BY <1>6, <3>1, <3>2
  <2>11. CASE o # Pool
    <3>1. /\ RowTotal(RowsFrom(rows, o)) = 0
          /\ RowTotal(RowsTo(rows, o)) = Total(paid, Owned(S, o))
          /\ Total(paid, Owned(S, o)) \in Nat
      BY <2>1, <2>2, <2>3, <2>7, <2>8, <2>11
    <3>. QED
      BY <1>6, <2>9, <2>11, <3>1
  <2>. QED
    BY <2>10, <2>11
<1>16. DebitOnce'
  <2>1. \A e \in rows : e.type # "BET_DEBIT"
    BY <1>10, <1>12
  <2> DEFINE batch  == task[i][g].batch
             status == [b \in batch |-> IF b \in Winners(task[i][g]) THEN "WON" ELSE "LOST"]
  <2>2. bets' = Mark(batch, status) /\ \A b \in batch : status[b] # "NONE"
    BY DEF SettleBets
  <2>3. \A b \in BetIds : bets'[b].status = "NONE" => bets[b].status = "NONE"
    <3>1. task[i][g] \in Task
      BY DEF TypeOK
    <3>2. batch \in SUBSET BetIds
      BY <3>1 DEF Task
    <3>. HIDE DEF batch, status
    <3>3. \A b \in BetIds : bets'[b].status = IF b \in batch THEN status[b] ELSE bets[b].status
      BY <2>2, <3>2, MarkChanges
    <3>. QED
      BY <2>2, <3>3
  <2>4. ASSUME NEW b \in BetIds, bets'[b].status = "NONE" PROVE ~HasRow("BET_DEBIT", b)'
    <3>1. ~HasRow("BET_DEBIT", b)
      BY <2>3, <2>4 DEF LedgerInv, DebitOnce
    <3>. QED
      BY <1>5, <2>1, <3>1 DEF HasRow
  <2>. QED
    BY <2>4 DEF DebitOnce, HasRow
<1>17. rows \in SUBSET Row /\ IsFiniteSet(rows) /\ rows \cap ledger = {}
  BY <1>8, <1>13, FS_Union
<1>. HIDE DEF rows
<1>18. IsFiniteSet(ledger') /\ LedgerBalances'
  BY <1>5, <1>15, <1>17, Posting DEF LedgerInv
<1>. QED
  BY <1>16, <1>18


\* A refund pays out of the pool what it holds, with a row for each stake that got any.
LEMMA LedgerRefund ==
  ASSUME TypeOK, TypeOK', LedgerInv, NEW i \in Schedulers, RefundSession(i)
  PROVE  IsFiniteSet(ledger') /\ LedgerBalances' /\ DebitOnce'
<1> DEFINE batch  == recovery[i].batch
           status == [b \in batch |-> "REFUNDED"]
           S      == {b \in batch : ~HasRow("BET_REFUND", b)}
           due    == [b \in S |-> bets[b].amount]
<1>1. recovery[i] \in Recovery
  BY DEF TypeOK
<1>2. batch \in SUBSET BetIds /\ S \in SUBSET BetIds
  BY <1>1 DEF Recovery
<1>3. due \in [S -> Nat]
  BY <1>2, AmountType
<1>4. Pool \in Wallets /\ wallet[Pool] \in Nat
  BY DEF TypeOK, Wallets
<1>5. PICK paid \in Payments(wallet[Pool], due) :
        /\ wallet' = Paying(wallet[Pool], paid)
        /\ ledger' = ledger \cup
             {PaymentRow("BET_REFUND", b, paid[b]) : b \in {c \in S : paid[c] > 0}}
  BY DEF RefundSession
<1> DEFINE T    == {c \in S : paid[c] > 0}
           rows == PaymentRows("BET_REFUND", paid, T)
<1>6. ledger' = ledger \cup rows
  BY <1>5 DEF PaymentRows
<1>7. \A b \in T : ~HasRow("BET_REFUND", b)
  OBVIOUS
<1>. HIDE DEF S, due, T, rows
<1>8. /\ paid \in [S -> Nat] /\ Total(paid, S) \in Nat /\ Total(paid, S) <= wallet[Pool]
      /\ wallet'[Pool] = wallet[Pool] - Total(paid, S)
      /\ \A o \in Wallets : o # Pool =>
           wallet'[o] = wallet[o] + Total(paid, Owned(S, o))
  <2>1. paid \in Payments(wallet[Pool], due) /\ wallet' = Paying(wallet[Pool], paid)
    BY <1>5
  <2>2. PICK pool \in Nat : pool = wallet[Pool]
    BY <1>4
  <2>3. PICK C \in SUBSET BetIds : C = S
    BY <1>2
  <2>4. PICK d \in [C -> Nat] : d = due
    BY <1>3, <2>3
  <2>5. paid \in Payments(pool, d) /\ wallet' = Paying(pool, paid)
    BY <2>1, <2>2, <2>4
  <2>6. /\ paid \in [C -> Nat] /\ Total(paid, C) \in Nat /\ Total(paid, C) <= pool
        /\ wallet'[Pool] = pool - Total(paid, C)
        /\ \A o \in Wallets : o # Pool => wallet'[o] = wallet[o] + Total(paid, Owned(C, o))
    BY <2>5, PayingIs
  <2>. QED
    BY <2>2, <2>3, <2>6
<1>9. T \in SUBSET BetIds /\ \A b \in T : paid[b] \in Nat
  BY <1>2, <1>8 DEF T
<1>10. rows \in SUBSET Row /\ IsFiniteSet(rows) /\ rows \cap ledger = {}
  BY <1>7, <1>9, PaymentsTotal, PaymentsFresh DEF rows
<1>11. ASSUME NEW o \in Wallets
       PROVE  wallet'[o] + RowTotal(RowsFrom(rows, o)) = wallet[o] + RowTotal(RowsTo(rows, o))
  <2> DEFINE own  == Owned(S, o)
             ownT == Owned(T, o)
  <2>1. /\ RowTotal(RowsFrom(rows, o)) = IF o = Pool THEN Total(paid, T) ELSE 0
        /\ RowTotal(RowsTo(rows, o)) = IF o = Pool THEN 0 ELSE Total(paid, ownT)
    BY <1>9, PaymentsMove DEF rows
  <2>2. Total(paid, T) = Total(paid, S)
    BY <1>8, TotalPositive DEF T
  <2>3. Total(paid, ownT) = Total(paid, own)
    <3>1. ownT = {b \in own : paid[b] > 0} /\ \A b \in own : paid[b] \in Nat
      BY <1>8 DEF T, Owned
    <3>. HIDE DEF own, ownT
    <3>. QED
      BY <3>1, TotalPositive
  <2>4. wallet[o] \in Nat
    BY DEF TypeOK
  <2>5. Total(paid, own) \in Nat
    <3>1. IsFiniteSet(own) /\ \A b \in own : paid[b] \in Nat
      BY <1>2, <1>8, FS_Subset DEF Owned
    <3>. HIDE DEF own
    <3>. QED
      BY <3>1, TotalType
  <2>6. o # Pool => wallet'[o] = wallet[o] + Total(paid, own)
    BY <1>8
  <2>. HIDE DEF own, ownT
  <2>7. CASE o = Pool
    BY <1>4, <1>8, <2>1, <2>2, <2>7
  <2>8. CASE o # Pool
    BY <2>1, <2>3, <2>4, <2>5, <2>6, <2>8
  <2>. QED
    BY <2>7, <2>8
<1>12. IsFiniteSet(ledger') /\ LedgerBalances'
  BY <1>6, <1>10, <1>11, Posting DEF LedgerInv
<1>13. DebitOnce'
  <2>1. \A e \in rows : e.type # "BET_DEBIT"
    BY DEF rows, PaymentRows, PaymentRow, Transfer
  <2>2. bets' = Mark(batch, status) /\ \A b \in batch : status[b] # "NONE"
    BY DEF RefundSession
  <2>. HIDE DEF batch, status
  <2>3. \A b \in BetIds : bets'[b].status = IF b \in batch THEN status[b] ELSE bets[b].status
    BY <1>2, <2>2, MarkChanges
  <2>4. ASSUME NEW b \in BetIds, bets'[b].status = "NONE" PROVE ~HasRow("BET_DEBIT", b)'
    <3>1. ~HasRow("BET_DEBIT", b)
      BY <2>2, <2>3, <2>4 DEF LedgerInv, DebitOnce
    <3>. QED
      BY <1>6, <2>1, <3>1 DEF HasRow
  <2>. QED
    BY <2>4 DEF DebitOnce, HasRow
<1>. QED
  BY <1>12, <1>13

LEMMA LedgerInit == Init => LedgerInv
<1>. SUFFICES ASSUME Init PROVE LedgerInv
  OBVIOUS
<1>1. ledger = {} /\ IsFiniteSet(ledger)
  BY FS_EmptySet DEF Init
<1>2. LedgerBalances
  <2>1. \A o \in Wallets : {e \in ledger : e.from = o} = {} /\ {e \in ledger : e.to = o} = {}
    BY <1>1
  <2>2. \A o \in Wallets : wallet[o] = IF o = Pool THEN 0 ELSE InitialBalance[o]
    BY DEF Init
  <2>3. \A o \in Wallets : wallet[o] \in Nat
    BY <2>2 DEF Wallets
  <2>. QED
    BY <2>1, <2>2, <2>3, NoRows DEF LedgerBalances
<1>3. DebitOnce
  BY <1>1 DEF DebitOnce, HasRow
<1>4. TopUpOnce
  BY <1>1 DEF Init, TopUpOnce, TaskAt, Playing, HasRow
<1>. QED
  BY <1>1, <1>2, <1>3, <1>4 DEF LedgerInv

LEMMA LedgerNext == TypeOK /\ TypeOK' /\ LedgerInv /\ [Next]_vars => LedgerInv'
<1>. SUFFICES ASSUME TypeOK, TypeOK', LedgerInv, [Next]_vars PROVE LedgerInv'
  OBVIOUS
<1>1. TopUpOnce'
  BY TopUpNext DEF LedgerInv
<1>2. CASE UNCHANGED <<wallet, ledger, bets>>
  <2>1. LedgerBalances'
    BY <1>2 DEF LedgerInv, LedgerBalances
  <2>2. DebitOnce'
    BY <1>2 DEF LedgerInv, DebitOnce, HasRow
  <2>. QED
    BY <1>1, <1>2, <2>1, <2>2 DEF LedgerInv
<1>3. CASE \E r \in Requests : CommitBet(r)
  BY <1>1, <1>3, LedgerBet DEF LedgerInv
<1>4. CASE \E i \in Schedulers, g \in Games : SettleBets(i, g)
  BY <1>1, <1>4, LedgerSettle DEF LedgerInv
<1>5. CASE \E i \in Schedulers : RefundSession(i)
  BY <1>1, <1>5, LedgerRefund DEF LedgerInv
<1>. QED
  BY <1>2, <1>3, <1>4, <1>5, MoneyWriters

\* Whatever runs at the same time, even two schedulers on one game: every balance is what
\* the ledger says it is, because no step writes a row that is there already.
THEOREM LedgerCorrect == Spec => []LedgerBalances
<1>1. LedgerInv => LedgerBalances
  BY DEF LedgerInv
<1>. QED
  BY <1>1, LedgerInit, LedgerNext, TypeCorrect, PTL DEF Spec

-----------------------------------------------------------------------------
(***************************************************************************)
(* II. A single scheduler: SchedulerInv is inductive, together with TypeOK,*)
(* when there is one scheduler process.                                    *)
(***************************************************************************)

HIDE GameRoundAssumption

\* README.md and docker-compose.yml allow one game_scheduler.
OneScheduler == \A i, j \in Schedulers : i = j

LEMMA SchedulerInit == Init => SchedulerInv
<1>. SUFFICES ASSUME Init PROVE SchedulerInv
  OBVIOUS
<1>1. CyclesInStep
  BY DEF Init, CyclesInStep, InStep, TaskAt, Stage, InTry
<1>2. ListComplete
  BY DEF Init, ListComplete, TaskAt
<1>3. RecoveryAlone
  BY DEF Init, RecoveryAlone, Down, TaskAt
<1>4. BetsOnSessions
  BY DEF Init, BetsOnSessions, NoBet
<1>5. CreditedAsResolved
  BY DEF Init, CreditedAsResolved, NoBet, Credits
<1>6. SettledByWinner
  BY DEF Init, SettledByWinner, NoSession
<1>. QED
  BY <1>1, <1>2, <1>3, <1>4, <1>5, <1>6 DEF SchedulerInv

\* The invariant looks at the bets, the sessions and the scheduler only.
LEMMA SchedulerFrame ==
  ASSUME SchedulerInv, UNCHANGED <<ledger, bets, sessions, task, recovery>>
  PROVE  SchedulerInv'
<1>. USE DEF SchedulerInv
<1>1. CyclesInStep'
  BY DEF CyclesInStep, InStep
<1>2. ListComplete'
  BY DEF ListComplete, PlacedIn
<1>3. RecoveryAlone'
  BY DEF RecoveryAlone, Unfinished, PlacedIn
<1>4. BetsOnSessions'
  BY DEF BetsOnSessions
<1>5. CreditedAsResolved'
  BY DEF CreditedAsResolved, Credits
<1>6. SettledByWinner'
  BY DEF SettledByWinner
<1>. QED
  BY <1>1, <1>2, <1>3, <1>4, <1>5, <1>6

\* The only coroutine of a game that a step of it changes.
LEMMA TaskAfter ==
  ASSUME TypeOK, OneScheduler, NEW i \in Schedulers, NEW g \in Games,
         NEW t, SetTask(i, g, t)
  PROVE  \A j \in Schedulers, h \in Games : task'[j][h] = IF h = g THEN t ELSE task[j][h]
<1>1. task[i] \in [Games -> Task] /\ i \in DOMAIN task
  BY DEF TypeOK
<1>2. task'[i] = [task[i] EXCEPT ![g] = t]
  BY <1>1 DEF SetTask
<1>3. \A h \in Games : task'[i][h] = IF h = g THEN t ELSE task[i][h]
  BY <1>1, <1>2
<1>. QED
  BY <1>3 DEF OneScheduler

\* What a move of a coroutine does.
LEMMA MoveTo ==
  ASSUME TypeOK, OneScheduler, NEW i \in Schedulers, NEW g \in Games, NEW from, NEW to,
         Move(i, g, from, to)
  PROVE  /\ task[i][g].pc = from /\ task'[i][g].pc = to
         /\ task'[i][g].session = task[i][g].session
         /\ task'[i][g].winner = task[i][g].winner
         /\ task'[i][g].batch = task[i][g].batch
         /\ \A j \in Schedulers, h \in Games : h # g => task'[j][h] = task[j][h]
<1>1. task[i][g] \in Task
  BY DEF TypeOK
<1>2. \A j \in Schedulers, h \in Games :
        task'[j][h] = IF h = g THEN [task[i][g] EXCEPT !.pc = to] ELSE task[j][h]
  BY TaskAfter DEF Move
<1>. QED
  BY <1>1, <1>2 DEF Move, Task

\* A step of a cycle that moves no money: the coroutine goes on to t and at most
\* the session of t changes, to what InStep asks of it.
LEMMA CycleMoves ==
  ASSUME TypeOK, SchedulerInv, OneScheduler,
         NEW i \in Schedulers, NEW g \in Games, NEW t \in Task,
         SetTask(i, g, t), task[i][g].pc # "down",
         UNCHANGED <<ledger, bets, recovery>>,
         InStep(t, g)', t.pc = "settling" => t.batch = PlacedIn(t.session),
         \/ t.session = task[i][g].session
         \/ t.session = None
         \/ t.session \in SessionIds /\ sessions[t.session].status = "NONE",
         \A s \in SessionIds : s # t.session => sessions'[s] = sessions[s],
         t.session \in SessionIds =>
           /\ sessions[t.session].status \in {"COMPLETED", "FAILED"} =>
                sessions'[t.session].status \in {"COMPLETED", "FAILED"}
           /\ sessions'[t.session].status = "COMPLETED" =>
                sessions'[t.session] = sessions[t.session]
  PROVE  SchedulerInv'
<1>. USE DEF SchedulerInv
<1>1. \A j \in Schedulers, h \in Games :
        task'[j][h] = IF h = g THEN t ELSE task[j][h]
  BY TaskAfter
<1>2. \A s \in SessionIds : s # t.session => sessions'[s] = sessions[s]
  OBVIOUS
<1>3. \A h \in Games : task[i][h] \in Task /\ task[i][h].session \in SessionIds \cup {None}
  BY DEF TypeOK, Task
<1>4. t.session \in SessionIds \cup {None}
  BY DEF Task
<1>5. CyclesInStep'
  <2>. SUFFICES ASSUME NEW j \in Schedulers, NEW h \in Games
                PROVE  InStep(task[j][h], h)'
    BY DEF CyclesInStep
  <2>1. CASE h = g
    BY <1>1, <2>1
  <2>2. CASE h # g
    <3>1. task'[j][h] = task[i][h]
      BY <1>1, <2>2 DEF OneScheduler
    <3>2. InStep(task[i][h], h) /\ InStep(task[i][g], g)
      BY DEF CyclesInStep
    <3>3. task[i][h].session # None => sessions'[task[i][h].session] = sessions[task[i][h].session]
      BY <1>2, <1>3, <2>2, <3>2 DEF InStep
    <3>4. \A pc \in DOMAIN Stage : task[i][h].pc = pc => task[i][h].session # None
      BY <3>2 DEF InStep
    <3>. QED
      BY <3>1, <3>2, <3>3, <3>4 DEF InStep
  <2>. QED
    BY <2>1, <2>2
<1>6. ListComplete'
  <2>. SUFFICES ASSUME NEW j \in Schedulers, NEW h \in Games, task'[j][h].pc = "settling"
                PROVE  task'[j][h].batch = PlacedIn(task[j][h].session)'
    BY DEF ListComplete
  <2>1. PlacedIn(task[j][h].session)' = PlacedIn(task'[j][h].session)
    BY DEF PlacedIn
  <2>. QED
    BY <1>1, <2>1 DEF ListComplete
<1>7. RecoveryAlone'
  <2>1. \A j \in Schedulers : recovery[j].state = "up" /\ recovery[j].session = None
    BY DEF RecoveryAlone, OneScheduler
  <2>. QED
    BY <2>1 DEF RecoveryAlone
<1>8. BetsOnSessions'
  <2>. SUFFICES ASSUME NEW b \in BetIds, bets[b].status # "NONE"
                PROVE  /\ bets[b].session # None /\ bets[b].side # None
                       /\ sessions'[bets[b].session].status # "NONE"
                       /\ bets[b].status # "PLACED" =>
                            sessions'[bets[b].session].status \in {"COMPLETED", "FAILED"}
    BY DEF BetsOnSessions
  <2>1. bets[b] \in Bet
    BY DEF TypeOK
  <2>2. bets[b].session \in SessionIds \cup {None}
    BY <2>1 DEF Bet
  <2>3. /\ bets[b].session # None /\ bets[b].side # None
        /\ sessions[bets[b].session].status # "NONE"
        /\ bets[b].status # "PLACED" =>
             sessions[bets[b].session].status \in {"COMPLETED", "FAILED"}
    BY DEF BetsOnSessions
  <2>4. CASE bets[b].session # t.session
    BY <1>2, <2>2, <2>3, <2>4
  <2>5. CASE bets[b].session = t.session
    BY <2>2, <2>3, <2>5 DEF InStep
  <2>. QED
    BY <2>4, <2>5
<1>9. CreditedAsResolved'
  BY DEF CreditedAsResolved, Credits
<1>10. SettledByWinner'
  <2>. SUFFICES ASSUME NEW s \in SessionIds, sessions'[s].status = "COMPLETED"
                PROVE  sessions'[s] = sessions[s]
    BY DEF SettledByWinner
  <2>. QED
    BY <1>2
<1>. QED
  BY <1>5, <1>6, <1>7, <1>8, <1>9, <1>10

\* A step of a cycle that touches no table.
LEMMA CycleWaits ==
  ASSUME TypeOK, SchedulerInv, OneScheduler,
         NEW i \in Schedulers, NEW g \in Games, NEW t \in Task,
         SetTask(i, g, t), task[i][g].pc # "down",
         UNCHANGED <<ledger, bets, sessions, recovery>>,
         InStep(t, g), t.pc = "settling" => t.batch = PlacedIn(t.session),
         t.session = task[i][g].session \/ t.session = None
  PROVE  SchedulerInv'
<1>1. InStep(t, g)'
  BY DEF InStep
<1>. QED
  BY <1>1, CycleMoves

\* A step of a cycle that sets the status of its session.
LEMMA CycleSetsStatus ==
  ASSUME TypeOK, SchedulerInv, OneScheduler,
         NEW i \in Schedulers, NEW g \in Games, NEW t \in Task, NEW status \in SessionStatus,
         SetTask(i, g, t), task[i][g].pc # "down",
         UNCHANGED <<ledger, bets, recovery>>, SetStatus(i, g, status),
         t.session = task[i][g].session, t.session # None,
         t.pc \in DOMAIN Stage => status = Stage[t.pc],
         t.pc \in {"drawn", "revealed", "settling"} => t.winner # None,
         t.pc # "settling", status \notin {"NONE", "COMPLETED"},
         \/ status = "FAILED"
         \/ sessions[t.session].status \notin {"COMPLETED", "FAILED"}
  PROVE  SchedulerInv'
<1>1. t.session \in SessionIds
  BY DEF Task
<1>2. sessions[t.session] \in Session
  BY <1>1 DEF TypeOK
<1>3. sessions' = [sessions EXCEPT ![t.session] = [sessions[t.session] EXCEPT !.status = status]]
  BY DEF SetStatus
<1>4. sessions'[t.session] = [sessions[t.session] EXCEPT !.status = status]
  BY <1>1, <1>3 DEF TypeOK
<1>5. sessions'[t.session].status = status /\ sessions'[t.session].game = sessions[t.session].game
  BY <1>2, <1>4 DEF Session
<1>6. \A s \in SessionIds : s # t.session => sessions'[s] = sessions[s]
  BY <1>3 DEF TypeOK
<1>7. sessions[t.session].game = g
  BY DEF SchedulerInv, CyclesInStep, InStep
<1>8. InStep(t, g)'
  BY <1>5, <1>7 DEF InStep
<1>. QED
  BY <1>1, <1>5, <1>6, <1>8, CycleMoves

\* Every step of a cycle but the settlement keeps the invariant.
LEMMA SchedulerCycle ==
  ASSUME TypeOK, SchedulerInv, OneScheduler, NEW i \in Schedulers, NEW g \in Games,
         Cycle(i, g) \/ Raise(i, g), ~SettleBets(i, g)
  PROVE  SchedulerInv'
<1> DEFINE t == task[i][g]
           s == task[i][g].session
           At(pc) == [task[i][g] EXCEPT !.pc = pc]
<1>1. t \in Task
  BY DEF TypeOK
<1>2. InStep(t, g)
  BY DEF SchedulerInv, CyclesInStep
<1>3. ASSUME NEW pc \in InCycle
      PROVE  /\ At(pc) \in Task /\ At(pc).pc = pc /\ At(pc).session = s
             /\ At(pc).winner = t.winner
  BY <1>1 DEF Task
<1>. HIDE DEF At
<1>4. CASE Acquire(i, g)
  <2>1. SetTask(i, g, At("begin")) /\ t.pc = "wait"
    BY <1>4 DEF Acquire, Move, At
  <2>2. InStep(At("begin"), g)
    BY <1>2, <1>3 DEF InStep, Stage, InTry, InCycle
  <2>. QED
    BY <1>3, <1>4, <2>1, <2>2, CycleWaits DEF Acquire, database, InCycle, InTry
<1>5. CASE InsertSession(i, g)
  <2>1. PICK u \in SessionIds :
          /\ sessions[u].status = "NONE"
          /\ sessions' = [sessions EXCEPT ![u] = [@ EXCEPT !.status = "BETTING", !.game = g]]
          /\ SetTask(i, g, [task[i][g] EXCEPT !.pc = "inserted", !.session = u])
    BY <1>5 DEF InsertSession
  <2>2. PICK new \in Task : /\ new = [task[i][g] EXCEPT !.pc = "inserted", !.session = u]
                            /\ new.pc = "inserted" /\ new.session = u
    <3>1. LET new == [task[i][g] EXCEPT !.pc = "inserted", !.session = u]
          IN new \in Task /\ new.pc = "inserted" /\ new.session = u
      BY <1>1 DEF Task, InCycle, InTry
    <3>. QED
      BY <3>1
  <2>3. sessions[u] \in Session
    BY DEF TypeOK
  <2>4. sessions'[u] = [sessions[u] EXCEPT !.status = "BETTING", !.game = g]
    BY <2>1 DEF TypeOK
  <2>5. sessions'[u].status = "BETTING" /\ sessions'[u].game = g
    BY <2>3, <2>4 DEF Session
  <2>6. \A v \in SessionIds : v # u => sessions'[v] = sessions[v]
    BY <2>1 DEF TypeOK
  <2>7. Stage["inserted"] = "BETTING" /\ u # None
    BY NoneApart DEF Stage, InTry
  <2>8. InStep(new, g)'
    BY <2>2, <2>5, <2>7 DEF InStep
  <2>9. SetTask(i, g, new) /\ task[i][g].pc # "down"
    BY <1>5, <2>1, <2>2 DEF InsertSession
  <2>. QED
    BY <1>5, <2>1, <2>2, <2>5, <2>6, <2>8, <2>9, CycleMoves DEF InsertSession
<1>6. CASE ShowBetting(i, g)
  <2>1. SetTask(i, g, At("betting")) /\ t.pc = "inserted"
    BY <1>6 DEF ShowBetting, Move, At
  <2>2. InStep(At("betting"), g)
    BY <1>2, <1>3, <2>1 DEF InStep, Stage, InTry, InCycle
  <2>. QED
    BY <1>3, <1>6, <2>1, <2>2, CycleWaits DEF ShowBetting, database, InCycle, InTry
<1>7. CASE CloseBetting(i, g)
  <2>1. SetTask(i, g, At("closed")) /\ t.pc = "betting"
    BY <1>7 DEF CloseBetting, Move, At
  <2>2. s # None /\ sessions[s].status = "BETTING" /\ Stage["closed"] = "INITIATING"
    BY <1>2, <2>1 DEF InStep, Stage, InTry
  <2>. QED
    BY <1>3, <1>7, <2>1, <2>2, CycleSetsStatus DEF CloseBetting, InCycle, InTry, SessionStatus
<1>8. CASE ShowInitiating(i, g)
  <2>1. SetTask(i, g, At("initiating")) /\ t.pc = "closed"
    BY <1>8 DEF ShowInitiating, Move, At
  <2>2. InStep(At("initiating"), g)
    BY <1>2, <1>3, <2>1 DEF InStep, Stage, InTry, InCycle
  <2>. QED
    BY <1>3, <1>8, <2>1, <2>2, CycleWaits DEF ShowInitiating, database, InCycle, InTry
<1>9. CASE ShowRunning(i, g)
  <2>1. SetTask(i, g, At("running")) /\ t.pc = "initiating"
    BY <1>9 DEF ShowRunning, Move, At
  <2>2. InStep(At("running"), g)
    BY <1>2, <1>3, <2>1 DEF InStep, Stage, InTry, InCycle
  <2>. QED
    BY <1>3, <1>9, <2>1, <2>2, CycleWaits DEF ShowRunning, database, InCycle, InTry
<1>10. CASE DrawResult(i, g)
  <2>1. PICK w \in Sides : SetTask(i, g, [task[i][g] EXCEPT !.pc = "drawn", !.winner = w])
    BY <1>10 DEF DrawResult, Favoured
  <2> DEFINE new == [task[i][g] EXCEPT !.pc = "drawn", !.winner = w]
  <2>2. new \in Task /\ new.pc = "drawn" /\ new.session = s /\ new.winner = w
    BY <1>1 DEF Task, InCycle, InTry
  <2>5. w # None
    BY NoneApart
  <2>. HIDE DEF new
  <2>3. s # None /\ sessions[s].status = "INITIATING" /\ Stage["drawn"] = "RUNNING"
    BY <1>2, <1>10 DEF InStep, Stage, InTry, DrawResult
  <2>4. SetTask(i, g, new) /\ t.pc = "running"
    BY <1>10, <2>1 DEF new, DrawResult
  <2>. QED
    BY <1>10, <2>2, <2>3, <2>4, <2>5, CycleSetsStatus DEF DrawResult, SessionStatus
<1>11. CASE RevealWinner(i, g)
  <2>1. SetTask(i, g, At("revealed")) /\ t.pc = "drawn"
    BY <1>11 DEF RevealWinner, Move, At
  <2>2. InStep(At("revealed"), g)
    BY <1>2, <1>3, <2>1 DEF InStep, Stage, InTry, InCycle
  <2>. QED
    BY <1>3, <1>11, <2>1, <2>2, CycleWaits DEF RevealWinner, database, InCycle, InTry
<1>12. CASE ReadBets(i, g)
  <2> DEFINE new == [task[i][g] EXCEPT !.pc = "settling",
                                       !.batch = PlacedIn(task[i][g].session)]
  <2>1. /\ new \in Task /\ new.pc = "settling" /\ new.session = s
        /\ new.winner = t.winner /\ new.batch = PlacedIn(s)
    BY <1>1 DEF Task, InCycle, InTry, PlacedIn
  <2>. HIDE DEF new
  <2>2. SetTask(i, g, new) /\ t.pc = "revealed"
    BY <1>12 DEF ReadBets, new
  <2>3. InStep(new, g)
    BY <1>2, <2>1, <2>2 DEF InStep, Stage, InTry
  <2>. QED
    BY <1>12, <2>1, <2>2, <2>3, CycleWaits DEF ReadBets, database
<1>13. CASE ShowSettling(i, g)
  <2>1. SetTask(i, g, At("cooldown")) /\ t.pc = "settled"
    BY <1>13 DEF ShowSettling, Move, At
  <2>2. InStep(At("cooldown"), g)
    BY <1>2, <1>3, <2>1 DEF InStep, Stage, InTry, InCycle
  <2>. QED
    BY <1>3, <1>13, <2>1, <2>2, CycleWaits DEF ShowSettling, database, InCycle, InTry
<1>14. CASE Raise(i, g)
  <2>1. SetTask(i, g, At("error")) /\ t.pc # "down"
    BY <1>14 DEF Raise, At, InTry
  <2>2. InStep(At("error"), g)
    BY <1>2, <1>3 DEF InStep, Stage, InTry, InCycle
  <2>. QED
    BY <1>3, <1>14, <2>1, <2>2, CycleWaits DEF Raise, database, InCycle
<1>15. CASE FailSession(i, g)
  <2>1. SetTask(i, g, At("ending")) /\ t.pc = "error"
    BY <1>15 DEF FailSession, Move, At
  <2>2. CASE s # None
    <3>1. "ending" \notin DOMAIN Stage
      BY DEF Stage, InTry
    <3>. QED
      BY <1>3, <1>15, <2>1, <2>2, <3>1, CycleSetsStatus
      DEF FailSession, InCycle, SessionStatus
  <2>3. CASE s = None
    <3>1. InStep(At("ending"), g)
      BY <1>2, <1>3 DEF InStep, Stage, InTry, InCycle
    <3>. QED
      BY <1>3, <1>15, <2>1, <2>3, <3>1, CycleWaits DEF FailSession, InCycle
  <2>. QED
    BY <2>2, <2>3
<1>16. CASE LeaveSession(i, g)
  <2>1. SetTask(i, g, At("ending")) /\ t.pc = "error"
    BY <1>16 DEF LeaveSession, Move, At
  <2>2. InStep(At("ending"), g)
    BY <1>2, <1>3 DEF InStep, Stage, InTry, InCycle
  <2>. QED
    BY <1>3, <1>16, <2>1, <2>2, CycleWaits DEF LeaveSession, database, InCycle
<1>17. CASE ShowIdle(i, g)
  <2>1. /\ TaskAt("begin") \in Task /\ TaskAt("begin").pc = "begin"
        /\ TaskAt("begin").session = None
    BY DEF TaskAt, Task, InCycle, InTry
  <2>2. InStep(TaskAt("begin"), g)
    BY <2>1 DEF InStep, Stage, InTry
  <2>3. SetTask(i, g, TaskAt("begin")) /\ t.pc # "down"
    BY <1>17 DEF ShowIdle
  <2>. QED
    BY <1>17, <2>1, <2>2, <2>3, CycleWaits DEF ShowIdle, database
<1>. QED
  BY <1>4, <1>5, <1>6, <1>7, <1>8, <1>9, <1>10, <1>11, <1>12, <1>13, <1>14, <1>15,
     <1>16, <1>17 DEF Cycle

\* A winner gets the stake back, and as much again less the fee.
LEMMA PayoutIs == \A a \in Stakes \cup {0} : Payout(a) = 2 * a - FeeOf[a]
<1>. SUFFICES ASSUME NEW a \in Stakes \cup {0} PROVE Payout(a) = 2 * a - FeeOf[a]
  OBVIOUS
<1>1. FeeOf[a] \in Nat
  BY GameRoundAssumption
<1>2. Stakes \cup {0} \subseteq Nat
  BY GameRoundAssumption
<1>. QED
  BY <1>1, <1>2 DEF Payout

\* Settlement pays every winner in full, in a row of its own: no bet of the list had
\* been credited before, and the pool has been filled up for all of them.
LEMMA SettleCredits ==
  ASSUME TypeOK, SchedulerInv, NEW i \in Schedulers, NEW g \in Games, SettleBets(i, g)
  PROVE  LET t == task[i][g] IN
         /\ t.session \in SessionIds /\ sessions[t.session].status = "RUNNING"
         /\ sessions[t.session].game = g
         /\ t.batch = PlacedIn(t.session) /\ t.winner # None
         /\ \A b \in BetIds :
              Credits(b)' = IF b \in Winners(t)
                            THEN {PaymentRow("BET_WIN_CREDIT", b, Payout(bets[b].amount))}
                            ELSE Credits(b)
<1> DEFINE t       == task[i][g]
           winners == Winners(t)
           prize   == [b \in winners |-> Payout(bets[b].amount)]
           pool    == Larger(wallet[Pool], Total(prize, winners))
           payees  == {b \in winners : ~HasRow("BET_WIN_CREDIT", b)}
           topUp   == IF pool = wallet[Pool] THEN {}
                      ELSE {Transfer("SYSTEM_POOL_TOPUP", t.session, None, Pool,
                                     pool - wallet[Pool])}
           due     == [b \in payees |-> prize[b]]
<1>1. t \in Task /\ t.pc = "settling"
  BY DEF TypeOK, SettleBets, Move
<1>2. /\ t.session # None /\ sessions[t.session].status = "RUNNING" /\ t.winner # None
      /\ sessions[t.session].game = g
  BY <1>1 DEF SchedulerInv, CyclesInStep, InStep, Stage, InTry
<1>3. t.session \in SessionIds
  BY <1>1, <1>2 DEF Task
<1>4. t.batch = PlacedIn(t.session)
  BY <1>1 DEF SchedulerInv, ListComplete
<1>5. \A b \in t.batch : b \in BetIds /\ Credits(b) = {}
  BY <1>4 DEF PlacedIn, SchedulerInv, CreditedAsResolved
<1>6. payees = winners
  BY <1>5 DEF Winners, Credits, HasRow
<1>7. /\ winners \in SUBSET BetIds
      /\ prize \in [winners -> Nat]
      /\ pool \in Nat /\ pool >= Total(prize, winners) /\ Total(prize, winners) \in Nat
  BY <1>1, SettlePays
<1>8. due = prize
  BY <1>6
<1>. HIDE DEF t, winners, prize, pool, payees, topUp, due
<1>9. PICK paid \in Payments(pool, due) :
        ledger' = ledger \cup topUp
                    \cup {PaymentRow("BET_WIN_CREDIT", b, paid[b]) : b \in payees}
  BY DEF SettleBets, t, winners, prize, pool, payees, topUp, due
<1>10. paid = prize
  <2>1. Total(prize, winners) <= pool
    BY <1>7
  <2>. QED
    BY <1>7, <1>8, <1>9, <2>1, PaymentsInFull
<1>11. ASSUME NEW b \in BetIds
       PROVE  Credits(b)' = IF b \in winners
                            THEN {PaymentRow("BET_WIN_CREDIT", b, Payout(bets[b].amount))}
                            ELSE Credits(b)
  <2>1. \A e \in topUp : e.type = "SYSTEM_POOL_TOPUP"
    BY DEF topUp, Transfer
  <2>2. \A c \in winners : prize[c] = Payout(bets[c].amount)
    BY DEF prize
  <2>3. \A c \in winners : /\ PaymentRow("BET_WIN_CREDIT", c, prize[c]).type = "BET_WIN_CREDIT"
                           /\ PaymentRow("BET_WIN_CREDIT", c, prize[c]).ref = c
    BY DEF PaymentRow, Transfer
  <2>4. ledger' = ledger \cup topUp
                    \cup {PaymentRow("BET_WIN_CREDIT", c, prize[c]) : c \in winners}
    BY <1>6, <1>9, <1>10
  <2>5. CASE b \in winners
    <3>1. Credits(b) = {}
      BY <1>5, <2>5 DEF winners, Winners
    <3>. QED
      BY <2>1, <2>2, <2>3, <2>4, <2>5, <3>1 DEF Credits
  <2>6. CASE b \notin winners
    BY <2>1, <2>3, <2>4, <2>6 DEF Credits
  <2>. QED
    BY <2>5, <2>6
<1>. QED
  BY <1>2, <1>3, <1>4, <1>11 DEF t, winners

\* A settlement keeps the invariant.
LEMMA SchedulerSettle ==
  ASSUME TypeOK, SchedulerInv, OneScheduler, NEW i \in Schedulers, NEW g \in Games,
         SettleBets(i, g)
  PROVE  SchedulerInv'
<1> DEFINE t       == task[i][g]
           s       == t.session
           winners == Winners(t)
           status  == [b \in t.batch |-> IF b \in winners THEN "WON" ELSE "LOST"]
           after   == [t EXCEPT !.pc = "settled"]
<1>1. /\ s \in SessionIds /\ sessions[s].status = "RUNNING" /\ sessions[s].game = g
      /\ t.batch = PlacedIn(s) /\ t.winner # None
      /\ \A b \in BetIds :
           Credits(b)' = IF b \in winners
                         THEN {PaymentRow("BET_WIN_CREDIT", b, Payout(bets[b].amount))}
                         ELSE Credits(b)
  BY SettleCredits
<1>2. t \in Task /\ t.pc = "settling"
  BY DEF TypeOK, SettleBets, Move
<1>3. after.pc = "settled" /\ after.session = s
  BY <1>2 DEF Task
<1>4. \A j \in Schedulers, h \in Games : task'[j][h] = IF h = g THEN after ELSE task[j][h]
  BY TaskAfter DEF SettleBets, Move
<1>5. /\ sessions'[s].status = "COMPLETED" /\ sessions'[s].winner = t.winner
      /\ sessions'[s].game = g
  <2>1. sessions[s] \in Session
    BY <1>1 DEF TypeOK
  <2>2. sessions'[s] = [sessions[s] EXCEPT !.status = "COMPLETED", !.winner = t.winner]
    BY <1>1 DEF SettleBets, TypeOK
  <2>. QED
    BY <1>1, <2>1, <2>2 DEF Session
<1>6. \A u \in SessionIds : u # s => sessions'[u] = sessions[u]
  BY DEF SettleBets, TypeOK
<1>7. t.batch \in SUBSET BetIds /\ winners \subseteq t.batch
  BY <1>2 DEF Task, Winners
<1>8. \A b \in BetIds :
        /\ bets'[b].session = bets[b].session /\ bets'[b].side = bets[b].side
        /\ bets'[b].player = bets[b].player /\ bets'[b].amount = bets[b].amount
        /\ bets'[b].status = IF b \in t.batch
                             THEN IF b \in winners THEN "WON" ELSE "LOST"
                             ELSE bets[b].status
  <2>1. bets' = Mark(t.batch, status)
    BY DEF SettleBets
  <2>2. \A b \in t.batch : status[b] = IF b \in winners THEN "WON" ELSE "LOST"
    OBVIOUS
  <2>. HIDE DEF status, t, winners
  <2>. QED
    BY <1>7, <2>1, <2>2, MarkChanges
<1>9. \A b \in BetIds : bets[b].session \in SessionIds \cup {None}
  BY DEF TypeOK, Bet
<1>10. \A h \in Games : /\ InStep(task[i][h], h)
                        /\ task[i][h].session \in SessionIds \cup {None}
  BY DEF TypeOK, Task, SchedulerInv, CyclesInStep
<1>11. UNCHANGED recovery /\ \A j \in Schedulers : j = i
  BY DEF SettleBets, OneScheduler
<1>12. winners = {b \in PlacedIn(s) : bets[b].side = t.winner}
  BY <1>1 DEF Winners
<1>. HIDE DEF t, winners, status, after
<1>13. CyclesInStep'
  <2>. SUFFICES ASSUME NEW j \in Schedulers, NEW h \in Games PROVE InStep(task[j][h], h)'
    BY DEF CyclesInStep
  <2>1. CASE h = g
    BY <1>1, <1>3, <1>4, <1>5, <2>1, NoneApart DEF InStep, Stage, InTry
  <2>2. CASE h # g
    <3>1. task'[j][h] = task[i][h]
      BY <1>4, <1>11, <2>2
    <3>2. task[i][h].session # None => sessions'[task[i][h].session] = sessions[task[i][h].session]
      BY <1>1, <1>6, <1>10, <2>2 DEF InStep
    <3>. QED
      BY <1>10, <3>1, <3>2 DEF InStep
  <2>. QED
    BY <2>1, <2>2
<1>14. ListComplete'
  <2>. SUFFICES ASSUME NEW h \in Games, task'[i][h].pc = "settling"
                PROVE  task'[i][h].batch = PlacedIn(task[i][h].session)'
    BY <1>11 DEF ListComplete
  <2>1. h # g /\ task'[i][h] = task[i][h]
    BY <1>3, <1>4
  <2>2. task[i][h].session \in SessionIds /\ task[i][h].session # s
    BY <1>1, <1>10, <2>1 DEF InStep, Stage, InTry
  <2>3. {b \in BetIds : bets'[b].session = task[i][h].session /\ bets'[b].status = "PLACED"}
          = PlacedIn(task[i][h].session)
    BY <1>1, <1>8, <2>2 DEF PlacedIn
  <2>. QED
    BY <2>1, <2>3 DEF SchedulerInv, ListComplete, PlacedIn
<1>15. RecoveryAlone'
  <2>1. recovery[i].state = "up" /\ recovery[i].session = None
    BY <1>2 DEF SchedulerInv, RecoveryAlone, t
  <2>. QED
    BY <1>11, <2>1 DEF RecoveryAlone
<1>16. BetsOnSessions'
  <2>. SUFFICES ASSUME NEW b \in BetIds
                PROVE  IF bets'[b].status = "NONE" THEN bets'[b].session = None
                       ELSE /\ bets'[b].session # None /\ bets'[b].side # None
                            /\ sessions'[bets'[b].session].status # "NONE"
                            /\ bets'[b].status # "PLACED" =>
                                 sessions'[bets'[b].session].status \in {"COMPLETED", "FAILED"}
    BY DEF BetsOnSessions
  <2>1. IF bets[b].status = "NONE" THEN bets[b].session = None
        ELSE /\ bets[b].session # None /\ bets[b].side # None
             /\ sessions[bets[b].session].status # "NONE"
             /\ bets[b].status # "PLACED" =>
                  sessions[bets[b].session].status \in {"COMPLETED", "FAILED"}
    BY DEF SchedulerInv, BetsOnSessions
  <2>2. CASE b \in t.batch
    BY <1>1, <1>5, <1>8, <2>1, <2>2 DEF PlacedIn
  <2>3. CASE b \notin t.batch
    BY <1>5, <1>6, <1>8, <1>9, <2>1, <2>3
  <2>. QED
    BY <2>2, <2>3
<1>17. CreditedAsResolved'
  <2>. SUFFICES ASSUME NEW b \in BetIds
                PROVE  CASE bets'[b].status = "WON" ->
                              Credits(b)' = {Transfer("BET_WIN_CREDIT", b, Pool, bets'[b].player,
                                                      2 * bets'[b].amount - FeeOf[bets'[b].amount])}
                         [] bets'[b].status = "REFUNDED" ->
                              \/ Credits(b)' = {}
                              \/ \E n \in 1 .. bets'[b].amount :
                                   Credits(b)' = {Transfer("BET_REFUND", b, Pool, bets'[b].player, n)}
                         [] OTHER -> Credits(b)' = {}
    BY DEF CreditedAsResolved
  <2>1. CASE b \notin t.batch
    BY <1>1, <1>7, <1>8, <2>1 DEF SchedulerInv, CreditedAsResolved
  <2>2. CASE b \in t.batch
    <3>1. Credits(b) = {}
      BY <1>1, <2>2 DEF PlacedIn, SchedulerInv, CreditedAsResolved
    <3>2. CASE b \notin winners
      BY <1>1, <1>8, <2>2, <3>1, <3>2
    <3>3. CASE b \in winners
      <4>1. bets[b] \in Bet
        BY DEF TypeOK
      <4>2. bets[b].amount \in Stakes \cup {0}
        BY <4>1 DEF Bet
      <4>3. Payout(bets[b].amount) = 2 * bets[b].amount - FeeOf[bets[b].amount]
        BY <4>2, PayoutIs
      <4>. QED
        BY <1>1, <1>8, <2>2, <3>3, <4>3 DEF PaymentRow
    <3>. QED
      BY <3>2, <3>3
  <2>. QED
    BY <2>1, <2>2
<1>18. SettledByWinner'
  <2>. SUFFICES ASSUME NEW u \in SessionIds, sessions'[u].status = "COMPLETED",
                       NEW b \in BetIds, bets'[b].session = u
                PROVE  bets'[b].status = IF bets'[b].side = sessions'[u].winner
                                         THEN "WON" ELSE "LOST"
    BY DEF SettledByWinner
  <2>1. CASE u = s
    <3>1. bets[b].status = "PLACED"
      BY <1>1, <1>8, <2>1, NoneApart DEF SchedulerInv, BetsOnSessions
    <3>2. b \in t.batch
      BY <1>1, <1>8, <2>1, <3>1 DEF PlacedIn
    <3>. QED
      BY <1>1, <1>5, <1>8, <1>12, <2>1, <3>2
  <2>2. CASE u # s
    <3>1. b \notin t.batch
      BY <1>1, <1>8, <2>2 DEF PlacedIn
    <3>. QED
      BY <1>6, <1>8, <2>2, <3>1 DEF SchedulerInv, SettledByWinner
  <2>. QED
    BY <2>1, <2>2
<1>. QED
  BY <1>13, <1>14, <1>15, <1>16, <1>17, <1>18 DEF SchedulerInv

\* What recovery pays back: of each stake on its list at most the stake, in a row of
\* its own, and nothing to any other bet.
LEMMA RefundCredits ==
  ASSUME TypeOK, SchedulerInv, NEW i \in Schedulers, RefundSession(i)
  PROVE  LET batch == recovery[i].batch IN
         \A b \in BetIds :
           IF b \in batch
           THEN \/ Credits(b)' = {}
                \/ \E n \in 1 .. bets[b].amount :
                     Credits(b)' = {PaymentRow("BET_REFUND", b, n)}
           ELSE Credits(b)' = Credits(b)
<1> DEFINE batch == recovery[i].batch
           owed  == {b \in batch : ~HasRow("BET_REFUND", b)}
           due   == [b \in owed |-> bets[b].amount]
<1>1. recovery[i] \in Recovery
  BY DEF TypeOK
<1>2. batch \in SUBSET BetIds
  BY <1>1 DEF Recovery
<1>3. batch \subseteq PlacedIn(recovery[i].session)
  BY DEF SchedulerInv, RecoveryAlone, RefundSession
<1>4. \A b \in batch : Credits(b) = {}
  BY <1>2, <1>3 DEF PlacedIn, SchedulerInv, CreditedAsResolved
<1>5. owed = batch
  BY <1>4 DEF Credits, HasRow
<1>6. due \in [owed -> Nat] /\ owed \in SUBSET BetIds
  BY <1>2, AmountType
<1>7. \A b \in owed : due[b] = bets[b].amount
  OBVIOUS
<1>. HIDE DEF batch, owed, due
<1>8. PICK paid \in Payments(wallet[Pool], due) :
        ledger' = ledger \cup
          {PaymentRow("BET_REFUND", b, paid[b]) : b \in {c \in owed : paid[c] > 0}}
  BY DEF RefundSession, batch, owed, due
<1>9. paid \in [owed -> Nat] /\ \A b \in owed : paid[b] <= due[b]
  <2>1. wallet[Pool] \in Nat
    BY DEF TypeOK, Wallets
  <2>2. IsFiniteSet(owed)
    BY <1>6, GameRoundAssumption, FS_Subset
  <2>. QED
    BY <1>6, <1>8, <2>1, <2>2, PaymentsBound
<1>. SUFFICES ASSUME NEW b \in BetIds
              PROVE  IF b \in batch
                     THEN \/ Credits(b)' = {}
                          \/ \E n \in 1 .. bets[b].amount :
                               Credits(b)' = {PaymentRow("BET_REFUND", b, n)}
                     ELSE Credits(b)' = Credits(b)
  BY DEF batch
<1>10. \A c \in owed : /\ PaymentRow("BET_REFUND", c, paid[c]).type = "BET_REFUND"
                       /\ PaymentRow("BET_REFUND", c, paid[c]).ref = c
  BY DEF PaymentRow, Transfer
<1>11. CASE b \in batch /\ paid[b] > 0
  <2>1. Credits(b)' = {PaymentRow("BET_REFUND", b, paid[b])}
    BY <1>4, <1>5, <1>8, <1>10, <1>11 DEF Credits
  <2>2. paid[b] \in 1 .. bets[b].amount
    BY <1>5, <1>7, <1>9, <1>11, AmountType
  <2>. QED
    BY <1>11, <2>1, <2>2
<1>12. CASE b \in batch /\ ~(paid[b] > 0)
  BY <1>4, <1>5, <1>8, <1>10, <1>12 DEF Credits
<1>13. CASE b \notin batch
  BY <1>5, <1>8, <1>10, <1>13 DEF Credits
<1>. QED
  BY <1>11, <1>12, <1>13

\* A refund keeps the invariant.
LEMMA SchedulerRefund ==
  ASSUME TypeOK, SchedulerInv, OneScheduler, NEW i \in Schedulers, RefundSession(i)
  PROVE  SchedulerInv'
<1> DEFINE batch  == recovery[i].batch
           s      == recovery[i].session
           status == [b \in batch |-> "REFUNDED"]
<1>1. recovery[i] \in Recovery
  BY DEF TypeOK
<1>2. /\ batch \in SUBSET BetIds /\ recovery[i].todo \in SUBSET SessionIds
      /\ s \in SessionIds /\ s # None
  BY <1>1 DEF Recovery, RefundSession
<1>3. /\ batch \subseteq PlacedIn(s) /\ s \in Unfinished \ recovery[i].todo
      /\ recovery[i].state = "recovering" /\ recovery[i].todo \subseteq Unfinished
      /\ \A j \in Schedulers, g \in Games : task[j][g].pc = "down"
      /\ \A j \in Schedulers : j = i
  BY <1>2 DEF SchedulerInv, RecoveryAlone, OneScheduler
<1>4. \A b \in BetIds :
        IF b \in batch
        THEN \/ Credits(b)' = {}
             \/ \E n \in 1 .. bets[b].amount :
                  Credits(b)' = {PaymentRow("BET_REFUND", b, n)}
        ELSE Credits(b)' = Credits(b)
  BY RefundCredits
<1>5. sessions'[s].status = "FAILED" /\ sessions'[s].game = sessions[s].game
  <2>1. sessions[s] \in Session
    BY <1>2 DEF TypeOK
  <2>2. sessions'[s] = [sessions[s] EXCEPT !.status = "FAILED"]
    BY <1>2 DEF RefundSession, TypeOK
  <2>. QED
    BY <2>1, <2>2 DEF Session
<1>6. \A u \in SessionIds : u # s => sessions'[u] = sessions[u]
  BY DEF RefundSession, TypeOK
<1>7. \A b \in BetIds :
        /\ bets'[b].session = bets[b].session /\ bets'[b].side = bets[b].side
        /\ bets'[b].player = bets[b].player /\ bets'[b].amount = bets[b].amount
        /\ bets'[b].status = IF b \in batch THEN "REFUNDED" ELSE bets[b].status
  <2>1. bets' = Mark(batch, status)
    BY DEF RefundSession
  <2>2. \A b \in batch : status[b] = "REFUNDED"
    OBVIOUS
  <2>. HIDE DEF status, batch
  <2>. QED
    BY <1>2, <2>1, <2>2, MarkChanges
<1>8. recovery'[i] = [recovery[i] EXCEPT !.session = None, !.batch = {}]
  BY DEF RefundSession, TypeOK
<1>9. /\ recovery'[i].state = "recovering" /\ recovery'[i].session = None
      /\ recovery'[i].todo = recovery[i].todo
  BY <1>1, <1>3, <1>8 DEF Recovery
<1>10. UNCHANGED task
  BY DEF RefundSession
<1>. HIDE DEF batch, s, status
<1>11. CyclesInStep'
  <2>. SUFFICES ASSUME NEW j \in Schedulers, NEW g \in Games PROVE InStep(task[j][g], g)'
    BY DEF CyclesInStep
  <2>1. task[j][g].session \in SessionIds \cup {None}
    BY DEF TypeOK, Task
  <2>2. InStep(task[j][g], g) /\ task[j][g].pc = "down"
    BY <1>3 DEF SchedulerInv, CyclesInStep
  <2>. QED
    BY <1>5, <1>6, <1>10, <2>1, <2>2 DEF InStep, Stage, InTry
<1>12. ListComplete'
  BY <1>3, <1>10 DEF ListComplete
<1>13. RecoveryAlone'
  <2>1. recovery[i].todo \subseteq Unfinished'
    BY <1>2, <1>3, <1>6 DEF Unfinished
  <2>. QED
    BY <1>3, <1>9, <1>10, <2>1 DEF RecoveryAlone
<1>14. BetsOnSessions'
  <2>. SUFFICES ASSUME NEW b \in BetIds
                PROVE  IF bets'[b].status = "NONE" THEN bets'[b].session = None
                       ELSE /\ bets'[b].session # None /\ bets'[b].side # None
                            /\ sessions'[bets'[b].session].status # "NONE"
                            /\ bets'[b].status # "PLACED" =>
                                 sessions'[bets'[b].session].status \in {"COMPLETED", "FAILED"}
    BY DEF BetsOnSessions
  <2>1. IF bets[b].status = "NONE" THEN bets[b].session = None
        ELSE /\ bets[b].session # None /\ bets[b].side # None
             /\ sessions[bets[b].session].status # "NONE"
             /\ bets[b].status # "PLACED" =>
                  sessions[bets[b].session].status \in {"COMPLETED", "FAILED"}
    BY DEF SchedulerInv, BetsOnSessions
  <2>2. CASE b \in batch
    BY <1>3, <1>5, <1>7, <2>1, <2>2 DEF PlacedIn
  <2>3. CASE b \notin batch
    <3>1. bets[b] \in Bet
      BY DEF TypeOK
    <3>2. bets[b].session \in SessionIds \cup {None}
      BY <3>1 DEF Bet
    <3>. QED
      BY <1>5, <1>6, <1>7, <2>1, <2>3, <3>2
  <2>. QED
    BY <2>2, <2>3
<1>15. CreditedAsResolved'
  <2>. SUFFICES ASSUME NEW b \in BetIds
                PROVE  CASE bets'[b].status = "WON" ->
                              Credits(b)' = {Transfer("BET_WIN_CREDIT", b, Pool, bets'[b].player,
                                                      2 * bets'[b].amount - FeeOf[bets'[b].amount])}
                         [] bets'[b].status = "REFUNDED" ->
                              \/ Credits(b)' = {}
                              \/ \E n \in 1 .. bets'[b].amount :
                                   Credits(b)' = {Transfer("BET_REFUND", b, Pool, bets'[b].player, n)}
                         [] OTHER -> Credits(b)' = {}
    BY DEF CreditedAsResolved
  <2>1. CASE b \notin batch
    BY <1>4, <1>7, <2>1 DEF SchedulerInv, CreditedAsResolved
  <2>2. CASE b \in batch
    BY <1>4, <1>7, <2>2 DEF PaymentRow
  <2>. QED
    BY <2>1, <2>2
<1>16. SettledByWinner'
  <2>. SUFFICES ASSUME NEW u \in SessionIds, sessions'[u].status = "COMPLETED",
                       NEW b \in BetIds, bets'[b].session = u
                PROVE  bets'[b].status = IF bets'[b].side = sessions'[u].winner
                                         THEN "WON" ELSE "LOST"
    BY DEF SettledByWinner
  <2>1. u # s
    BY <1>5
  <2>2. b \notin batch
    BY <1>3, <1>7, <2>1 DEF PlacedIn
  <2>. QED
    BY <1>6, <1>7, <2>1, <2>2 DEF SchedulerInv, SettledByWinner
<1>. QED
  BY <1>11, <1>12, <1>13, <1>14, <1>15, <1>16 DEF SchedulerInv

\* A step of the process that touches no table: recovery goes on, or ends, or the
\* process goes down.
LEMMA ProcessSteps ==
  ASSUME TypeOK, SchedulerInv, OneScheduler, NEW i \in Schedulers,
         UNCHANGED <<ledger, bets, sessions>>,
         \/ UNCHANGED task
         \/ \E pc \in {"down", "wait"} :
              task' = [task EXCEPT ![i] = [g \in Games |-> TaskAt(pc)]],
         RecoveryAlone'
  PROVE  SchedulerInv'
<1>. USE DEF SchedulerInv
<1>1. \A j \in Schedulers, g \in Games :
        \/ task'[j][g] = task[j][g]
        \/ task'[j][g].pc \in {"down", "wait"} /\ task'[j][g].session = None
  BY DEF TypeOK, OneScheduler, TaskAt
<1>2. CyclesInStep'
  <2>. SUFFICES ASSUME NEW j \in Schedulers, NEW g \in Games PROVE InStep(task[j][g], g)'
    BY DEF CyclesInStep
  <2>1. InStep(task[j][g], g)
    BY DEF CyclesInStep
  <2>2. CASE task'[j][g] = task[j][g]
    BY <2>1, <2>2 DEF InStep
  <2>3. CASE task'[j][g].pc \in {"down", "wait"} /\ task'[j][g].session = None
    BY <2>3 DEF InStep, Stage, InTry
  <2>. QED
    BY <1>1, <2>2, <2>3
<1>3. ListComplete'
  BY <1>1 DEF ListComplete, PlacedIn
<1>4. BetsOnSessions'
  BY DEF BetsOnSessions
<1>5. CreditedAsResolved'
  BY DEF CreditedAsResolved, Credits
<1>6. SettledByWinner'
  BY DEF SettledByWinner
<1>. QED
  BY <1>2, <1>3, <1>4, <1>5, <1>6

\* The steps of the process but the refund keep the invariant.
LEMMA SchedulerRecover ==
  ASSUME TypeOK, SchedulerInv, OneScheduler, NEW i \in Schedulers, Recover(i) \/ Exit(i)
  PROVE  SchedulerInv'
<1>1. recovery[i] \in Recovery /\ i \in DOMAIN recovery /\ i \in DOMAIN task
  BY DEF TypeOK
<1>2. \A j \in Schedulers : j = i
  BY DEF OneScheduler
<1>3. /\ recovery[i].state # "up" => \A g \in Games : task[i][g].pc = "down"
      /\ recovery[i].state # "recovering" => recovery[i].session = None
      /\ recovery[i].state = "recovering" => recovery[i].todo \subseteq Unfinished
  BY DEF SchedulerInv, RecoveryAlone
<1>4. CASE Start(i)
  <2>1. recovery'[i] = [recovery[i] EXCEPT !.state = "recovering", !.todo = Unfinished]
    BY <1>1, <1>4 DEF Start
  <2>2. /\ recovery'[i].state = "recovering" /\ recovery'[i].todo = Unfinished
        /\ recovery'[i].session = None
    BY <1>1, <1>3, <1>4, <2>1 DEF Recovery, Start
  <2>3. Unfinished' = Unfinished /\ UNCHANGED task
    BY <1>4 DEF Start, Unfinished, database
  <2>4. RecoveryAlone'
    BY <1>2, <1>3, <1>4, <2>2, <2>3 DEF RecoveryAlone, Start
  <2>. QED
    BY <1>4, <2>3, <2>4, ProcessSteps DEF Start, database
<1>5. CASE ReadStuck(i)
  <2>1. PICK s \in recovery[i].todo : recovery' = [recovery EXCEPT ![i] =
          [@ EXCEPT !.session = s, !.batch = PlacedIn(s), !.todo = recovery[i].todo \ {s}]]
    BY <1>5 DEF ReadStuck
  <2>2. recovery'[i] = [recovery[i] EXCEPT !.session = s, !.batch = PlacedIn(s),
                                           !.todo = recovery[i].todo \ {s}]
    BY <1>1, <2>1
  <2>3. /\ recovery'[i].state = "recovering" /\ recovery'[i].session = s
        /\ recovery'[i].batch = PlacedIn(s) /\ recovery'[i].todo = recovery[i].todo \ {s}
    BY <1>1, <1>5, <2>2 DEF Recovery, ReadStuck
  <2>4. Unfinished' = Unfinished /\ PlacedIn(s)' = PlacedIn(s) /\ UNCHANGED task
    BY <1>5 DEF ReadStuck, Unfinished, PlacedIn, database
  <2>5. PlacedIn(recovery'[i].session) = PlacedIn(s) /\ UNCHANGED bets
    BY <1>5, <2>3 DEF ReadStuck, database
  <2>6. RecoveryAlone'
    BY <1>2, <1>3, <1>5, <2>3, <2>4, <2>5 DEF RecoveryAlone, ReadStuck, PlacedIn
  <2>. QED
    BY <1>5, <2>4, <2>6, ProcessSteps DEF ReadStuck, database
<1>6. CASE RefundSession(i)
  BY <1>6, SchedulerRefund
<1>7. CASE EndRecovery(i)
  <2>1. recovery'[i] = [recovery[i] EXCEPT !.state = "up"]
    BY <1>1, <1>7 DEF EndRecovery
  <2>2. recovery'[i].state = "up" /\ recovery'[i].session = None
    BY <1>1, <1>7, <2>1 DEF Recovery, EndRecovery
  <2>3. RecoveryAlone'
    BY <1>2, <2>2 DEF RecoveryAlone
  <2>. QED
    BY <1>7, <2>3, ProcessSteps DEF EndRecovery, database
<1>8. CASE Exit(i)
  <2>1. recovery'[i] = Down /\ task' = [task EXCEPT ![i] = [g \in Games |-> TaskAt("down")]]
    BY <1>1, <1>8 DEF Exit
  <2>2. task'[i] = [g \in Games |-> TaskAt("down")]
    BY <1>1, <2>1
  <2>3. \A g \in Games : task'[i][g].pc = "down"
    BY <2>2 DEF TaskAt
  <2>4. RecoveryAlone'
    BY <1>2, <2>1, <2>3 DEF RecoveryAlone, Down
  <2>. QED
    BY <1>8, <2>1, <2>4, ProcessSteps DEF Exit, database
<1>. QED
  BY <1>4, <1>5, <1>6, <1>7, <1>8 DEF Recover

\* Placing a bet keeps the invariant: betting on its session is open, so neither
\* settlement nor recovery has a list of the bets on it that could miss the new one.
LEMMA SchedulerBet ==
  ASSUME TypeOK, SchedulerInv, NEW r \in Requests, CommitBet(r)
  PROVE  SchedulerInv'
<1> DEFINE q == request[r]
<1>1. PICK s \in OpenSession(q.game), b \in BetIds :
        /\ bets[b].status = "NONE"
        /\ ledger' = ledger \cup {Transfer("BET_DEBIT", b, q.player, Pool, q.amount)}
        /\ bets' = [bets EXCEPT ![b] =
             [status |-> "PLACED", session |-> s, player |-> q.player,
              side |-> q.side, amount |-> q.amount]]
        /\ Tally(s, q.side, q.amount)
  BY DEF CommitBet
<1>2. s \in SessionIds /\ sessions[s].status = "BETTING" /\ s # None
  BY <1>1, NoneApart DEF OpenSession
<1>3. q.side # None
  <2>1. q \in Request
    BY DEF TypeOK, CommitBet
  <2>. QED
    BY <2>1, NoneApart DEF Request
<1>4. /\ bets'[b].status = "PLACED" /\ bets'[b].session = s /\ bets'[b].side = q.side
      /\ \A c \in BetIds : c # b => bets'[c] = bets[c]
  BY <1>1 DEF TypeOK
<1>5. \A c \in BetIds : Credits(c)' = Credits(c)
  BY <1>1 DEF Credits, Transfer
<1>6. \A u \in SessionIds : /\ sessions'[u].status = sessions[u].status
                            /\ sessions'[u].game = sessions[u].game
                            /\ sessions'[u].winner = sessions[u].winner
  <2>. SUFFICES ASSUME NEW u \in SessionIds
                PROVE  /\ sessions'[u].status = sessions[u].status
                       /\ sessions'[u].game = sessions[u].game
                       /\ sessions'[u].winner = sessions[u].winner
    OBVIOUS
  <2>1. sessions[u] \in Session
    BY DEF TypeOK
  <2>2. sessions'[u] = IF u = s
          THEN [sessions[u] EXCEPT !.total = [sessions[u].total EXCEPT ![q.side] = @ + q.amount]]
          ELSE sessions[u]
    BY <1>1 DEF Tally, TypeOK
  <2>. QED
    BY <2>1, <2>2 DEF Session
<1>7. UNCHANGED <<task, recovery>>
  BY DEF CommitBet
<1>. HIDE DEF q
<1>8. CyclesInStep'
  <2>. SUFFICES ASSUME NEW j \in Schedulers, NEW g \in Games PROVE InStep(task[j][g], g)'
    BY DEF CyclesInStep
  <2>1. task[j][g].session \in SessionIds \cup {None}
    BY DEF TypeOK, Task
  <2>2. InStep(task[j][g], g)
    BY DEF SchedulerInv, CyclesInStep
  <2>3. \A pc \in DOMAIN Stage : task[j][g].pc = pc => task[j][g].session # None
    BY <2>2 DEF InStep
  <2>. QED
    BY <1>6, <1>7, <2>1, <2>2, <2>3 DEF InStep
<1>9. ListComplete'
  <2>. SUFFICES ASSUME NEW j \in Schedulers, NEW g \in Games, task[j][g].pc = "settling"
                PROVE  PlacedIn(task[j][g].session)' = PlacedIn(task[j][g].session)
    BY <1>7 DEF SchedulerInv, ListComplete
  <2>1. sessions[task[j][g].session].status = "RUNNING"
    BY DEF SchedulerInv, CyclesInStep, InStep, Stage, InTry
  <2>2. task[j][g].session # s
    BY <1>2, <2>1
  <2>. QED
    BY <1>1, <1>4, <1>7, <2>2 DEF PlacedIn
<1>10. RecoveryAlone'
  <2>1. Unfinished' = Unfinished
    BY <1>6 DEF Unfinished
  <2>2. \A u : PlacedIn(u) \subseteq {c \in BetIds : bets'[c].session = u /\ bets'[c].status = "PLACED"}
    BY <1>1, <1>4 DEF PlacedIn
  <2>. QED
    BY <1>7, <2>1, <2>2 DEF SchedulerInv, RecoveryAlone, PlacedIn
<1>11. BetsOnSessions'
  <2>. SUFFICES ASSUME NEW c \in BetIds
                PROVE  IF bets'[c].status = "NONE" THEN bets'[c].session = None
                       ELSE /\ bets'[c].session # None /\ bets'[c].side # None
                            /\ sessions'[bets'[c].session].status # "NONE"
                            /\ bets'[c].status # "PLACED" =>
                                 sessions'[bets'[c].session].status \in {"COMPLETED", "FAILED"}
    BY DEF BetsOnSessions
  <2>1. CASE c = b
    BY <1>2, <1>3, <1>4, <1>6, <2>1
  <2>2. CASE c # b
    <3>1. bets[c] \in Bet
      BY DEF TypeOK
    <3>2. bets[c].session \in SessionIds \cup {None}
      BY <3>1 DEF Bet
    <3>3. IF bets[c].status = "NONE" THEN bets[c].session = None
          ELSE /\ bets[c].session # None /\ bets[c].side # None
               /\ sessions[bets[c].session].status # "NONE"
               /\ bets[c].status # "PLACED" =>
                    sessions[bets[c].session].status \in {"COMPLETED", "FAILED"}
      BY DEF SchedulerInv, BetsOnSessions
    <3>. QED
      BY <1>4, <1>6, <2>2, <3>2, <3>3
  <2>. QED
    BY <2>1, <2>2
<1>12. CreditedAsResolved'
  <2>1. Credits(b) = {}
    BY <1>1 DEF SchedulerInv, CreditedAsResolved
  <2>2. \A c \in BetIds : c # b => bets'[c] = bets[c] /\ Credits(c)' = Credits(c)
    BY <1>4, <1>5
  <2>. QED
    BY <1>4, <1>5, <2>1, <2>2 DEF SchedulerInv, CreditedAsResolved
<1>13. SettledByWinner'
  BY <1>2, <1>4, <1>6 DEF SchedulerInv, SettledByWinner
<1>. QED
  BY <1>8, <1>9, <1>10, <1>11, <1>12, <1>13 DEF SchedulerInv

\* Every step of a system with one scheduler keeps the invariant.
LEMMA SchedulerNext ==
  ASSUME OneScheduler
  PROVE  TypeOK /\ SchedulerInv /\ [Next]_vars => SchedulerInv'
<1>. SUFFICES ASSUME TypeOK, SchedulerInv, [Next]_vars PROVE SchedulerInv'
  OBVIOUS
<1>1. ASSUME NEW r \in Requests, Bettor(r) PROVE SchedulerInv'
  <2>1. CASE ReadPhase(r)
    BY <2>1, SchedulerFrame DEF ReadPhase, database
  <2>2. CASE CheckActive(r)
    BY <2>2, SchedulerFrame DEF CheckActive, database
  <2>3. CASE CommitBet(r)
    BY <2>3, SchedulerBet
  <2>4. CASE RejectBet(r)
    BY <2>4, SchedulerFrame DEF RejectBet, database
  <2>. QED
    BY <1>1, <2>1, <2>2, <2>3, <2>4 DEF Bettor
<1>2. ASSUME NEW i \in Schedulers, NEW g \in Games, Cycle(i, g) \/ Raise(i, g)
      PROVE  SchedulerInv'
  BY <1>2, SchedulerCycle, SchedulerSettle
<1>3. ASSUME NEW g \in Games, Expire(g) PROVE SchedulerInv'
  BY <1>3, SchedulerFrame DEF Expire, database
<1>4. ASSUME NEW i \in Schedulers, Exit(i) \/ Recover(i) PROVE SchedulerInv'
  BY <1>4, SchedulerRecover
<1>5. CASE OutOfSessions \/ UNCHANGED vars
  BY <1>5, SchedulerFrame DEF OutOfSessions, vars, database
<1>. QED
  BY <1>1, <1>2, <1>3, <1>4, <1>5 DEF Next

\* With one scheduler the inductive invariant holds throughout.
THEOREM SchedulerInvariant == ASSUME OneScheduler PROVE Spec => []SchedulerInv
<1>1. TypeOK /\ SchedulerInv /\ [Next]_vars => SchedulerInv'
  BY SchedulerNext
<1>. QED
  BY <1>1, TypeCorrect, SchedulerInit, PTL DEF Spec

\* With one scheduler a bet is credited at most once, and as its status says, no
\* matter when its process ends, calls raise, locks expire or bets arrive.
THEOREM CreditedOnce == ASSUME OneScheduler PROVE Spec => []CreditedAsResolved
<1>1. SchedulerInv => CreditedAsResolved
  BY DEF SchedulerInv
<1>. QED
  BY <1>1, SchedulerInvariant, PTL

\* With one scheduler a completed session has settled every bet on it by its winner.
THEOREM SettledCorrectly == ASSUME OneScheduler PROVE Spec => []SettledByWinner
<1>1. SchedulerInv => SettledByWinner
  BY DEF SchedulerInv
<1>. QED
  BY <1>1, SchedulerInvariant, PTL

\* With one scheduler a bet that was won, lost or refunded is never touched again:
\* the lists that settlement and recovery work on hold placed bets only.
THEOREM ResolvedForGood == ASSUME OneScheduler PROVE Spec => ResolvedBetsStay
<1> DEFINE Stay == \A b \in BetIds : bets[b].status \in {"WON", "LOST", "REFUNDED"} =>
                     bets'[b] = bets[b]
<1>1. ASSUME TypeOK, SchedulerInv, [Next]_vars PROVE Stay
  <2>. SUFFICES ASSUME NEW b \in BetIds, bets[b].status \in {"WON", "LOST", "REFUNDED"}
                PROVE  bets'[b] = bets[b]
    OBVIOUS
  <2>1. CASE UNCHANGED bets
    BY <2>1
  <2>2. ASSUME NEW r \in Requests, CommitBet(r) PROVE bets'[b] = bets[b]
    BY <1>1, <2>2 DEF CommitBet, TypeOK
  <2>3. ASSUME NEW i \in Schedulers, NEW g \in Games, SettleBets(i, g)
        PROVE  bets'[b] = bets[b]
    <3>1. b \notin task[i][g].batch
      BY <1>1, <2>3, SettleCredits DEF PlacedIn
    <3>. QED
      BY <2>3, <3>1 DEF SettleBets, Mark
  <2>4. ASSUME NEW i \in Schedulers, RefundSession(i) PROVE bets'[b] = bets[b]
    <3>1. recovery[i].batch \subseteq PlacedIn(recovery[i].session)
      BY <1>1, <2>4 DEF SchedulerInv, RecoveryAlone, RefundSession
    <3>2. b \notin recovery[i].batch
      BY <3>1 DEF PlacedIn
    <3>. QED
      BY <2>4, <3>2 DEF RefundSession, Mark
  <2>. QED
    BY <1>1, <2>1, <2>2, <2>3, <2>4, BetWriters
<1>2. TypeOK /\ SchedulerInv /\ [Next]_vars => [Stay]_vars
  BY <1>1
<1>. QED
  BY <1>2, TypeCorrect, SchedulerInvariant, PTL DEF Spec, ResolvedBetsStay

-----------------------------------------------------------------------------
(* What is shown while the cooldown runs.                                  *)

\* The points of a cycle between the opening of its session and its cooldown.
OnShow == {"betting", "closed", "initiating", "running", "drawn", "revealed", "settling",
           "settled"}

\* The keys of a game follow the coroutine that plays it.
InView(t, g) ==
  /\ t.pc \in OnShow => redis[g].session = t.session /\ redis[g].phase # "SETTLING"
  /\ t.pc \in {"revealed", "settling", "settled"} => redis[g].winner = t.winner
  /\ t.pc = "settled" => sessions[t.session].winner = t.winner

\* A session shown in its cooldown is over, with no open bet and the winner shown.
CooldownOver ==
  \A g \in Games : redis[g].phase = "SETTLING" =>
    /\ redis[g].session \in SessionIds
    /\ sessions[redis[g].session].status \in {"COMPLETED", "FAILED"}
    /\ PlacedIn(redis[g].session) = {}
    /\ sessions[redis[g].session].winner = redis[g].winner

\* The inductive invariant, next to SchedulerInv.
ShownInv == CooldownOver /\ \A i \in Schedulers, g \in Games : InView(task[i][g], g)

\* What settlement does to the session: it completes it, with the winner drawn.
LEMMA SettledSession ==
  ASSUME TypeOK, SchedulerInv, NEW i \in Schedulers, NEW g \in Games, SettleBets(i, g)
  PROVE  LET s == task[i][g].session
         IN /\ s \in SessionIds /\ sessions[s].status = "RUNNING"
            /\ sessions'[s].winner = task[i][g].winner
            /\ \A u \in SessionIds : u # s => sessions'[u] = sessions[u]
<1> DEFINE s == task[i][g].session
<1>1. s \in SessionIds /\ sessions[s].status = "RUNNING"
  BY SettleCredits
<1>2. sessions[s] \in Session
  BY <1>1 DEF TypeOK
<1>3. \A u \in SessionIds : sessions'[u] =
        IF u = s THEN [sessions[s] EXCEPT !.status = "COMPLETED", !.winner = task[i][g].winner]
        ELSE sessions[u]
  BY DEF SettleBets, TypeOK
<1>. QED
  BY <1>1, <1>2, <1>3 DEF Session

\* A session that is over stays over, keeps its winner, and gets no open bet.
LEMMA OverStays ==
  ASSUME TypeOK, SchedulerInv, [Next]_vars, NEW s \in SessionIds,
         sessions[s].status \in {"COMPLETED", "FAILED"}
  PROVE  /\ sessions'[s].status \in {"COMPLETED", "FAILED"}
         /\ sessions'[s].winner = sessions[s].winner
         /\ PlacedIn(s)' \subseteq PlacedIn(s)
<1> DEFINE Ended(t) == /\ t.status \in {"COMPLETED", "FAILED"}
                       /\ t.winner = sessions[s].winner
<1>0. sessions[s] \in Session
  BY DEF TypeOK
<1>1. ASSUME NEW i \in Schedulers, NEW g \in Games, NEW status,
             SetStatus(i, g, status), task[i][g].session \in SessionIds,
             status = "FAILED" \/ task[i][g].session # s
      PROVE  Ended(sessions'[s])
  <2>1. sessions'[s] = IF s = task[i][g].session THEN [sessions[s] EXCEPT !.status = status]
                       ELSE sessions[s]
    BY <1>1 DEF SetStatus, TypeOK
  <2>. QED
    BY <1>0, <1>1, <2>1 DEF Session
<1>2. ASSUME NEW i \in Schedulers, NEW g \in Games, Cycle(i, g) \/ Raise(i, g)
      PROVE  Ended(sessions'[s])
  <2>1. InStep(task[i][g], g) /\ task[i][g].session \in SessionIds \cup {None}
    BY DEF SchedulerInv, CyclesInStep, TypeOK, Task
  <2>2. CASE InsertSession(i, g)
    BY <2>2 DEF InsertSession, TypeOK
  <2>3. CASE CloseBetting(i, g)
    <3>1. task[i][g].session \in SessionIds /\ task[i][g].session # s
      BY <2>1, <2>3 DEF CloseBetting, Move, InStep, Stage, InTry
    <3>. QED
      BY <1>1, <2>3, <3>1 DEF CloseBetting
  <2>4. CASE DrawResult(i, g)
    <3>1. task[i][g].session \in SessionIds /\ task[i][g].session # s
      BY <2>1, <2>4 DEF DrawResult, InStep, Stage, InTry
    <3>. QED
      BY <1>1, <2>4, <3>1 DEF DrawResult
  <2>5. CASE SettleBets(i, g)
    BY <2>5, SettledSession
  <2>6. CASE FailSession(i, g)
    BY <1>1, <2>1, <2>6 DEF FailSession
  <2>7. CASE UNCHANGED sessions
    BY <2>7
  <2>. QED
    BY <1>2, <2>2, <2>3, <2>4, <2>5, <2>6, <2>7
    DEF Cycle, Acquire, ShowBetting, ShowInitiating, ShowRunning, RevealWinner, ReadBets,
        ShowSettling, LeaveSession, ShowIdle, Raise, database
<1>3. ASSUME NEW i \in Schedulers, Exit(i) \/ Recover(i) PROVE Ended(sessions'[s])
  <2>1. CASE RefundSession(i)
    <3>1. recovery[i].session # s
      BY <2>1 DEF RefundSession, SchedulerInv, RecoveryAlone, Unfinished
    <3>. QED
      BY <2>1, <3>1 DEF RefundSession, TypeOK
  <2>2. CASE UNCHANGED sessions
    BY <2>2
  <2>. QED
    BY <1>3, <2>1, <2>2 DEF Recover, Exit, Start, ReadStuck, EndRecovery, database
<1>4. ASSUME NEW r \in Requests, Bettor(r) PROVE Ended(sessions'[s])
  <2>1. CASE CommitBet(r)
    BY <2>1, BetAdds
  <2>2. CASE UNCHANGED sessions
    BY <2>2
  <2>. QED
    BY <1>4, <2>1, <2>2 DEF Bettor, ReadPhase, CheckActive, RejectBet, database
<1>5. ASSUME NEW g \in Games, Expire(g) PROVE Ended(sessions'[s])
  BY <1>5 DEF Expire, database
<1>6. ASSUME OutOfSessions \/ UNCHANGED vars PROVE Ended(sessions'[s])
  BY <1>6 DEF OutOfSessions, vars, database
<1>7. Ended(sessions'[s])
  BY <1>2, <1>3, <1>4, <1>5, <1>6 DEF Next
<1>8. PlacedIn(s)' \subseteq PlacedIn(s)
  <2>1. CASE UNCHANGED bets
    BY <2>1 DEF PlacedIn
  <2>2. ASSUME NEW r \in Requests, CommitBet(r) PROVE PlacedIn(s)' \subseteq PlacedIn(s)
    <3>1. PICK u \in SessionIds, b \in BetIds :
            /\ sessions[u].status = "BETTING" /\ bets'[b].session = u
            /\ \A c \in BetIds : c # b => bets'[c] = bets[c]
      BY <2>2, BetAdds
    <3>2. u # s
      BY <3>1
    <3>. QED
      BY <3>1, <3>2 DEF PlacedIn
  <2>3. ASSUME NEW batch \in SUBSET BetIds, NEW status, bets' = Mark(batch, status),
               \A b \in batch : status[b] # "PLACED"
        PROVE  PlacedIn(s)' \subseteq PlacedIn(s)
    BY <2>3, MarkChanges DEF PlacedIn
  <2>4. ASSUME NEW i \in Schedulers, NEW g \in Games, SettleBets(i, g)
        PROVE  PlacedIn(s)' \subseteq PlacedIn(s)
    <3> DEFINE batch  == task[i][g].batch
               status == [b \in batch |-> IF b \in Winners(task[i][g]) THEN "WON" ELSE "LOST"]
    <3>1. bets' = Mark(batch, status) /\ \A b \in batch : status[b] # "PLACED"
      BY <2>4 DEF SettleBets
    <3>2. batch \in SUBSET BetIds
      BY DEF TypeOK, Task
    <3>. HIDE DEF batch, status
    <3>. QED
      BY <2>3, <3>1, <3>2
  <2>5. ASSUME NEW i \in Schedulers, RefundSession(i) PROVE PlacedIn(s)' \subseteq PlacedIn(s)
    <3> DEFINE batch  == recovery[i].batch
               status == [b \in batch |-> "REFUNDED"]
    <3>1. bets' = Mark(batch, status) /\ \A b \in batch : status[b] # "PLACED"
      BY <2>5 DEF RefundSession
    <3>2. batch \in SUBSET BetIds
      BY DEF TypeOK, Recovery
    <3>. HIDE DEF batch, status
    <3>. QED
      BY <2>3, <3>1, <3>2
  <2>. QED
    BY <2>1, <2>2, <2>4, <2>5, BetWriters
<1>. QED
  BY <1>7, <1>8

\* A step of the cycle of g leaves its keys in view of it.
LEMMA ViewCycle ==
  ASSUME TypeOK, SchedulerInv, OneScheduler, NEW i \in Schedulers, NEW g \in Games,
         InView(task[i][g], g), Cycle(i, g) \/ Raise(i, g)
  PROVE  InView(task[i][g], g)'
<1> DEFINE t == task[i][g]
<1>1. t \in Task /\ t.session \in SessionIds \cup {None} /\ InStep(t, g)
  BY DEF TypeOK, Task, SchedulerInv, CyclesInStep
<1>2. redis[g] \in Keys
  BY DEF TypeOK
<1>3. ASSUME NEW from, NEW to, Move(i, g, from, to), to \notin OnShow
      PROVE  InView(task[i][g], g)'
  BY <1>3, MoveTo DEF InView, OnShow
<1>4. ASSUME NEW u, SetTask(i, g, u) PROVE task'[i][g] = u
  BY <1>4, TaskAfter
<1>5. CASE InsertSession(i, g)
  <2>1. PICK s : SetTask(i, g, [task[i][g] EXCEPT !.pc = "inserted", !.session = s])
    BY <1>5 DEF InsertSession
  <2>2. task'[i][g] = [task[i][g] EXCEPT !.pc = "inserted", !.session = s]
    BY <1>4, <2>1
  <2>3. task'[i][g].pc = "inserted"
    BY <1>1, <2>2 DEF Task
  <2>. QED
    BY <2>3 DEF InView, OnShow
<1>6. CASE ShowBetting(i, g)
  <2>1. task'[i][g].pc = "betting" /\ task'[i][g].session = t.session
    BY <1>6, MoveTo DEF ShowBetting
  <2>2. redis'[g] = [phase |-> "BETTING", session |-> t.session, winner |-> None]
    BY <1>6 DEF ShowBetting, TypeOK
  <2>. QED
    BY <2>1, <2>2 DEF InView
<1>7. CASE CloseBetting(i, g)
  <2>1. /\ t.pc = "betting" /\ task'[i][g].pc = "closed" /\ task'[i][g].session = t.session
        /\ redis' = redis
    BY <1>7, MoveTo DEF CloseBetting
  <2>. QED
    BY <2>1 DEF InView, OnShow
<1>8. ASSUME NEW from \in OnShow \ {"revealed", "settling", "settled"},
             NEW to \in OnShow \ {"revealed", "settling", "settled"},
             NEW phase \in Phase \ {"SETTLING"}, Move(i, g, from, to), Show(g, phase)
      PROVE  InView(task[i][g], g)'
  <2>1. t.pc = from /\ task'[i][g].pc = to /\ task'[i][g].session = t.session
    BY <1>8, MoveTo
  <2>2. redis'[g] = [redis[g] EXCEPT !.phase = phase]
    BY <1>8 DEF Show, TypeOK
  <2>3. redis'[g].phase = phase /\ redis'[g].session = redis[g].session
    BY <1>2, <2>2 DEF Keys
  <2>. QED
    BY <2>1, <2>3 DEF InView
<1>9. CASE ShowInitiating(i, g) \/ ShowRunning(i, g)
  BY <1>8, <1>9 DEF ShowInitiating, ShowRunning, OnShow, Phase
<1>10. CASE DrawResult(i, g)
  <2>1. PICK w : SetTask(i, g, [task[i][g] EXCEPT !.pc = "drawn", !.winner = w])
    BY <1>10 DEF DrawResult
  <2>2. task'[i][g] = [task[i][g] EXCEPT !.pc = "drawn", !.winner = w]
    BY <1>4, <2>1
  <2>3. /\ t.pc = "running" /\ task'[i][g].pc = "drawn" /\ task'[i][g].session = t.session
        /\ redis' = redis
    BY <1>1, <1>10, <2>2 DEF Task, DrawResult
  <2>. QED
    BY <2>3 DEF InView, OnShow
<1>11. CASE RevealWinner(i, g)
  <2>1. /\ t.pc = "drawn" /\ task'[i][g].pc = "revealed" /\ task'[i][g].session = t.session
        /\ task'[i][g].winner = t.winner
    BY <1>11, MoveTo DEF RevealWinner
  <2>2. redis'[g] = [redis[g] EXCEPT !.winner = t.winner]
    BY <1>11 DEF RevealWinner, TypeOK
  <2>3. /\ redis'[g].phase = redis[g].phase /\ redis'[g].session = redis[g].session
        /\ redis'[g].winner = t.winner
    BY <1>2, <2>2 DEF Keys
  <2>. QED
    BY <2>1, <2>3 DEF InView, OnShow
<1>12. CASE ReadBets(i, g)
  <2>1. task'[i][g] = [task[i][g] EXCEPT !.pc = "settling", !.batch = PlacedIn(t.session)]
    BY <1>4, <1>12 DEF ReadBets
  <2>2. /\ t.pc = "revealed" /\ task'[i][g].pc = "settling"
        /\ task'[i][g].session = t.session
        /\ task'[i][g].winner = t.winner /\ redis' = redis
    BY <1>1, <1>12, <2>1 DEF Task, ReadBets, database
  <2>. QED
    BY <2>2 DEF InView, OnShow
<1>13. CASE SettleBets(i, g)
  <2>1. /\ t.pc = "settling" /\ task'[i][g].pc = "settled" /\ task'[i][g].session = t.session
        /\ task'[i][g].winner = t.winner /\ redis' = redis
    BY <1>13, MoveTo DEF SettleBets
  <2>2. sessions'[t.session].winner = t.winner
    BY <1>13, SettledSession
  <2>. QED
    BY <2>1, <2>2 DEF InView, OnShow
<1>14. CASE ShowIdle(i, g)
  <2>1. task'[i][g] = TaskAt("begin")
    BY <1>4, <1>14 DEF ShowIdle
  <2>. QED
    BY <2>1 DEF InView, TaskAt, OnShow
<1>15. CASE Raise(i, g)
  BY <1>3, <1>15 DEF Raise, Move, OnShow
<1>. QED
  BY <1>3, <1>5, <1>6, <1>7, <1>9, <1>10, <1>11, <1>12, <1>13, <1>14, <1>15
  DEF Cycle, Acquire, ShowSettling, FailSession, LeaveSession, OnShow

\* A cycle changes its own coroutine and its own keys only.
LEMMA CycleAlone ==
  ASSUME TypeOK, OneScheduler, NEW i \in Schedulers, NEW g \in Games,
         Cycle(i, g) \/ Raise(i, g)
  PROVE  \A j \in Schedulers, h \in Games : h # g =>
           task'[j][h] = task[j][h] /\ redis'[h] = redis[h]
<1>1. \E t : SetTask(i, g, t)
  BY DEF Cycle, Move, Acquire, InsertSession, ShowBetting, CloseBetting, ShowInitiating,
     ShowRunning, DrawResult, RevealWinner, ReadBets, SettleBets, ShowSettling, FailSession,
     LeaveSession, ShowIdle, Raise
<1>2. \A h \in Games : h # g => redis'[h] = redis[h]
  BY DEF Cycle, Acquire, InsertSession, ShowBetting, CloseBetting, ShowInitiating,
     ShowRunning, DrawResult, RevealWinner, ReadBets, SettleBets, ShowSettling, FailSession,
     LeaveSession, ShowIdle, Raise, Show, TypeOK
<1>. QED
  BY <1>1, <1>2, TaskAfter

\* A cycle that has settled works on a completed session.
LEMMA SettledIsOver ==
  ASSUME TypeOK, SchedulerInv, NEW i \in Schedulers, NEW g \in Games,
         task[i][g].pc = "settled"
  PROVE  /\ task[i][g].session \in SessionIds
         /\ sessions[task[i][g].session].status = "COMPLETED"
<1>1. task[i][g] \in Task /\ InStep(task[i][g], g)
  BY DEF TypeOK, SchedulerInv, CyclesInStep
<1>2. task[i][g].session \in SessionIds \cup {None}
  BY <1>1 DEF Task
<1>3. "settled" \in DOMAIN Stage /\ Stage["settled"] = "COMPLETED"
  BY DEF Stage, InTry
<1>4. task[i][g].session # None /\ sessions[task[i][g].session].status = Stage["settled"]
  BY <1>1, <1>3 DEF InStep
<1>. QED
  BY <1>2, <1>3, <1>4

\* The keys of a game keep agreeing with its cycle, whoever takes a step.
LEMMA ViewNext ==
  ASSUME TypeOK, SchedulerInv, OneScheduler, [Next]_vars,
         NEW i \in Schedulers, NEW g \in Games, InView(task[i][g], g)
  PROVE  InView(task[i][g], g)'
<1>1. ASSUME task'[i][g] = task[i][g], redis'[g] = redis[g]
      PROVE  InView(task[i][g], g)'
  <2>1. CASE task[i][g].pc = "settled"
    <3>1. /\ task[i][g].session \in SessionIds
          /\ sessions[task[i][g].session].status = "COMPLETED"
      BY <2>1, SettledIsOver
    <3>2. sessions'[task[i][g].session].winner = sessions[task[i][g].session].winner
      BY <3>1, OverStays
    <3>. QED
      BY <1>1, <3>2 DEF InView
  <2>2. CASE task[i][g].pc # "settled"
    BY <1>1, <2>2 DEF InView
  <2>. QED
    BY <2>1, <2>2
<1>2. ASSUME NEW j \in Schedulers, NEW h \in Games, Cycle(j, h) \/ Raise(j, h)
      PROVE  InView(task[i][g], g)'
  <2>1. j = i
    BY DEF OneScheduler
  <2>2. CASE h = g
    BY <1>2, <2>1, <2>2, ViewCycle
  <2>3. CASE h # g
    BY <1>1, <1>2, <2>3, CycleAlone
  <2>. QED
    BY <2>2, <2>3
<1>3. ASSUME NEW j \in Schedulers, Exit(j) \/ EndRecovery(j)
      PROVE  InView(task[i][g], g)'
  <2>1. PICK pc \in {"down", "wait"} : task' = [task EXCEPT ![j] = [k \in Games |-> TaskAt(pc)]]
    BY <1>3 DEF Exit, EndRecovery
  <2>2. task'[i][g].pc = pc
    BY <2>1 DEF TypeOK, OneScheduler, TaskAt
  <2>. QED
    BY <2>2 DEF InView, OnShow
<1>4. ASSUME NEW j \in Schedulers, Recover(j), ~EndRecovery(j)
      PROVE  InView(task[i][g], g)'
  BY <1>1, <1>4 DEF Recover, Start, ReadStuck, RefundSession
<1>5. ASSUME NEW r \in Requests, Bettor(r) PROVE InView(task[i][g], g)'
  BY <1>1, <1>5 DEF Bettor, ReadPhase, CheckActive, CommitBet, RejectBet
<1>6. ASSUME NEW h \in Games, Expire(h) PROVE InView(task[i][g], g)'
  BY <1>1, <1>6 DEF Expire
<1>7. ASSUME OutOfSessions \/ UNCHANGED vars PROVE InView(task[i][g], g)'
  BY <1>1, <1>7 DEF OutOfSessions, vars
<1>. QED
  BY <1>2, <1>3, <1>4, <1>5, <1>6, <1>7 DEF Next

\* The cooldown of a game is shown by its own cycle only, or was shown before.
LEMMA CooldownShown ==
  ASSUME TypeOK, OneScheduler, SchedulerInv, [Next]_vars, NEW g \in Games,
         \A i \in Schedulers : InView(task[i][g], g), redis'[g].phase = "SETTLING"
  PROVE  \/ redis'[g] = redis[g]
         \/ \E i \in Schedulers : ShowSettling(i, g)
<1>0. redis[g] \in Keys
  BY DEF TypeOK
<1>1. ASSUME NEW i \in Schedulers, NEW h \in Games, Cycle(i, h) \/ Raise(i, h)
      PROVE  redis'[g] = redis[g] \/ ShowSettling(i, g)
  <2>1. CASE h # g
    BY <1>1, <2>1, CycleAlone
  <2>2. CASE h = g
    <3>1. CASE ShowBetting(i, g)
      BY <3>1 DEF ShowBetting, TypeOK
    <3>2. ASSUME NEW phase, Show(g, phase) PROVE redis'[g].phase = phase
      <4>1. redis'[g] = [redis[g] EXCEPT !.phase = phase]
        BY <3>2 DEF Show, TypeOK
      <4>. QED
        BY <1>0, <4>1 DEF Keys
    <3>3. CASE ShowInitiating(i, g) \/ ShowRunning(i, g)
      BY <3>2, <3>3 DEF ShowInitiating, ShowRunning
    <3>4. CASE RevealWinner(i, g)
      <4>1. redis'[g] = [redis[g] EXCEPT !.winner = task[i][g].winner]
        BY <3>4 DEF RevealWinner, TypeOK
      <4>2. redis'[g].phase = redis[g].phase
        BY <1>0, <4>1 DEF Keys
      <4>3. redis[g].phase # "SETTLING"
        BY <3>4 DEF RevealWinner, Move, InView, OnShow
      <4>. QED
        BY <4>2, <4>3
    <3>5. CASE ShowIdle(i, g)
      <4>1. redis'[g] = Idle(redis[g])
        BY <3>5 DEF ShowIdle, TypeOK
      <4>2. redis'[g].phase = "IDLE"
        BY <1>0, <4>1 DEF Idle, Keys
      <4>. QED
        BY <4>2
    <3>. QED
      BY <1>1, <2>2, <3>1, <3>3, <3>4, <3>5
      DEF Cycle, Acquire, InsertSession, CloseBetting, DrawResult, ReadBets, SettleBets,
          FailSession, LeaveSession, Raise
  <2>. QED
    BY <2>1, <2>2
<1>2. ASSUME NEW i \in Schedulers, Exit(i) PROVE redis'[g] = redis[g]
  <2>1. redis'[g] = Idle(redis[g]) \/ redis'[g] = redis[g]
    BY <1>2 DEF Exit
  <2>2. Idle(redis[g]).phase = "IDLE"
    BY <1>0 DEF Idle, Keys
  <2>. QED
    BY <2>1, <2>2
<1>3. ASSUME NEW i \in Schedulers, Recover(i) PROVE redis' = redis
  BY <1>3 DEF Recover, Start, ReadStuck, RefundSession, EndRecovery
<1>4. ASSUME NEW r \in Requests, Bettor(r) PROVE redis' = redis
  BY <1>4 DEF Bettor, ReadPhase, CheckActive, CommitBet, RejectBet
<1>5. ASSUME NEW h \in Games, Expire(h) PROVE redis' = redis
  BY <1>5 DEF Expire
<1>6. ASSUME OutOfSessions \/ UNCHANGED vars PROVE redis' = redis
  BY <1>6 DEF OutOfSessions, vars
<1>. QED
  BY <1>1, <1>2, <1>3, <1>4, <1>5, <1>6 DEF Next

LEMMA ShownNext ==
  ASSUME OneScheduler
  PROVE  TypeOK /\ SchedulerInv /\ ShownInv /\ [Next]_vars => ShownInv'
<1>. SUFFICES ASSUME TypeOK, SchedulerInv, ShownInv, [Next]_vars PROVE ShownInv'
  OBVIOUS
<1>1. \A i \in Schedulers, g \in Games : InView(task[i][g], g)'
  BY ViewNext DEF ShownInv
<1>2. ASSUME NEW g \in Games, redis'[g].phase = "SETTLING"
      PROVE  /\ redis'[g].session \in SessionIds
             /\ sessions'[redis'[g].session].status \in {"COMPLETED", "FAILED"}
             /\ {b \in BetIds : bets'[b].session = redis'[g].session
                               /\ bets'[b].status = "PLACED"} = {}
             /\ sessions'[redis'[g].session].winner = redis'[g].winner
  <2>1. /\ redis'[g].session = redis[g].session /\ redis'[g].winner = redis[g].winner
        /\ redis[g].session \in SessionIds
        /\ sessions[redis[g].session].status \in {"COMPLETED", "FAILED"}
        /\ PlacedIn(redis[g].session) = {}
        /\ sessions[redis[g].session].winner = redis[g].winner
    <3>1. CASE redis'[g] = redis[g]
      BY <1>2, <3>1 DEF ShownInv, CooldownOver
    <3>2. ASSUME NEW i \in Schedulers, ShowSettling(i, g)
          PROVE  /\ redis'[g].session = redis[g].session
                 /\ redis'[g].winner = redis[g].winner
                 /\ redis[g].session \in SessionIds
                 /\ sessions[redis[g].session].status \in {"COMPLETED", "FAILED"}
                 /\ PlacedIn(redis[g].session) = {}
                 /\ sessions[redis[g].session].winner = redis[g].winner
      <4>1. /\ task[i][g].pc = "settled" /\ task[i][g].session = redis[g].session
            /\ sessions[task[i][g].session].winner = task[i][g].winner
            /\ redis[g].winner = task[i][g].winner
        BY <3>2 DEF ShowSettling, Move, ShownInv, InView, OnShow
      <4>2. redis'[g] = [redis[g] EXCEPT !.phase = "SETTLING"] /\ redis[g] \in Keys
        BY <3>2 DEF ShowSettling, Show, TypeOK
      <4>3. redis'[g].session = redis[g].session /\ redis'[g].winner = redis[g].winner
        BY <4>2 DEF Keys
      <4>4. redis[g].session \in SessionIds /\ sessions[redis[g].session].status = "COMPLETED"
        BY <4>1, SettledIsOver
      <4>5. PlacedIn(redis[g].session) = {}
        BY <4>4 DEF PlacedIn, SchedulerInv, SettledByWinner
      <4>. QED
        BY <4>1, <4>3, <4>4, <4>5
    <3>. QED
      BY <1>2, <3>1, <3>2, CooldownShown DEF ShownInv
  <2>2. /\ sessions'[redis[g].session].status \in {"COMPLETED", "FAILED"}
        /\ sessions'[redis[g].session].winner = sessions[redis[g].session].winner
        /\ PlacedIn(redis[g].session)' \subseteq PlacedIn(redis[g].session)
    BY <2>1, OverStays
  <2>3. PlacedIn(redis[g].session)' = {b \in BetIds : bets'[b].session = redis'[g].session
                                                      /\ bets'[b].status = "PLACED"}
    BY DEF PlacedIn
  <2>. QED
    BY <2>1, <2>2, <2>3 DEF PlacedIn
<1>3. CooldownOver'
  BY <1>2 DEF CooldownOver, PlacedIn
<1>. QED
  BY <1>1, <1>3 DEF ShownInv

LEMMA ShownInit == Init => ShownInv
BY DEF Init, ShownInv, CooldownOver, InView, TaskAt, OnShow

\* With one scheduler a game that shows its cooldown has settled its session, by the
\* winner it shows: also after a crash in the cooldown, whose keys stay behind.
THEOREM CooldownSettled == ASSUME OneScheduler PROVE Spec => []ShownAsSettled
<1>1. TypeOK /\ SchedulerInv /\ ShownInv /\ [Next]_vars => ShownInv'
  BY ShownNext
<1>2. ShownInv => ShownAsSettled
  BY DEF ShownInv, CooldownOver, ShownAsSettled
<1>. QED
  BY <1>1, <1>2, ShownInit, TypeCorrect, SchedulerInvariant, PTL DEF Spec

-----------------------------------------------------------------------------
(***************************************************************************)
(* III. Why the pool can always pay: with a single scheduler the winner of a*)
(* round is a side that was staked on least, so a round never pays more than*)
(* was staked on it, no top-up is ever needed, and a refund gives back the *)
(* whole stake.  From this follows that the wallets and the bets of        *)
(* GameRound change by the steps of module Wager only.                     *)
(***************************************************************************)

\* A bet row that is there names its player, side and stake; one that is not is blank.
FilledIn ==
  \A b \in BetIds :
    IF bets[b].status = "NONE" THEN bets[b] = NoBet
    ELSE bets[b].player \in Players /\ bets[b].side \in Sides /\ bets[b].amount \in Stakes

\* The winner that was drawn is still a side the session has the smaller total on.
WinnerFavoured ==
  \A i \in Schedulers, g \in Games :
    task[i][g].pc \in {"drawn", "revealed", "settling"} =>
      task[i][g].winner \in Favoured(task[i][g].session)

\* The inductive invariant, next to SchedulerInv and TotalsMatchStakes.
HouseInv == FilledIn /\ WinnerFavoured /\ PoolCoversStakes /\ RefundedInFull

Placed == {b \in BetIds : bets[b].status = "PLACED"}

\* The prizes of a coroutine that settles.
Prizes(t) == [b \in Winners(t) |-> Payout(bets[b].amount)]

\* A settlement pays every winner its whole prize, out of a pool filled up for it.
LEMMA SettlePaid ==
  ASSUME TypeOK, SchedulerInv, NEW i \in Schedulers, NEW g \in Games, SettleBets(i, g)
  PROVE  LET t    == task[i][g]
             pool == Larger(wallet[Pool], Total(Prizes(t), Winners(t)))
         IN /\ t.session \in SessionIds /\ sessions[t.session].status = "RUNNING"
            /\ t.batch = PlacedIn(t.session) /\ t.winner \in Sides
            /\ Winners(t) = BetsOn(t.session, t.winner)
            /\ wallet' = Paying(pool, Prizes(t))
            /\ bets' = Mark(t.batch, [b \in t.batch |->
                                        IF b \in Winners(t) THEN "WON" ELSE "LOST"])
            /\ sessions' = [sessions EXCEPT ![t.session] =
                              [@ EXCEPT !.status = "COMPLETED", !.winner = t.winner]]
<1> DEFINE t       == task[i][g]
           winners == Winners(t)
           prize   == Prizes(t)
           pool    == Larger(wallet[Pool], Total(prize, winners))
           payees  == {b \in winners : ~HasRow("BET_WIN_CREDIT", b)}
           due     == [b \in payees |-> prize[b]]
<1>1. t \in Task /\ t.pc = "settling"
  BY DEF TypeOK, SettleBets, Move
<1>2. /\ t.session \in SessionIds /\ sessions[t.session].status = "RUNNING"
      /\ t.batch = PlacedIn(t.session) /\ t.winner # None
  BY SettleCredits
<1>3. t.winner \in Sides
  BY <1>1, <1>2 DEF Task
<1>4. winners = BetsOn(t.session, t.winner)
  <2>1. ASSUME NEW b \in BetIds, bets[b].session = t.session PROVE bets[b].status = "PLACED"
    BY <1>2, <2>1, NoneApart DEF SchedulerInv, BetsOnSessions
  <2>. QED
    BY <1>2, <2>1 DEF Winners, BetsOn, PlacedIn
<1>5. /\ winners \in SUBSET BetIds /\ prize \in [winners -> Nat]
      /\ Total(prize, winners) \in Nat /\ pool \in Nat /\ pool >= Total(prize, winners)
  BY <1>1, SettlePays DEF Prizes
<1>6. payees = winners
  <2>1. ASSUME NEW b \in winners PROVE Credits(b) = {}
    BY <1>2 DEF Winners, PlacedIn, SchedulerInv, CreditedAsResolved
  <2>. QED
    BY <2>1 DEF Credits, HasRow
<1>7. due = prize
  BY <1>5, <1>6
<1>. HIDE DEF t, winners, prize, pool, payees, due
<1>8. PICK paid \in Payments(pool, due) : wallet' = Paying(pool, paid)
  BY DEF SettleBets, t, winners, prize, pool, payees, due, Prizes
<1>9. paid = prize
  BY <1>5, <1>7, <1>8, PaymentsInFull
<1>10. /\ bets' = Mark(t.batch, [b \in t.batch |-> IF b \in winners THEN "WON" ELSE "LOST"])
       /\ sessions' = [sessions EXCEPT ![t.session] =
                         [@ EXCEPT !.status = "COMPLETED", !.winner = t.winner]]
  BY DEF SettleBets, t, winners
<1>. QED
  BY <1>2, <1>3, <1>4, <1>8, <1>9, <1>10 DEF t, winners, prize, pool

\* What is staked on the bets of a set.
LEMMA StakedType ==
  ASSUME TypeOK, NEW S \in SUBSET BetIds
  PROVE  IsFiniteSet(S) /\ (\A b \in S : Staked[b] \in Nat) /\ Total(Staked, S) \in Nat
<1>1. IsFiniteSet(S)
  BY GameRoundAssumption, FS_Subset
<1>2. \A b \in S : Staked[b] \in Nat
  BY AmountType DEF Staked
<1>. QED
  BY <1>1, <1>2, TotalType

\* The prizes of a round are no more than what was staked on it: its winner is a side
\* with the smaller total, and a winner gets less than twice its stake.
LEMMA PrizesCovered ==
  ASSUME TypeOK, SchedulerInv, TotalsMatchStakes, WinnerFavoured,
         NEW i \in Schedulers, NEW g \in Games, SettleBets(i, g)
  PROVE  LET t == task[i][g]
         IN Total(Prizes(t), Winners(t)) <= Total(Staked, PlacedIn(t.session))
<1> DEFINE t == task[i][g]
           s == t.session
           w == t.winner
           Win == BetsOn(s, w)
<1>1. /\ s \in SessionIds /\ sessions[s].status = "RUNNING" /\ w \in Sides
      /\ Winners(t) = Win
  BY SettlePaid
<1>2. \A x \in Sides : sessions[s].total[w] <= sessions[s].total[x]
  BY DEF SettleBets, Move, WinnerFavoured, Favoured
<1>3. PICK x \in Sides : x # w
  BY DEF Sides
<1> DEFINE Lose == BetsOn(s, x)
<1>4. Win \in SUBSET BetIds /\ Lose \in SUBSET BetIds /\ Win \cap Lose = {}
  BY <1>3 DEF BetsOn
<1>5. Win \cup Lose \subseteq PlacedIn(s)
  BY <1>1, NoneApart DEF BetsOn, PlacedIn, SchedulerInv, BetsOnSessions
<1>6. Total(Staked, Win) <= Total(Staked, Lose)
  BY <1>1, <1>2, <1>3 DEF TotalsMatchStakes
<1>7. \A b \in Win : /\ Prizes(t)[b] \in Nat
                   /\ Prizes(t)[b] <= Staked[b] + Staked[b]
  <2>. SUFFICES ASSUME NEW b \in Win
                PROVE  /\ Prizes(t)[b] \in Nat
                       /\ Prizes(t)[b] <= Staked[b] + Staked[b]
    OBVIOUS
  <2>1. bets[b] \in Bet /\ b \in BetIds
    BY <1>4 DEF TypeOK
  <2>2. bets[b].amount \in Stakes \cup {0}
    BY <2>1 DEF Bet
  <2>3. /\ FeeOf[bets[b].amount] \in Nat /\ bets[b].amount \in Nat
        /\ FeeOf[bets[b].amount] <= bets[b].amount
    <3>1. Stakes \cup {0} \subseteq Nat
      BY GameRoundAssumption
    <3>2. \A a \in Stakes \cup {0} : FeeOf[a] \in Nat /\ FeeOf[a] <= a
      BY GameRoundAssumption
    <3>. QED
      BY <2>2, <3>1, <3>2
  <2>4. Prizes(t)[b] = Payout(bets[b].amount) /\ Staked[b] = bets[b].amount
    BY <1>1, <2>1 DEF Prizes, Staked
  <2>. QED
    BY <2>3, <2>4 DEF Payout
<1>8. PlacedIn(s) \in SUBSET BetIds
  BY DEF PlacedIn
<1>. HIDE DEF t, s, w, Win, Lose
<1>9. /\ IsFiniteSet(Win) /\ IsFiniteSet(Lose)
      /\ \A b \in Win \cup Lose : Staked[b] \in Nat
      /\ Total(Staked, Win) \in Nat /\ Total(Staked, Lose) \in Nat
  BY <1>4, StakedType
<1>10. Total(Prizes(t), Win) <= Total(Staked, Win) + Total(Staked, Win)
  BY <1>7, <1>9, TotalAdd
<1>11. Total(Staked, Win \cup Lose) = Total(Staked, Win) + Total(Staked, Lose)
  BY <1>4, <1>9, TotalSplit
<1>12. Total(Staked, Win \cup Lose) <= Total(Staked, PlacedIn(s))
  <2>1. /\ IsFiniteSet(PlacedIn(s))
        /\ \A b \in PlacedIn(s) : Staked[b] \in Nat
    BY <1>8, StakedType
  <2>2. IsFiniteSet(Win \cup Lose)
    BY <2>1, <1>5, FS_Subset
  <2>. QED
    BY <1>5, <2>1, <2>2, TotalMonotone
<1>13. Total(Prizes(t), Win) \in Nat /\ Total(Staked, PlacedIn(s)) \in Nat
  BY <1>7, <1>8, <1>9, TotalType, StakedType
<1>. QED
  BY <1>1, <1>6, <1>9, <1>10, <1>11, <1>12, <1>13 DEF t, s

\* The open stakes, those of one session and the others.
LEMMA OpenStakes ==
  ASSUME TypeOK, NEW S \in SUBSET Placed
  PROVE  /\ Total(Staked, S) \in Nat /\ Total(Staked, Placed \ S) \in Nat
         /\ Total(Staked, Placed) = Total(Staked, S) + Total(Staked, Placed \ S)
         /\ Total(Staked, Placed) \in Nat /\ Total(Staked, S) <= Total(Staked, Placed)
<1>1. S \in SUBSET BetIds /\ Placed \ S \in SUBSET BetIds
  BY DEF Placed
<1>2. /\ IsFiniteSet(S) /\ IsFiniteSet(Placed \ S)
      /\ Total(Staked, S) \in Nat /\ Total(Staked, Placed \ S) \in Nat
      /\ \A b \in S \cup (Placed \ S) : Staked[b] \in Nat
  BY <1>1, StakedType
<1>3. S \cap (Placed \ S) = {} /\ Placed = S \cup (Placed \ S)
  OBVIOUS
<1>4. Total(Staked, Placed) = Total(Staked, S) + Total(Staked, Placed \ S)
  BY <1>2, <1>3, TotalSplit
<1>. QED
  BY <1>2, <1>4

\* A pool that covers the open stakes needs no filling up for a settlement.
LEMMA NoTopUp ==
  ASSUME TypeOK, SchedulerInv, TotalsMatchStakes, WinnerFavoured, PoolCoversStakes,
         NEW i \in Schedulers, NEW g \in Games, SettleBets(i, g)
  PROVE  LET t == task[i][g]
         IN /\ Total(Prizes(t), Winners(t)) \in Nat
            /\ Total(Prizes(t), Winners(t)) <= Total(Staked, PlacedIn(t.session))
            /\ Larger(wallet[Pool], Total(Prizes(t), Winners(t))) = wallet[Pool]
<1> DEFINE t     == task[i][g]
           prize == Total(Prizes(t), Winners(t))
<1>1. prize <= Total(Staked, PlacedIn(t.session))
  BY PrizesCovered
<1>2. prize \in Nat
  BY SettlePays DEF Prizes, TypeOK
<1>3. PlacedIn(t.session) \in SUBSET Placed
  BY DEF PlacedIn, Placed
<1>4. wallet[Pool] >= Total(Staked, Placed) /\ wallet[Pool] \in Nat
  BY DEF PoolCoversStakes, Placed, TypeOK, Wallets
<1>. HIDE DEF t, prize
<1>5. prize <= wallet[Pool]
  <2>1. /\ Total(Staked, PlacedIn(t.session)) \in Nat
        /\ Total(Staked, PlacedIn(t.session)) <= Total(Staked, Placed)
        /\ Total(Staked, Placed) \in Nat
    BY <1>3, OpenStakes
  <2>. QED
    BY <1>1, <1>2, <1>4, <2>1
<1>. QED
  BY <1>1, <1>2, <1>4, <1>5 DEF Larger, t, prize

\* Recovery gives every stake on its list back as a whole.
LEMMA RefundPaid ==
  ASSUME TypeOK, SchedulerInv, PoolCoversStakes, NEW i \in Schedulers, RefundSession(i)
  PROVE  LET s     == recovery[i].session
             batch == recovery[i].batch
             stake == [b \in batch |-> bets[b].amount]
         IN /\ s \in SessionIds /\ sessions[s].status \notin {"NONE", "COMPLETED", "FAILED"}
            /\ batch \subseteq PlacedIn(s)
            /\ Total(stake, batch) = Total(Staked, batch)
            /\ Total(stake, batch) <= wallet[Pool]
            /\ wallet' = Paying(wallet[Pool], stake)
            /\ ledger' = ledger \cup {PaymentRow("BET_REFUND", b, bets[b].amount) :
                                        b \in {c \in batch : bets[c].amount > 0}}
            /\ bets' = Mark(batch, [b \in batch |-> "REFUNDED"])
            /\ sessions' = [sessions EXCEPT ![s].status = "FAILED"]
<1> DEFINE s     == recovery[i].session
           batch == recovery[i].batch
           stake == [b \in batch |-> bets[b].amount]
           owed  == {b \in batch : ~HasRow("BET_REFUND", b)}
           due   == [b \in owed |-> bets[b].amount]
<1>1. recovery[i] \in Recovery
  BY DEF TypeOK
<1>2. /\ batch \subseteq PlacedIn(s) /\ s \in Unfinished /\ s \in SessionIds
  BY <1>1 DEF SchedulerInv, RecoveryAlone, RefundSession, Recovery
<1>3. batch \in SUBSET Placed /\ batch \in SUBSET BetIds
  BY <1>2 DEF PlacedIn, Placed
<1>4. owed = batch
  <2>1. \A b \in batch : Credits(b) = {}
    BY <1>2 DEF PlacedIn, SchedulerInv, CreditedAsResolved
  <2>. QED
    BY <2>1 DEF Credits, HasRow
<1>5. due = stake /\ stake \in [batch -> Nat]
  BY <1>3, <1>4, AmountType
<1>6. Total(stake, batch) = Total(Staked, batch)
  <2>1. \A b \in batch : stake[b] = Staked[b]
    BY <1>3 DEF Staked
  <2>. QED
    BY <2>1, TotalEqual
<1>7. wallet[Pool] >= Total(Staked, Placed) /\ wallet[Pool] \in Nat
  BY DEF PoolCoversStakes, Placed, TypeOK, Wallets
<1>8. \A b \in batch : stake[b] = bets[b].amount
  OBVIOUS
<1>. HIDE DEF s, batch, stake, owed, due
<1>9. Total(stake, batch) <= wallet[Pool]
  <2>1. Total(Staked, batch) \in Nat /\ Total(Staked, batch) <= Total(Staked, Placed)
    BY <1>3, OpenStakes
  <2>2. Total(Staked, Placed) \in Nat
    BY <1>3, OpenStakes
  <2>. QED
    BY <1>6, <1>7, <2>1, <2>2
<1>10. PICK paid \in Payments(wallet[Pool], due) :
         /\ wallet' = Paying(wallet[Pool], paid)
         /\ ledger' = ledger \cup
              {PaymentRow("BET_REFUND", b, paid[b]) : b \in {c \in owed : paid[c] > 0}}
  BY DEF RefundSession, batch, owed, due
<1>11. paid = stake
  BY <1>5, <1>9, <1>10, PaymentsInFull
<1>12. /\ bets' = Mark(batch, [b \in batch |-> "REFUNDED"])
       /\ sessions' = [sessions EXCEPT ![s].status = "FAILED"]
  BY DEF RefundSession, batch, s
<1>13. ledger' = ledger \cup {PaymentRow("BET_REFUND", b, bets[b].amount) :
                                b \in {c \in batch : bets[c].amount > 0}}
  <2>1. {c \in owed : paid[c] > 0} = {c \in batch : bets[c].amount > 0}
    BY <1>4, <1>8, <1>11
  <2>. QED
    BY <1>8, <1>10, <1>11, <2>1
<1>. QED
  BY <1>2, <1>6, <1>9, <1>10, <1>11, <1>12, <1>13 DEF s, batch, stake, Unfinished

\* A step that marks the bets of a list, all of them open, with a final status leaves
\* the other bets open and changes no stake.
LEMMA MarkPlaced ==
  ASSUME TypeOK, FilledIn, NEW batch \in SUBSET Placed, NEW status,
         \A b \in batch : status[b] \in {"WON", "LOST", "REFUNDED"}, bets' = Mark(batch, status)
  PROVE  Placed' = Placed \ batch /\ Staked' = Staked /\ FilledIn'
<1>1. batch \in SUBSET BetIds
  BY DEF Placed
<1>2. \A b \in BetIds :
        /\ bets'[b].side = bets[b].side
        /\ bets'[b].player = bets[b].player /\ bets'[b].amount = bets[b].amount
        /\ bets'[b].status = IF b \in batch THEN status[b] ELSE bets[b].status
        /\ b \notin batch => bets'[b] = bets[b]
  BY <1>1, MarkChanges DEF Mark
<1>3. Placed' = Placed \ batch
  BY <1>2 DEF Placed
<1>4. Staked' = Staked
  BY <1>2 DEF Staked
<1>5. FilledIn'
  BY <1>2 DEF FilledIn, Placed
<1>. QED
  BY <1>3, <1>4, <1>5

\* A bet brings its stake into the pool.
LEMMA HouseBet ==
  ASSUME TypeOK, FilledIn, PoolCoversStakes, RefundedInFull, NEW r \in Requests, CommitBet(r)
  PROVE  FilledIn' /\ PoolCoversStakes' /\ RefundedInFull'
<1>1. PICK s \in SessionIds, b \in BetIds, p \in Players, x \in Sides, a \in Stakes :
        /\ bets[b].status = "NONE"
        /\ wallet' = [wallet EXCEPT ![p] = @ - a, ![Pool] = @ + a]
        /\ ledger' = ledger \cup {Transfer("BET_DEBIT", b, p, Pool, a)}
        /\ bets' = [bets EXCEPT ![b] = [status |-> "PLACED", session |-> s, player |-> p,
                                        side |-> x, amount |-> a]]
  BY BetPlaced
<1>2. \A c \in BetIds : bets'[c] = IF c = b THEN [status |-> "PLACED", session |-> s,
                                                  player |-> p, side |-> x, amount |-> a]
                                   ELSE bets[c]
  BY <1>1 DEF TypeOK
<1>3. FilledIn'
  BY <1>2 DEF FilledIn, NoBet
<1>4. RefundedInFull'
  BY <1>1, <1>2 DEF RefundedInFull
<1>5. PoolCoversStakes'
  <2>1. a \in Nat /\ Pool # p
    BY GameRoundAssumption
  <2>2. wallet'[Pool] = wallet[Pool] + a /\ wallet[Pool] \in Nat
    BY <1>1, <2>1 DEF TypeOK, Wallets
  <2>3. Placed' = Placed \cup {b} /\ Placed \in SUBSET BetIds /\ b \notin Placed
    BY <1>1, <1>2 DEF Placed
  <2>4. Staked'[b] = a /\ \A c \in Placed : Staked'[c] = Staked[c]
    BY <1>2, <2>3 DEF Staked
  <2>5. /\ IsFiniteSet(Placed) /\ Total(Staked, Placed) \in Nat
        /\ \A c \in Placed : Staked[c] \in Nat
    BY <2>3, StakedType
  <2>6. Total(Staked', Placed) = Total(Staked, Placed)
    BY <2>4, TotalEqual
  <2>7. Total(Staked', {b}) = a
    BY <2>1, <2>4, TotalOne
  <2>8. IsFiniteSet({b}) /\ Placed \cap {b} = {} /\ \A c \in Placed \cup {b} : Staked'[c] \in Nat
    BY <2>1, <2>3, <2>4, <2>5, FS_Singleton
  <2>9. Total(Staked', Placed \cup {b}) = Total(Staked', Placed) + Total(Staked', {b})
    BY <2>5, <2>8, TotalSplit
  <2>10. wallet[Pool] >= Total(Staked, Placed)
    BY DEF PoolCoversStakes, Placed
  <2>11. wallet'[Pool] >= Total(Staked', Placed')
    BY <2>1, <2>2, <2>3, <2>5, <2>6, <2>7, <2>9, <2>10
  <2>. QED
    BY <2>11 DEF PoolCoversStakes, Placed
<1>. QED
  BY <1>3, <1>4, <1>5

\* A settlement leaves the pool what is staked on the other rounds.
LEMMA HouseSettle ==
  ASSUME TypeOK, SchedulerInv, TotalsMatchStakes, HouseInv,
         NEW i \in Schedulers, NEW g \in Games, SettleBets(i, g)
  PROVE  FilledIn' /\ PoolCoversStakes' /\ RefundedInFull'
<1>. USE DEF HouseInv
<1> DEFINE t      == task[i][g]
           batch  == PlacedIn(t.session)
           status == [b \in t.batch |-> IF b \in Winners(t) THEN "WON" ELSE "LOST"]
           prize  == Total(Prizes(t), Winners(t))
<1>1. /\ wallet' = Paying(Larger(wallet[Pool], prize), Prizes(t))
      /\ bets' = Mark(batch, status) /\ t.batch = batch
  BY SettlePaid
<1>2. /\ prize \in Nat /\ prize <= Total(Staked, batch)
      /\ Larger(wallet[Pool], prize) = wallet[Pool]
  BY NoTopUp
<1>3. batch \in SUBSET Placed /\ batch \in SUBSET BetIds
  BY DEF PlacedIn, Placed
<1>4. \A b \in batch : status[b] \in {"WON", "LOST"}
  BY <1>1
<1>. HIDE DEF batch, status
<1>5. Placed' = Placed \ batch /\ Staked' = Staked /\ FilledIn'
  BY <1>1, <1>3, <1>4, MarkPlaced
<1>6. PoolCoversStakes'
  <2>1. wallet'[Pool] = wallet[Pool] - prize
    BY <1>1, <1>2 DEF Paying, Wallets, Prizes
  <2>2. /\ Total(Staked, batch) \in Nat /\ Total(Staked, Placed \ batch) \in Nat
        /\ Total(Staked, Placed) = Total(Staked, batch) + Total(Staked, Placed \ batch)
    BY <1>3, OpenStakes
  <2>3. wallet[Pool] >= Total(Staked, Placed) /\ wallet[Pool] \in Nat
    BY DEF PoolCoversStakes, Placed, TypeOK, Wallets
  <2>. HIDE DEF prize
  <2>4. wallet'[Pool] >= Total(Staked', Placed')
    BY <1>2, <1>5, <2>1, <2>2, <2>3
  <2>. QED
    BY <2>4 DEF PoolCoversStakes, Placed
<1>7. RefundedInFull'
  <2>1. \A b \in BetIds : /\ bets'[b].player = bets[b].player /\ bets'[b].amount = bets[b].amount
                          /\ bets'[b].status = IF b \in batch THEN status[b] ELSE bets[b].status
    BY <1>1, <1>3, MarkChanges
  <2>2. ledger \subseteq ledger'
    BY DEF SettleBets
  <2>. QED
    BY <1>4, <2>1, <2>2 DEF RefundedInFull
<1>. QED
  BY <1>5, <1>6, <1>7

\* A refund leaves the pool what is staked on the other rounds, and a row for each bet.
LEMMA HouseRefund ==
  ASSUME TypeOK, SchedulerInv, HouseInv, NEW i \in Schedulers, RefundSession(i)
  PROVE  FilledIn' /\ PoolCoversStakes' /\ RefundedInFull'
<1>. USE DEF HouseInv
<1> DEFINE batch  == recovery[i].batch
           stake  == [b \in batch |-> bets[b].amount]
           status == [b \in batch |-> "REFUNDED"]
<1>1. /\ batch \subseteq PlacedIn(recovery[i].session)
      /\ Total(stake, batch) = Total(Staked, batch)
      /\ wallet' = Paying(wallet[Pool], stake)
      /\ ledger' = ledger \cup {PaymentRow("BET_REFUND", b, bets[b].amount) :
                                  b \in {c \in batch : bets[c].amount > 0}}
      /\ bets' = Mark(batch, status)
  BY RefundPaid
<1>2. batch \in SUBSET Placed /\ batch \in SUBSET BetIds
  BY <1>1 DEF PlacedIn, Placed
<1>3. \A b \in batch : status[b] = "REFUNDED"
  OBVIOUS
<1>4. DOMAIN stake = batch
  OBVIOUS
<1>. HIDE DEF batch, status, stake
<1>5. Placed' = Placed \ batch /\ Staked' = Staked /\ FilledIn'
  BY <1>1, <1>2, <1>3, MarkPlaced
<1>6. PoolCoversStakes'
  <2>1. wallet'[Pool] = wallet[Pool] - Total(stake, batch)
    BY <1>1, <1>4 DEF Paying, Wallets
  <2>2. /\ Total(Staked, batch) \in Nat /\ Total(Staked, Placed \ batch) \in Nat
        /\ Total(Staked, Placed) = Total(Staked, batch) + Total(Staked, Placed \ batch)
    BY <1>2, OpenStakes
  <2>3. wallet[Pool] >= Total(Staked, Placed) /\ wallet[Pool] \in Nat
    BY DEF PoolCoversStakes, Placed, TypeOK, Wallets
  <2>4. wallet'[Pool] >= Total(Staked', Placed')
    BY <1>1, <1>5, <2>1, <2>2, <2>3
  <2>. QED
    BY <2>4 DEF PoolCoversStakes, Placed
<1>7. RefundedInFull'
  <2>1. \A b \in BetIds : /\ bets'[b].player = bets[b].player /\ bets'[b].amount = bets[b].amount
                          /\ b \notin batch => bets'[b].status = bets[b].status
    BY <1>1, <1>2, MarkChanges
  <2>2. \A b \in batch : bets[b].amount > 0
    <3>1. \A b \in batch : bets[b].amount \in Stakes
      BY <1>2 DEF FilledIn, Placed
    <3>2. \A a \in Stakes : a > 0
      BY GameRoundAssumption
    <3>. QED
      BY <3>1, <3>2
  <2>. QED
    BY <1>1, <2>1, <2>2 DEF RefundedInFull, PaymentRow
<1>. QED
  BY <1>5, <1>6, <1>7

\* A coroutine comes to a point between the draw and the settlement by drawing, or from
\* another such point, and keeps its session and its winner on the way.
LEMMA WinnerKept ==
  ASSUME TypeOK, OneScheduler, [Next]_vars, NEW i \in Schedulers, NEW g \in Games,
         task'[i][g].pc \in {"drawn", "revealed", "settling"}
  PROVE  \/ DrawResult(i, g)
         \/ /\ task[i][g].pc \in {"drawn", "revealed", "settling"}
            /\ task'[i][g].session = task[i][g].session
            /\ task'[i][g].winner = task[i][g].winner
<1> DEFINE Drawn == {"drawn", "revealed", "settling"}
           Kept  == /\ task[i][g].pc \in Drawn
                    /\ task'[i][g].session = task[i][g].session
                    /\ task'[i][g].winner = task[i][g].winner
<1>. SUFFICES DrawResult(i, g) \/ Kept
  OBVIOUS
<1>1. CASE UNCHANGED task
  BY <1>1
<1>2. ASSUME NEW j \in Schedulers, NEW h \in Games, Cycle(j, h) \/ Raise(j, h)
      PROVE  DrawResult(i, g) \/ Kept
  <2>1. j = i
    BY DEF OneScheduler
  <2>2. ASSUME NEW from, NEW to, Move(j, h, from, to), to \notin {"drawn", "settling"},
               to = "revealed" => from = "drawn"
        PROVE  Kept
    <3>1. /\ task[j][h].pc = from /\ task'[j][h].pc = to
          /\ task'[j][h].session = task[j][h].session
          /\ task'[j][h].winner = task[j][h].winner
          /\ \A k \in Games : k # h => task'[i][k] = task[i][k]
      BY <2>2, MoveTo
    <3>. QED
      BY <2>1, <2>2, <3>1
  <2>3. ASSUME NEW t, SetTask(j, h, t)
        PROVE  task'[i][g] = IF g = h THEN t ELSE task[i][g]
    BY <2>3, TaskAfter
  <2>4. task[i][g] \in Task
    BY DEF TypeOK
  <2>5. CASE DrawResult(j, h)
    <3>1. PICK w \in Sides : SetTask(j, h, [task[j][h] EXCEPT !.pc = "drawn", !.winner = w])
      BY <2>5 DEF DrawResult, Favoured
    <3>. QED
      BY <2>1, <2>3, <2>5, <3>1
  <2>6. CASE ReadBets(j, h)
    <3>1. task'[i][g] = IF g = h THEN [task[j][h] EXCEPT !.pc = "settling",
                                         !.batch = PlacedIn(task[j][h].session)]
                        ELSE task[i][g]
      BY <2>3, <2>6 DEF ReadBets
    <3>. QED
      BY <2>1, <2>4, <2>6, <3>1 DEF ReadBets, Task
  <2>7. CASE InsertSession(j, h)
    <3>1. PICK s : SetTask(j, h, [task[j][h] EXCEPT !.pc = "inserted", !.session = s])
      BY <2>7 DEF InsertSession
    <3>2. task'[i][g] = IF g = h THEN [task[j][h] EXCEPT !.pc = "inserted", !.session = s]
                        ELSE task[i][g]
      BY <2>3, <3>1
    <3>. QED
      BY <2>1, <2>4, <3>2 DEF Task
  <2>8. CASE ShowIdle(j, h)
    <3>1. task'[i][g] = IF g = h THEN TaskAt("begin") ELSE task[i][g]
      BY <2>3, <2>8 DEF ShowIdle
    <3>. QED
      BY <3>1 DEF TaskAt
  <2>9. CASE Raise(j, h)
    <3>1. task'[i][g] = IF g = h THEN [task[j][h] EXCEPT !.pc = "error"] ELSE task[i][g]
      BY <2>3, <2>9 DEF Raise
    <3>. QED
      BY <2>1, <2>4, <3>1 DEF Task
  <2>. QED
    BY <1>2, <2>2, <2>5, <2>6, <2>7, <2>8, <2>9
    DEF Cycle, Acquire, ShowBetting, CloseBetting, ShowInitiating, ShowRunning,
        RevealWinner, SettleBets, ShowSettling, FailSession, LeaveSession
<1>3. ASSUME NEW j \in Schedulers, Exit(j) \/ EndRecovery(j) PROVE Kept
  <2>1. PICK pc \in {"down", "wait"} : task' = [task EXCEPT ![j] = [k \in Games |-> TaskAt(pc)]]
    BY <1>3 DEF Exit, EndRecovery
  <2>2. task'[i][g].pc = pc
    BY <2>1 DEF TypeOK, OneScheduler, TaskAt
  <2>. QED
    BY <2>2
<1>4. ASSUME NEW j \in Schedulers, Recover(j), ~EndRecovery(j) PROVE UNCHANGED task
  BY <1>4 DEF Recover, Start, ReadStuck, RefundSession
<1>5. ASSUME NEW r \in Requests, Bettor(r) PROVE UNCHANGED task
  BY <1>5 DEF Bettor, ReadPhase, CheckActive, CommitBet, RejectBet
<1>6. ASSUME NEW h \in Games, Expire(h) PROVE UNCHANGED task
  BY <1>6 DEF Expire
<1>7. ASSUME OutOfSessions \/ UNCHANGED vars PROVE UNCHANGED task
  BY <1>7 DEF OutOfSessions, vars
<1>. QED
  BY <1>1, <1>2, <1>3, <1>4, <1>5, <1>6, <1>7 DEF Next

\* The totals of a session that is no longer open stay.
LEMMA ClosedTotalsStep ==
  ASSUME TypeOK, [Next]_vars, NEW s \in SessionIds, sessions[s].status \notin {"NONE", "BETTING"}
  PROVE  sessions'[s].total = sessions[s].total
<1>1. CASE \E r \in Requests : CommitBet(r)
  BY <1>1, BetAdds
<1>2. CASE \A r \in Requests : ~CommitBet(r)
  BY <1>2, TotalsKept
<1>. QED
  BY <1>1, <1>2

LEMMA FavouredNext ==
  ASSUME TypeOK, SchedulerInv, OneScheduler, WinnerFavoured, [Next]_vars
  PROVE  WinnerFavoured'
<1>. SUFFICES ASSUME NEW i \in Schedulers, NEW g \in Games,
                     task'[i][g].pc \in {"drawn", "revealed", "settling"}
              PROVE  task'[i][g].winner \in Favoured(task[i][g].session)'
  BY DEF WinnerFavoured
<1> DEFINE s == task[i][g].session
<1>1. task[i][g] \in Task
  BY DEF TypeOK
<1>2. InStep(task[i][g], g)
  BY DEF SchedulerInv, CyclesInStep
<1>3. CASE DrawResult(i, g)
  <2>1. PICK w \in Favoured(s) :
          SetTask(i, g, [task[i][g] EXCEPT !.pc = "drawn", !.winner = w])
    BY <1>3 DEF DrawResult
  <2>2. task'[i][g] = [task[i][g] EXCEPT !.pc = "drawn", !.winner = w]
    BY <2>1, TaskAfter
  <2>3. task'[i][g].winner = w /\ task'[i][g].session = s
    BY <1>1, <2>2 DEF Task
  <2>4. s \in SessionIds
    BY <1>1, <1>2, <1>3 DEF DrawResult, InStep, Stage, InTry, Task
  <2>5. \A u \in SessionIds : sessions'[u].total = sessions[u].total
    BY <1>3, StatusKeepsTotals DEF DrawResult
  <2>. QED
    BY <2>1, <2>3, <2>4, <2>5 DEF Favoured
<1>4. CASE /\ task[i][g].pc \in {"drawn", "revealed", "settling"}
           /\ task'[i][g].session = s /\ task'[i][g].winner = task[i][g].winner
  <2>1. s \in SessionIds /\ sessions[s].status = "RUNNING"
    BY <1>1, <1>2, <1>4 DEF InStep, Stage, InTry, Task
  <2>2. sessions'[s].total = sessions[s].total
    BY <2>1, ClosedTotalsStep
  <2>. QED
    BY <1>4, <2>1, <2>2 DEF WinnerFavoured, Favoured
<1>. QED
  BY <1>3, <1>4, WinnerKept

LEMMA HouseInit == Init => HouseInv
<1>. SUFFICES ASSUME Init PROVE HouseInv
  OBVIOUS
<1>1. FilledIn /\ RefundedInFull
  BY DEF Init, FilledIn, RefundedInFull, NoBet
<1>2. WinnerFavoured
  BY DEF Init, WinnerFavoured, TaskAt
<1>3. PoolCoversStakes
  <2>1. {b \in BetIds : bets[b].status = "PLACED"} = {}
    BY DEF Init, NoBet
  <2>2. wallet[Pool] = 0
    BY DEF Init, Wallets
  <2>3. Total(Staked, {}) = 0
    BY TotalEmpty
  <2>. QED
    BY <2>1, <2>2, <2>3 DEF PoolCoversStakes
<1>. QED
  BY <1>1, <1>2, <1>3 DEF HouseInv

LEMMA HouseNext ==
  ASSUME OneScheduler
  PROVE  TypeOK /\ SchedulerInv /\ TotalsMatchStakes /\ HouseInv /\ [Next]_vars => HouseInv'
<1>. SUFFICES ASSUME TypeOK, SchedulerInv, TotalsMatchStakes, HouseInv, [Next]_vars
              PROVE  HouseInv'
  OBVIOUS
<1>1. WinnerFavoured'
  BY FavouredNext DEF HouseInv
<1>2. FilledIn' /\ PoolCoversStakes' /\ RefundedInFull'
  <2>1. CASE UNCHANGED <<wallet, ledger, bets>>
    BY <2>1 DEF HouseInv, FilledIn, PoolCoversStakes, RefundedInFull, Staked
  <2>2. ASSUME NEW r \in Requests, CommitBet(r)
        PROVE  FilledIn' /\ PoolCoversStakes' /\ RefundedInFull'
    BY <2>2, HouseBet DEF HouseInv
  <2>3. ASSUME NEW i \in Schedulers, NEW g \in Games, SettleBets(i, g)
        PROVE  FilledIn' /\ PoolCoversStakes' /\ RefundedInFull'
    BY <2>3, HouseSettle
  <2>4. ASSUME NEW i \in Schedulers, RefundSession(i)
        PROVE  FilledIn' /\ PoolCoversStakes' /\ RefundedInFull'
    BY <2>4, HouseRefund
  <2>. QED
    BY <2>1, <2>2, <2>3, <2>4, MoneyWriters
<1>. QED
  BY <1>1, <1>2 DEF HouseInv

LEMMA HouseInvariant == ASSUME OneScheduler PROVE Spec => []HouseInv
<1>1. TypeOK /\ SchedulerInv /\ TotalsMatchStakes /\ HouseInv /\ [Next]_vars => HouseInv'
  BY HouseNext
<1>. QED
  BY <1>1, HouseInit, TypeCorrect, SchedulerInvariant, TotalsCorrect, PTL DEF Spec

\* With one scheduler the pool can return every open stake at any time, whatever the
\* fees, stakes and balances are, and however often processes end or calls raise.
THEOREM PoolCovers == ASSUME OneScheduler PROVE Spec => []PoolCoversStakes
<1>1. HouseInv => PoolCoversStakes
  BY DEF HouseInv
<1>. QED
  BY <1>1, HouseInvariant, PTL

\* With one scheduler a refunded bet has its whole stake back: the cap of a refund by
\* what the pool holds never bites.
THEOREM RefundsInFull == ASSUME OneScheduler PROVE Spec => []RefundedInFull
<1>1. HouseInv => RefundedInFull
  BY DEF HouseInv
<1>. QED
  BY <1>1, HouseInvariant, PTL

\* A bet is a wager of the same round, bettor, side and stake.
LEMMA WagerIs ==
  \A b \in BetIds :
    /\ Wagers[b].state = WagerState[bets[b].status] /\ Wagers[b].round = bets[b].session
    /\ Wagers[b].bettor = bets[b].player /\ Wagers[b].side = bets[b].side
    /\ Wagers[b].stake = bets[b].amount
BY DEF Wagers

LEMMA WagerStates ==
  /\ WagerState["NONE"] = "none" /\ WagerState["PLACED"] = "open"
  /\ WagerState["WON"] = "won" /\ WagerState["LOST"] = "lost"
  /\ WagerState["REFUNDED"] = "refunded"
BY DEF WagerState, BetStatus

LEMMA PoolApart == Pool \notin Players /\ Pool \in Wallets /\ Players \subseteq Wallets
BY GameRoundAssumption DEF Wallets

\* Both modules add up by the same operator.
LEMMA SameTotal == \A f, S : W!Total(f, S) = Total(f, S)
<1>. SUFFICES ASSUME NEW f, NEW S PROVE W!Total(f, S) = Total(f, S)
  OBVIOUS
<1>1. W!Coins(f, S) = Coins(f, S)
  BY Zenon DEF W!Coins, Coins
<1>. QED
  BY <1>1, Zenon DEF W!Total, Total, W!Cardinality, Cardinality

LEMMA WagerInit == Init => W!Init
<1>. SUFFICES ASSUME Init PROVE W!Init
  OBVIOUS
<1>1. Purses = InitialBalance
  BY PoolApart, GameRoundAssumption DEF Init, Purses
<1>2. wallet[Pool] = 0
  BY PoolApart DEF Init
<1>3. Wagers = [b \in BetIds |-> W!NoWager]
  BY WagerStates DEF Init, NoBet, Wagers, W!NoWager
<1>4. Over = {}
  BY DEF Init, NoSession, Over
<1>. QED
  BY <1>1, <1>2, <1>3, <1>4 DEF W!Init

\* A bet is a wager that is placed.
LEMMA WagerBet ==
  ASSUME TypeOK, FilledIn, NEW r \in Requests, CommitBet(r)
  PROVE  W!Next
<1>1. PICK s \in SessionIds, b \in BetIds, p \in Players, x \in Sides, a \in Stakes :
        /\ sessions[s].status = "BETTING" /\ bets[b].status = "NONE" /\ wallet[p] >= a
        /\ wallet' = [wallet EXCEPT ![p] = @ - a, ![Pool] = @ + a]
        /\ bets' = [bets EXCEPT ![b] = [status |-> "PLACED", session |-> s, player |-> p,
                                        side |-> x, amount |-> a]]
        /\ sessions' = [sessions EXCEPT ![s].total[x] = @ + a]
  BY BetPlaced
<1>2. W!Place(b, p, s, x, a)
  <2>1. Wagers[b] = W!NoWager
    BY <1>1, WagerStates DEF FilledIn, NoBet, Wagers, W!NoWager
  <2>2. s \notin Over
    BY <1>1 DEF Over
  <2>3. Wagers' = [Wagers EXCEPT ![b] =
          [state |-> "open", round |-> s, bettor |-> p, side |-> x, stake |-> a]]
    BY <1>1, WagerStates DEF TypeOK, Wagers
  <2>4. Purses' = [Purses EXCEPT ![p] = @ - a] /\ Purses[p] = wallet[p]
    BY <1>1, PoolApart DEF TypeOK, Purses
  <2>5. wallet'[Pool] = wallet[Pool] + a
    BY <1>1, PoolApart DEF TypeOK
  <2>6. Over' = Over
    <3>1. \A u \in SessionIds : sessions'[u].status = sessions[u].status
      BY <1>1 DEF TypeOK, Session
    <3>. QED
      BY <3>1 DEF Over
  <2>. QED
    BY <1>1, <2>1, <2>2, <2>3, <2>4, <2>5, <2>6 DEF W!Place
<1>. QED
  BY <1>2 DEF W!Next

\* The wagers on a round are the bets of the session; the open ones are placed.
LEMMA WagersOn ==
  ASSUME TypeOK, NEW s \in SessionIds
  PROVE  /\ W!On(s) = {b \in BetIds : bets[b].session = s}
         /\ W!Open(s) = PlacedIn(s)
         /\ \A x \in Sides : W!StakedOn(s, x) = Total(Staked, BetsOn(s, x))
<1>1. \A b \in BetIds : bets[b].status \in BetStatus
  BY DEF TypeOK, Bet
<1>2. \A z \in BetStatus : WagerState[z] = "open" <=> z = "PLACED"
  BY WagerStates DEF BetStatus
<1>3. W!On(s) = {b \in BetIds : bets[b].session = s}
  BY WagerIs DEF W!On
<1>4. W!Open(s) = PlacedIn(s)
  BY <1>1, <1>2, <1>3, WagerIs DEF W!Open, PlacedIn
<1>5. W!StakeOf = Staked
  BY WagerIs DEF W!StakeOf, Staked
<1>6. \A x \in Sides : {b \in W!On(s) : Wagers[b].side = x} = BetsOn(s, x)
  BY <1>3, WagerIs DEF BetsOn
<1>. QED
  BY <1>3, <1>4, <1>5, <1>6, SameTotal DEF W!StakedOn

\* Payments out of the pool are payments of the house.
LEMMA WagerPay ==
  ASSUME TypeOK, NEW S \in SUBSET BetIds, NEW due, DOMAIN due = S,
         Total(due, S) <= wallet[Pool], wallet' = Paying(wallet[Pool], due)
  PROVE  W!Pay(due)
<1>1. wallet'[Pool] = wallet[Pool] - Total(due, S)
  BY PoolApart DEF Paying
<1>2. ASSUME NEW p \in Players
      PROVE  wallet'[p] = wallet[p] + Total(due, {b \in S : Wagers[b].bettor = p})
  <2>1. wallet'[p] = wallet[p] + Total(due, {b \in S : bets[b].player = p})
    BY PoolApart DEF Paying
  <2>2. {b \in S : bets[b].player = p} = {b \in S : Wagers[b].bettor = p}
    BY WagerIs
  <2>. QED
    BY <2>1, <2>2
<1>3. Purses' = [p \in Players |-> Purses[p] + Total(due, {b \in S : Wagers[b].bettor = p})]
  BY <1>2 DEF Purses
<1>. QED
  BY <1>1, <1>3, SameTotal DEF W!Pay

\* Marking bets is resolving wagers.
LEMMA WagerResolve ==
  ASSUME TypeOK, NEW batch \in SUBSET BetIds, NEW status, NEW state, DOMAIN state = batch,
         bets' = Mark(batch, status), \A b \in batch : state[b] = WagerState[status[b]]
  PROVE  W!Resolve(state)
<1>1. ASSUME NEW b \in BetIds
      PROVE  Wagers'[b] = IF b \in batch THEN [Wagers[b] EXCEPT !.state = state[b]]
                          ELSE Wagers[b]
  <2>1. /\ bets'[b].session = bets[b].session /\ bets'[b].side = bets[b].side
        /\ bets'[b].player = bets[b].player /\ bets'[b].amount = bets[b].amount
        /\ bets'[b].status = IF b \in batch THEN status[b] ELSE bets[b].status
    BY MarkChanges
  <2>. QED
    BY <2>1 DEF Wagers
<1>2. Wagers' = [b \in BetIds |-> Wagers'[b]]
  BY DEF Wagers
<1>. QED
  BY <1>1, <1>2 DEF W!Resolve

\* A settlement settles the round as a whole, by a side that was staked on least.
LEMMA WagerSettle ==
  ASSUME TypeOK, SchedulerInv, TotalsMatchStakes, HouseInv,
         NEW i \in Schedulers, NEW g \in Games, SettleBets(i, g)
  PROVE  W!Next
<1> DEFINE t      == task[i][g]
           s      == t.session
           w      == t.winner
           batch  == PlacedIn(s)
           status == [b \in t.batch |-> IF b \in Winners(t) THEN "WON" ELSE "LOST"]
           state  == [b \in batch |-> IF Wagers[b].side = w THEN "won" ELSE "lost"]
           prize  == Total(Prizes(t), Winners(t))
<1>1. /\ s \in SessionIds /\ sessions[s].status = "RUNNING" /\ w \in Sides
      /\ Winners(t) = BetsOn(s, w)
      /\ wallet' = Paying(Larger(wallet[Pool], prize), Prizes(t))
      /\ bets' = Mark(t.batch, status) /\ t.batch = batch
      /\ sessions' = [sessions EXCEPT ![s] = [@ EXCEPT !.status = "COMPLETED", !.winner = w]]
  BY SettlePaid
<1>2. prize <= wallet[Pool] /\ Larger(wallet[Pool], prize) = wallet[Pool]
  <2>1. Larger(wallet[Pool], prize) = wallet[Pool] /\ prize \in Nat /\ wallet[Pool] \in Nat
    BY NoTopUp DEF HouseInv, TypeOK, Wallets
  <2>. QED
    BY <2>1 DEF Larger
<1>3. batch = {b \in BetIds : bets[b].session = s} /\ batch \in SUBSET BetIds
  BY <1>1, NoneApart DEF PlacedIn, SchedulerInv, BetsOnSessions
<1>4. \A x \in Sides : sessions[s].total[w] <= sessions[s].total[x]
  BY DEF SettleBets, Move, HouseInv, WinnerFavoured, Favoured
<1>5. DOMAIN Prizes(t) = Winners(t) /\ Winners(t) \in SUBSET BetIds
  BY <1>1 DEF Prizes, BetsOn
<1>6. Prizes(t) = [b \in BetsOn(s, w) |-> Promised(Wagers[b].stake)]
  <2>1. ASSUME NEW b \in BetsOn(s, w)
        PROVE  Payout(bets[b].amount) = Promised(Wagers[b].stake)
    <3>1. b \in BetIds /\ bets[b] \in Bet
      BY DEF TypeOK, BetsOn
    <3>2. bets[b].amount \in Stakes \cup {0}
      BY <3>1 DEF Bet
    <3>. QED
      BY <3>1, <3>2, PayoutIs, WagerIs DEF Promised
  <2>. QED
    BY <1>1, <2>1 DEF Prizes
<1>7. \A b \in batch : state[b] = WagerState[status[b]]
  BY <1>1, <1>3, WagerIs, WagerStates DEF BetsOn
<1>8. DOMAIN state = batch
  OBVIOUS
<1>. HIDE DEF t, s, w, batch, status, state, prize
<1>9. W!On(s) = W!Open(s) /\ W!On(s) = batch
  BY <1>1, <1>3, WagersOn DEF batch
<1>10. \A x \in Sides : W!StakedOn(s, w) <= W!StakedOn(s, x)
  BY <1>1, <1>4, WagersOn DEF TotalsMatchStakes
<1>11. s \notin Over /\ Over' = Over \cup {s}
  BY <1>1 DEF Over, TypeOK, Session
<1>12. W!Pay(Prizes(t))
  <2>1. wallet' = Paying(wallet[Pool], Prizes(t))
    BY <1>1, <1>2
  <2>. QED
    BY <1>2, <1>5, <2>1, WagerPay DEF prize
<1>13. W!Resolve(state)
  <2>1. bets' = Mark(batch, status)
    BY <1>1
  <2>. QED
    BY <1>3, <1>7, <1>8, <2>1, WagerResolve
<1>14. {b \in W!On(s) : Wagers[b].side = w} = BetsOn(s, w)
  BY <1>3, <1>9, WagerIs DEF BetsOn
<1>15. W!Settle(s, w)
  <2>1. [b \in {c \in W!On(s) : Wagers[c].side = w} |-> Promised(Wagers[b].stake)] = Prizes(t)
    BY <1>6, <1>14
  <2>2. [b \in W!On(s) |-> IF Wagers[b].side = w THEN "won" ELSE "lost"] = state
    BY <1>9 DEF state
  <2>. QED
    BY <1>9, <1>10, <1>11, <1>12, <1>13, <2>1, <2>2 DEF W!Settle
<1>16. s \in SessionIds /\ w \in Sides
  BY <1>1
<1>. QED
  BY <1>15, <1>16, Zenon DEF W!Next

\* A refund by recovery calls the round off.
LEMMA WagerRefund ==
  ASSUME TypeOK, SchedulerInv, HouseInv, NEW i \in Schedulers, RefundSession(i)
  PROVE  W!Next
<1> DEFINE s      == recovery[i].session
           batch  == recovery[i].batch
           stake  == [b \in batch |-> bets[b].amount]
           status == [b \in batch |-> "REFUNDED"]
           state  == [b \in batch |-> "refunded"]
<1>1. /\ s \in SessionIds /\ sessions[s].status \notin {"COMPLETED", "FAILED"}
      /\ batch \subseteq PlacedIn(s)
      /\ Total(stake, batch) <= wallet[Pool]
      /\ wallet' = Paying(wallet[Pool], stake)
      /\ bets' = Mark(batch, status)
      /\ sessions' = [sessions EXCEPT ![s].status = "FAILED"]
  BY RefundPaid DEF HouseInv
<1>2. batch \in SUBSET BetIds
  BY <1>1 DEF PlacedIn
<1>3. stake = [b \in batch |-> Wagers[b].stake]
  BY <1>2, WagerIs
<1>4. DOMAIN stake = batch /\ DOMAIN state = batch
  OBVIOUS
<1>5. \A b \in batch : state[b] = WagerState[status[b]]
  BY WagerStates
<1>. HIDE DEF s, batch, stake, status, state
<1>6. batch \in SUBSET W!Open(s)
  BY <1>1, WagersOn
<1>7. s \notin Over /\ Over' = Over \cup {s}
  BY <1>1 DEF Over, TypeOK, Session
<1>8. W!Pay([b \in batch |-> Wagers[b].stake])
  <2>1. W!Pay(stake)
    BY <1>1, <1>2, <1>4, WagerPay
  <2>. QED
    BY <1>3, <2>1
<1>9. W!Resolve([b \in batch |-> "refunded"])
  <2>1. W!Resolve(state)
    BY <1>1, <1>2, <1>4, <1>5, WagerResolve
  <2>. QED
    BY <2>1 DEF state
<1>10. W!CallOff(s, batch)
  BY <1>6, <1>7, <1>8, <1>9 DEF W!CallOff
<1>. QED
  BY <1>1, <1>6, <1>10 DEF W!Next

\* A step that moves no money and ends at most one session calls it off, or is none.
LEMMA WagerEnds ==
  ASSUME TypeOK, UNCHANGED <<wallet, bets>>,
         Over' = Over \/ \E s \in SessionIds : Over' = Over \cup {s}
  PROVE  [W!Next]_(W!vars)
<1>1. Purses' = Purses /\ Wagers' = Wagers /\ wallet'[Pool] = wallet[Pool]
  BY DEF Purses, Wagers
<1>2. CASE Over' = Over
  BY <1>1, <1>2 DEF W!vars
<1>3. CASE Over' # Over
  <2>1. PICK s \in SessionIds : s \notin Over /\ Over' = Over \cup {s}
    BY <1>3
  <2> DEFINE none == [b \in {} |-> Wagers[b].stake]
  <2>2. Total(none, {}) = 0 /\ \A p : {b \in {} : Wagers[b].bettor = p} = {}
    BY TotalEmpty
  <2>3. wallet[Pool] \in Nat
    BY PoolApart DEF TypeOK
  <2>4. W!Pay(none)
    <3>1. wallet'[Pool] = wallet[Pool] - Total(none, {}) /\ Total(none, {}) <= wallet[Pool]
      BY <1>1, <2>2, <2>3
    <3>2. ASSUME NEW p \in Players
          PROVE  Purses[p] = Purses[p] + Total(none, {b \in {} : Wagers[b].bettor = p})
      <4>1. Purses[p] \in Nat
        BY PoolApart DEF Purses, TypeOK
      <4>. QED
        BY <2>2, <4>1
    <3>3. Purses' = [p \in Players |->
                       Purses[p] + Total(none, {b \in {} : Wagers[b].bettor = p})]
      BY <1>1, <3>2 DEF Purses
    <3>4. DOMAIN none = {}
      OBVIOUS
    <3>. HIDE DEF none
    <3>. QED
      BY <3>1, <3>3, <3>4, SameTotal DEF W!Pay
  <2>5. W!Resolve([b \in {} |-> "refunded"])
    BY <1>1 DEF W!Resolve, Wagers
  <2>6. W!CallOff(s, {})
    BY <2>1, <2>4, <2>5 DEF W!CallOff
  <2>. QED
    BY <2>6 DEF W!Next
<1>. QED
  BY <1>2, <1>3

\* Setting the status of the session of a coroutine.
LEMMA StatusOver ==
  ASSUME TypeOK, NEW i \in Schedulers, NEW g \in Games, NEW status \in SessionStatus,
         SetStatus(i, g, status), task[i][g].session \in SessionIds
  PROVE  /\ status \in {"COMPLETED", "FAILED"} => Over' = Over \cup {task[i][g].session}
         /\ status \notin {"COMPLETED", "FAILED"} /\ task[i][g].session \notin Over =>
              Over' = Over
<1> DEFINE s == task[i][g].session
<1>1. sessions[s] \in Session
  BY DEF TypeOK
<1>2. sessions' = [sessions EXCEPT ![s] = [sessions[s] EXCEPT !.status = status]]
  BY DEF SetStatus
<1>. HIDE DEF s
<1>3. \A u \in SessionIds :
        sessions'[u].status = IF u = s THEN status ELSE sessions[u].status
  BY <1>1, <1>2 DEF TypeOK, Session
<1>. QED
  BY <1>3 DEF Over, s

\* The steps of a cycle but the settlement end at most its session.
LEMMA WagerCycle ==
  ASSUME TypeOK, SchedulerInv, NEW i \in Schedulers, NEW g \in Games,
         Cycle(i, g) \/ Raise(i, g), ~SettleBets(i, g)
  PROVE  [W!Next]_(W!vars)
<1> DEFINE s == task[i][g].session
<1>1. UNCHANGED <<wallet, bets>>
  BY DEF Cycle, Acquire, InsertSession, ShowBetting, CloseBetting, ShowInitiating,
     ShowRunning, DrawResult, RevealWinner, ReadBets, ShowSettling, FailSession,
     LeaveSession, ShowIdle, Raise, database
<1>2. s \in SessionIds \cup {None} /\ InStep(task[i][g], g)
  BY DEF TypeOK, Task, SchedulerInv, CyclesInStep
<1>3. Over' = Over \/ \E u \in SessionIds : Over' = Over \cup {u}
  <2>1. CASE UNCHANGED sessions
    BY <2>1 DEF Over
  <2>2. CASE InsertSession(i, g)
    <3>1. PICK u \in SessionIds :
            /\ sessions[u].status = "NONE"
            /\ sessions' = [sessions EXCEPT ![u] = [@ EXCEPT !.status = "BETTING", !.game = g]]
      BY <2>2 DEF InsertSession
    <3>2. \A v \in SessionIds : sessions'[v].status =
            IF v = u THEN "BETTING" ELSE sessions[v].status
      BY <3>1 DEF TypeOK, Session
    <3>. QED
      BY <3>1, <3>2 DEF Over
  <2>3. CASE CloseBetting(i, g)
    <3>1. s \in SessionIds /\ sessions[s].status = "BETTING"
      BY <1>2, <2>3 DEF CloseBetting, Move, InStep, Stage, InTry
    <3>. QED
      BY <2>3, <3>1, StatusOver DEF CloseBetting, SessionStatus, Over
  <2>4. CASE DrawResult(i, g)
    <3>1. s \in SessionIds /\ sessions[s].status = "INITIATING"
      BY <1>2, <2>4 DEF DrawResult, InStep, Stage, InTry
    <3>. QED
      BY <2>4, <3>1, StatusOver DEF DrawResult, SessionStatus, Over
  <2>5. CASE FailSession(i, g) /\ s # None
    BY <1>2, <2>5, StatusOver DEF FailSession, SessionStatus
  <2>. QED
    BY <2>1, <2>2, <2>3, <2>4, <2>5
    DEF Cycle, Acquire, ShowBetting, ShowInitiating, ShowRunning, RevealWinner, ReadBets,
        ShowSettling, FailSession, LeaveSession, ShowIdle, Raise, database
<1>. QED
  BY <1>1, <1>3, WagerEnds

\* Every step is a step of Wager or changes nothing a bettor is promised.
LEMMA WagerNext ==
  ASSUME OneScheduler
  PROVE  TypeOK /\ SchedulerInv /\ TotalsMatchStakes /\ HouseInv /\ [Next]_vars
           => [W!Next]_(W!vars)
<1>. SUFFICES ASSUME TypeOK, SchedulerInv, TotalsMatchStakes, HouseInv, [Next]_vars
              PROVE  [W!Next]_(W!vars)
  OBVIOUS
<1>1. CASE UNCHANGED <<wallet, bets, sessions>>
  <2>1. Over' = Over
    BY <1>1 DEF Over
  <2>. QED
    BY <1>1, <2>1, WagerEnds
<1>2. ASSUME NEW r \in Requests, Bettor(r) PROVE [W!Next]_(W!vars)
  <2>1. CASE CommitBet(r)
    BY <2>1, WagerBet DEF HouseInv
  <2>. QED
    BY <1>1, <1>2, <2>1 DEF Bettor, ReadPhase, CheckActive, RejectBet, database
<1>3. ASSUME NEW i \in Schedulers, NEW g \in Games, Cycle(i, g) \/ Raise(i, g)
      PROVE  [W!Next]_(W!vars)
  BY <1>3, WagerSettle, WagerCycle
<1>4. ASSUME NEW i \in Schedulers, Exit(i) \/ Recover(i) PROVE [W!Next]_(W!vars)
  <2>1. CASE RefundSession(i)
    BY <2>1, WagerRefund
  <2>. QED
    BY <1>1, <1>4, <2>1 DEF Recover, Exit, Start, ReadStuck, EndRecovery, database
<1>5. ASSUME NEW g \in Games, Expire(g) PROVE [W!Next]_(W!vars)
  BY <1>1, <1>5 DEF Expire, database
<1>6. ASSUME OutOfSessions \/ UNCHANGED vars PROVE [W!Next]_(W!vars)
  BY <1>1, <1>6 DEF OutOfSessions, vars, database
<1>. QED
  BY <1>2, <1>3, <1>4, <1>5, <1>6 DEF Next

\* With one scheduler the wallets and the bets keep what module Wager promises a
\* bettor, whatever processes, messages, locks, crashes and retries do underneath.
THEOREM RoundsImplementWager == ASSUME OneScheduler PROVE Spec => ImplementsWager
<1>1. TypeOK /\ SchedulerInv /\ TotalsMatchStakes /\ HouseInv /\ [Next]_vars
        => [W!Next]_(W!vars)
  BY WagerNext
<1>. QED
  BY <1>1, WagerInit, TypeCorrect, SchedulerInvariant, TotalsCorrect, HouseInvariant, PTL
  DEF Spec, ImplementsWager, W!Spec
=============================================================================
