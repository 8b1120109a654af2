------------------------------- MODULE Wager -------------------------------
(***************************************************************************)
(* What a bettor is promised, without processes, messages, locks, retries  *)
(* or crashes: a stake moves to the house when it is wagered on a round;   *)
(* a round is over once, either settled as a whole by the side that was    *)
(* staked on less, or called off; and each wager is resolved at most once, *)
(* by exactly one payment or by none.  GameRound implements this module    *)
(* as long as a single scheduler process runs.                             *)
(***************************************************************************)
EXTENDS Integers, FiniteSets, Money

CONSTANTS
  Bettors, Rounds, WagerIds, Sides,
  Stakes,     \* what may be wagered
  Prize(_),   \* what a stake returns when it wins
  Opening,    \* what the purses hold at first
  None

VARIABLES
  purse,  \* what each bettor holds
  house,  \* what the house holds
  wager,  \* the wagers, by identifier
  over    \* the rounds that take no more wagers and are not settled any more

vars == <<purse, house, wager, over>>

NoWager == [state |-> "none", round |-> None, bettor |-> None, side |-> None, stake |-> 0]

Init ==
  /\ purse = Opening
  /\ house = 0
  /\ wager = [b \in WagerIds |-> NoWager]
  /\ over = {}

On(r) == {b \in WagerIds : wager[b].round = r}
Open(r) == {b \in On(r) : wager[b].state = "open"}
StakeOf == [b \in WagerIds |-> wager[b].stake]
StakedOn(r, x) == Total(StakeOf, {b \in On(r) : wager[b].side = x})

\* The house pays due[b] to the bettor of each b in DOMAIN due.
Pay(due) ==
  /\ Total(due, DOMAIN due) <= house
  /\ house' = house - Total(due, DOMAIN due)
  /\ purse' = [p \in Bettors |-> purse[p] + Total(due, {b \in DOMAIN due : wager[b].bettor = p})]

Resolve(state) ==
  wager' = [b \in WagerIds |->
    IF b \in DOMAIN state THEN [wager[b] EXCEPT !.state = state[b]] ELSE wager[b]]

Place(b, p, r, x, a) ==
  /\ wager[b] = NoWager /\ r \notin over /\ purse[p] >= a
  /\ wager' = [wager EXCEPT ![b] =
       [state |-> "open", round |-> r, bettor |-> p, side |-> x, stake |-> a]]
  /\ purse' = [purse EXCEPT ![p] = @ - a]
  /\ house' = house + a
  /\ UNCHANGED over

\* All wagers on a round at once, by a side no other was staked on less than.
Settle(r, w) ==
  /\ r \notin over /\ On(r) = Open(r)
  /\ \A x \in Sides : StakedOn(r, w) <= StakedOn(r, x)
  /\ Pay([b \in {c \in On(r) : wager[c].side = w} |-> Prize(wager[b].stake)])
  /\ Resolve([b \in On(r) |-> IF wager[b].side = w THEN "won" ELSE "lost"])
  /\ over' = over \cup {r}

\* A round that cannot be finished: some stakes go back at once, the others stay open.
CallOff(r, S) ==
  /\ r \notin over /\ S \subseteq Open(r)
  /\ Pay([b \in S |-> wager[b].stake])
  /\ Resolve([b \in S |-> "refunded"])
  /\ over' = over \cup {r}

Next ==
  \/ \E b \in WagerIds, p \in Bettors, r \in Rounds, x \in Sides, a \in Stakes :
       Place(b, p, r, x, a)
  \/ \E r \in Rounds :
       \/ \E w \in Sides : Settle(r, w)
       \/ \E S \in SUBSET Open(r) : CallOff(r, S)

Spec == Init /\ [][Next]_vars
=============================================================================
