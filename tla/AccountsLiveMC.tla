----------------------------- MODULE AccountsLiveMC --------------------------
(* A small instance of Accounts for TLC, from two starts: before the first *)
(* agent is created, and with two agents and their money there.            *)
EXTENDS Accounts, TLC

CONSTANTS
  Upper,  \* an agent of the root
  Lower,  \* an agent of the agent
  Stake,  \* a bet of the lower agent
  Chief,  \* the request that may queue and delete
  Payer   \* a transfer or a bet in progress

Agent(p) == [life |-> "live", parent |-> p, role |-> "AGENT", status |-> "ACTIVE",
             changed |-> "null"]
Coin(from, to) == [from |-> from, to |-> to, amount |-> 1]
Holding(owners) == [o \in Wallets |-> IF o \in owners THEN 1 ELSE 0]

\* No account; the root has been credited once and debited twice.
Fresh ==
  /\ account = [a \in Ids |-> NoAccount]
  /\ wallet = Holding({Root})
  /\ ledger = [t \in TxIds |-> CASE t = 1 -> Coin(None, Root)
                                 [] t \in {2, 3} -> Coin(Root, None)
                                 [] OTHER -> NoRow]
  /\ bets = [b \in BetIds |-> NoBet]
  /\ process = [x \in Requests \cup Sweepers |-> Idle]

\* Two coins have come down from the root, one of them to the lower agent, who has
\* staked it in a round that goes on.
Staked ==
  /\ account = [a \in Ids |-> Agent(IF a = Upper THEN Root ELSE Upper)]
  /\ wallet = Holding({Upper, Pool})
  /\ ledger = [t \in TxIds |-> CASE t \in {1, 2} -> Coin(Root, Upper)
                                 [] t = 3 -> Coin(Upper, Lower)
                                 [] t = 4 -> Coin(Lower, Pool)
                                 [] OTHER -> NoRow]
  /\ bets = [b \in BetIds |->
               IF b = Stake THEN [player |-> Lower, state |-> "active"] ELSE NoBet]
  /\ \E q \in {[Idle EXCEPT !.op = "bet", !.at = "bet", !.who = Upper, !.amount = 1],
               [Idle EXCEPT !.op = "transfer", !.at = "transfer", !.who = Upper, !.root = Lower,
                  !.amount = 1]} :
       process = [x \in Requests \cup Sweepers |-> IF x = Payer THEN q ELSE Idle]

MCInit == (Fresh \/ Staked) /\ pending = [a \in Ids |-> "none"]

\* With one account, one row of bets.
SmallFresh == account'[Lower].life = "new" /\ bets'[Stake] = NoBet

\* With two, statuses and deletions while a payment is under way; no time passes.
SmallStaked ==
  /\ process'[Payer] \in {process[Payer], Idle}
  /\ process'[Chief].op \in {"idle", "status", "delete"}
  /\ wallet'[Root] = wallet[Root]
  /\ \A a \in Ids : account'[a].changed # "old" /\ pending'[a] # "old"

Bounded == IF account[Lower].life = "new" THEN SmallFresh ELSE SmallStaked
MCSpec == MCInit /\ [][Next /\ Bounded]_vars /\ Fairness
=============================================================================
