------------------------------ MODULE RacesMC ------------------------------
(* Small instances of Races for TLC.                                       *)
EXTENDS Races, TLC

CONSTANTS
  Upper,  \* an agent of the root
  Lower   \* an agent of the agent

Agent(p) == [life |-> "live", parent |-> p, role |-> "AGENT", status |-> "ACTIVE",
             changed |-> "null"]

\* One coin has come down from the root and is staked in a round that goes on.  Ids are
\* left for further accounts, numbers for further rows are not.
MCInit ==
  /\ account = [a \in Ids |-> CASE a = Upper -> Agent(Root) [] a = Lower -> Agent(Upper)
                                [] OTHER -> NoAccount]
  /\ wallet = [o \in Wallets |-> IF o = Pool THEN 1 ELSE 0]
  /\ ledger = [t \in TxIds |-> CASE t = 1 -> [from |-> Root, to |-> Upper, amount |-> 1]
                                 [] t = 2 -> [from |-> Upper, to |-> Lower, amount |-> 1]
                                 [] t = 3 -> [from |-> Lower, to |-> Pool, amount |-> 1]]
  /\ bets = [b \in BetIds |-> [player |-> Lower, state |-> "active"]]
  /\ pending = [a \in Ids |-> "none"]
  /\ process = [x \in Requests \cup Sweepers |-> Idle]
  /\ raced = {}

\* Two processes at a time, none of them a transfer or a bet, which the empty wallets would
\* refuse; no time passes, so that the daily jobs find nothing.
Bounded ==
  /\ Cardinality({x \in DOMAIN process : process'[x] # Idle}) <= 2
  /\ \A r \in Requests : process'[r].op \notin {"transfer", "bet"}
  /\ \A a \in Ids : account'[a].changed # "old" /\ pending'[a] # "old"

MCSpec == MCInit /\ [][RaceNext /\ Bounded]_raceVars

Symmetry == Permutations(Requests)
=============================================================================
