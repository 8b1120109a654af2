---------------------------- MODULE GameRoundMC ----------------------------
(* Small instances of GameRound for TLC.                                   *)
EXTENDS GameRound, TLC

\* The program charges 5% of at least 10.000; a coarser coin keeps sums small.
MCFeeOf == [a \in Stakes \cup {0} |-> a \div 4]
MCBalance == [p \in Players |-> 8]
MCTightBalance == [p \in Players |-> 6]

\* Players, bets and requests are interchangeable.
Symmetry == Permutations(Players) \cup Permutations(BetIds) \cup Permutations(Requests)
=============================================================================
