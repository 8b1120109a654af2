----------------------------- MODULE RowLocksMC -----------------------------
(* Small instances of RowLocks for TLC.                                    *)
EXTENDS RowLocks

\* Bets are numbers here, so that of two starts that differ in the names of the bets only
\* one is looked at.
MCInit == Init /\ \A b, c \in Bets : b < c => wallet[b] <= wallet[c]

MCSpec == MCInit /\ [][Next]_vars /\ Fairness
=============================================================================
