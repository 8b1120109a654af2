----------------------------- MODULE AccountsMC -----------------------------
(* Small instances of Accounts for TLC.                                    *)
EXTENDS Accounts, TLC

\* Accounts and requests are interchangeable.
Symmetry == Permutations(Ids) \cup Permutations(Requests)
=============================================================================
