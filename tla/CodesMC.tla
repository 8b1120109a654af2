------------------------------ MODULE CodesMC -------------------------------
(* Small instances of Codes for TLC.                                       *)
EXTENDS Codes, TLC

\* Addresses and requests are interchangeable.
Symmetry == Permutations(Emails) \cup Permutations(Requests)
=============================================================================
