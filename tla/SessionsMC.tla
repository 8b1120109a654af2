----------------------------- MODULE SessionsMC -----------------------------
(* Small instances of Sessions for TLC.                                    *)
EXTENDS Sessions, TLC

\* Login pages and requests are interchangeable.
Symmetry == Permutations(Captchas) \cup Permutations(Requests)
=============================================================================
