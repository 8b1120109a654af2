------------------------------- MODULE Money -------------------------------
(***************************************************************************)
(* Amounts of money and the ways a purse pays them out.                    *)
(*                                                                         *)
(* The program keeps balances as NUMERIC(18,3) and rounds every result     *)
(* down to three decimals (utils/money.py); an amount is here a natural    *)
(* number of the smallest coin.  A sum is written as the cardinality of    *)
(* a set of single coins, so that what is known of finite sets applies to  *)
(* sums: no induction over a recursive function is needed to prove that a  *)
(* sum is a natural number or that disjoint sums add up.                   *)
(***************************************************************************)
EXTENDS Integers, FiniteSets

FaultyLarger(m, n) == m  \* a purse that is never filled up
Larger(m, n) == IF m >= n THEN m ELSE n

\* The coins of the amounts f[x], x \in S, each coin tagged with its x.
Coins(f, S) == UNION {{x} \X (1 .. f[x]) : x \in S}

\* The sum of f[x] for x in S.
Total(f, S) == Cardinality(Coins(f, S))

(***************************************************************************)
(* The payments that result when due[x], x \in DOMAIN due, are paid one    *)
(* after the other, in an order nobody fixes (the SELECT has no ORDER BY), *)
(* each one capped by what the purse still holds: all in full when the     *)
(* purse suffices; otherwise a set `full' is paid in full, the next claim  *)
(* gets the rest and the later ones get nothing.                           *)
(***************************************************************************)
Payments(purse, due) ==
  LET Claims == DOMAIN due
      Short(full, next) ==
        [x \in Claims |-> IF x \in full THEN due[x]
                          ELSE IF x = next THEN purse - Total(due, full)
                          ELSE 0]
  IN IF Total(due, Claims) <= purse
     THEN {due}
     ELSE {Short(p[1], p[2]) :
             p \in {q \in (SUBSET Claims) \X Claims :
                      /\ q[2] \notin q[1]
                      /\ Total(due, q[1]) <= purse
                      /\ purse < Total(due, q[1]) + due[q[2]]}}
=============================================================================
