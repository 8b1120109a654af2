------------------------------- MODULE Races -------------------------------
(***************************************************************************)
(* Accounts with a history: which accounts have been deactivated while a   *)
(* child of theirs was being created or activated.  A route reads the      *)
(* hierarchy in one transaction and writes in a later one, so what it has  *)
(* read may be out of date.                                                *)
(***************************************************************************)
EXTENDS Accounts

VARIABLE raced  \* accounts whose deactivation overlapped with a write below them

raceVars == <<vars, raced>>

\* What is about to be made inactive: set_status has read the subtree, or a deletion that
\* finds a round in progress marks it.
Lowering(q) ==
  \/ q.at = "update" /\ q.arg = "INACTIVE"
  \/ q.at = "look" /\ q.op = "delete"
  \/ q.at = "mark"
Lowers(r) == IF Lowering(process[r]) THEN process[r].ids ELSE {}

\* The account directly below which request r is about to create or activate one.
RaisesBelow(r) ==
  CASE process[r].at = "insert" -> {process[r].who}
    [] process[r].at = "update" /\ process[r].arg = "ACTIVE" -> {account[process[r].root].parent}
    [] OTHER -> {}

Overlap == {a \in Ids : \E r, s \in Requests : a \in Lowers(r) \cap RaisesBelow(s)}

RaceInit == Init /\ raced = {}
RaceNext == Next /\ raced' = raced \cup Overlap'
RaceSpec == RaceInit /\ [][RaceNext]_raceVars

-----------------------------------------------------------------------------
\* No account is active below an inactive one, whatever is created, activated,
\* deactivated, deleted or put off at the same time, but for children of an account whose
\* deactivation overlapped with the creation or the activation of a child of its own.
\* 002_prompt.md:16 "all descendants (multi-level Agents + Users) also become inactive".
InactiveBelow ==
  \A a \in Ids : Live(a) /\ account[a].parent \in Ids \ raced /\ ~Active(account[a].parent)
                   => ~Active(a)
=============================================================================
