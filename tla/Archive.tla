------------------------------ MODULE Archive ------------------------------
(***************************************************************************)
(* The jobs of tasks/cleanup.py that move old bets and game sessions to    *)
(* their archive tables and copy old wallet transactions, together with    *)
(* what writes these tables meanwhile: the scheduler's rounds and the      *)
(* deletion of accounts.                                                   *)
(*                                                                         *)
(* Beat queues the jobs in order every day for one worker.  A job that     *)
(* fails is queued again after five minutes, so that jobs do not run in    *)
(* the order in which they were queued.                                    *)
(***************************************************************************)
EXTENDS Integers, Sequences, FiniteSets

CONSTANTS
  SessionIds,
  BetIds,      \* each bet of a player of its own
  MaxRetries,  \* max_retries; 3 in the code
  MaxQueue,    \* bound on the jobs queued or waiting for a retry
  None         \* no row

VARIABLES
  bets, betsArchive,          \* rows of bets and bets_archive
  sessions, sessionsArchive,  \* rows of game_sessions and game_sessions_archive
  ledger, ledgerArchive,      \* bets whose stake is in wallet_transactions, in its archive
  age,      \* how many of the thresholds of 30 and 90 days a row has passed
  deleted,  \* bets whose player has been deleted
  queue,    \* the queue `cleanup'
  waiting   \* jobs that failed and wait for their retry

tables == <<bets, betsArchive, sessions, sessionsArchive, ledger, ledgerArchive, deleted>>
jobs == <<queue, waiting>>
vars == <<tables, age, jobs>>

Bet == [session : SessionIds, status : {"PLACED", "WON", "LOST", "REFUNDED"}]
SessionStatus == {"BETTING", "RUNNING", "COMPLETED", "FAILED"}
Job == {"bets", "sessions", "ledger"}
Entry == [job : Job, retries : 0 .. MaxRetries]

ASSUME ArchiveAssumption ==
  /\ MaxRetries \in Nat /\ MaxQueue \in Nat
  /\ BetIds \cap SessionIds = {}
  /\ None \notin Bet \cup SessionStatus

TypeOK ==
  /\ bets \in [BetIds -> Bet \cup {None}] /\ betsArchive \in [BetIds -> Bet \cup {None}]
  /\ sessions \in [SessionIds -> SessionStatus \cup {None}]
  /\ sessionsArchive \in [SessionIds -> SessionStatus \cup {None}]
  /\ deleted \subseteq BetIds /\ ledger \subseteq BetIds \ deleted /\ ledgerArchive \subseteq BetIds
  /\ age \in [BetIds \cup SessionIds -> 0 .. 2]
  /\ queue \in Seq(Entry) /\ waiting \subseteq Entry
  /\ Len(queue) + Cardinality(waiting) <= MaxQueue

Init ==
  /\ bets = [b \in BetIds |-> None] /\ betsArchive = bets
  /\ sessions = [s \in SessionIds |-> None] /\ sessionsArchive = sessions
  /\ ledger = {} /\ ledgerArchive = {} /\ deleted = {}
  /\ age = [x \in BetIds \cup SessionIds |-> 0]
  /\ queue = <<>> /\ waiting = {}

-----------------------------------------------------------------------------
FaultyResolved == {"WON", "LOST"}
Resolved == {"WON", "LOST", "REFUNDED"}
Finished == {"COMPLETED", "FAILED"}
BetsOf(s) == {b \in BetIds : bets[b] # None /\ bets[b].session = s}
PlacedIn(s) == {b \in BetsOf(s) : bets[b].status = "PLACED"}

\* The rows in S of table `from', moved to table `to'.
Added(to, from, S) == [x \in DOMAIN to |-> IF x \in S THEN from[x] ELSE to[x]]
Removed(from, S) == [x \in DOMAIN from |-> IF x \in S THEN None ELSE from[x]]

-----------------------------------------------------------------------------
(* Rounds *)

OpenSession(s) ==
  /\ sessions[s] = None /\ sessionsArchive[s] = None
  /\ sessions' = [sessions EXCEPT ![s] = "BETTING"]
  /\ UNCHANGED <<bets, betsArchive, sessionsArchive, ledger, ledgerArchive, deleted, age, jobs>>

PlaceBet(b, s) ==
  /\ bets[b] = None /\ betsArchive[b] = None /\ b \notin deleted
  /\ sessions[s] = "BETTING"
  /\ bets' = [bets EXCEPT ![b] = [session |-> s, status |-> "PLACED"]]
  /\ ledger' = ledger \cup {b}
  /\ UNCHANGED <<betsArchive, sessions, sessionsArchive, ledgerArchive, deleted, age, jobs>>

CloseBetting(s) ==
  /\ sessions[s] = "BETTING"
  /\ sessions' = [sessions EXCEPT ![s] = "RUNNING"]
  /\ UNCHANGED <<bets, betsArchive, sessionsArchive, ledger, ledgerArchive, deleted, age, jobs>>

\* Every placed bet is settled and the session completed in one transaction.
Settle(s) ==
  /\ sessions[s] = "RUNNING"
  /\ \E won \in SUBSET PlacedIn(s) :
       bets' = [b \in BetIds |->
         IF b \in PlacedIn(s)
         THEN [bets[b] EXCEPT !.status = IF b \in won THEN "WON" ELSE "LOST"] ELSE bets[b]]
  /\ sessions' = [sessions EXCEPT ![s] = "COMPLETED"]
  /\ UNCHANGED <<betsArchive, sessionsArchive, ledger, ledgerArchive, deleted, age, jobs>>

\* An exception in the round, before or after its settlement: bets stay as they are.
FailSession(s) ==
  /\ sessions[s] \in {"BETTING", "RUNNING", "COMPLETED"} /\ age[s] = 0
  /\ sessions' = [sessions EXCEPT ![s] = "FAILED"]
  /\ UNCHANGED <<bets, betsArchive, sessionsArchive, ledger, ledgerArchive, deleted, age, jobs>>

\* The scheduler starts again: the stakes of interrupted sessions are paid back.
Recover(s) ==
  /\ sessions[s] \in {"BETTING", "RUNNING"}
  /\ bets' = [b \in BetIds |->
       IF b \in PlacedIn(s) THEN [bets[b] EXCEPT !.status = "REFUNDED"] ELSE bets[b]]
  /\ sessions' = [sessions EXCEPT ![s] = "FAILED"]
  /\ UNCHANGED <<betsArchive, sessionsArchive, ledger, ledgerArchive, deleted, age, jobs>>

\* The bets and the ledger rows of a deleted account go, whatever their status; what is
\* in the archives has no foreign key and stays.
DeletePlayer(b) ==
  /\ bets[b] # None \/ betsArchive[b] # None
  /\ b \notin deleted
  /\ bets' = Removed(bets, {b})
  /\ ledger' = ledger \ {b}
  /\ deleted' = deleted \cup {b}
  /\ UNCHANGED <<betsArchive, sessions, sessionsArchive, ledgerArchive, age, jobs>>

\* created_at of a bet and its ledger row; completed_at of a session is later than its bets.
PassTime ==
  /\ \/ \E b \in BetIds : /\ bets[b] # None \/ betsArchive[b] # None \/ b \in ledger
                          /\ age[b] < 2
                          /\ age' = [age EXCEPT ![b] = @ + 1]
     \/ \E s \in SessionIds : /\ sessions[s] \in Finished /\ age[s] = 0
                              /\ \A b \in BetsOf(s) : age[b] > 0
                              /\ age' = [age EXCEPT ![s] = 1]
  /\ UNCHANGED <<tables, jobs>>

-----------------------------------------------------------------------------
(* Jobs.  Each is one transaction. *)

OldBets == {b \in BetIds : bets[b] # None /\ bets[b].status \in Resolved /\ age[b] > 0}

FaultyArchiveOldBets ==  \* the DELETE by age alone
  /\ betsArchive' = Added(betsArchive, bets, OldBets)
  /\ bets' = Removed(bets, {b \in BetIds : age[b] > 0})
  /\ UNCHANGED <<sessions, sessionsArchive, ledger, ledgerArchive, deleted, age>>

ArchiveOldBets ==
  LET moved == {b \in OldBets : betsArchive[b] = None}  \* ON CONFLICT DO NOTHING
  IN  /\ betsArchive' = Added(betsArchive, bets, moved)
      /\ bets' = Removed(bets, moved)
      /\ UNCHANGED <<sessions, sessionsArchive, ledger, ledgerArchive, deleted, age>>

FaultyEligible == {s \in SessionIds : sessions[s] \in Finished /\ age[s] > 0}  \* no NOT EXISTS
Eligible == {s \in SessionIds : sessions[s] \in Finished /\ age[s] > 0 /\ BetsOf(s) = {}}

ArchiveOldGameSessions ==
  LET moved == {s \in Eligible : sessionsArchive[s] = None}
  IN  /\ sessionsArchive' = Added(sessionsArchive, sessions, moved)
      /\ sessions' = Removed(sessions, moved)
      /\ UNCHANGED <<bets, betsArchive, ledger, ledgerArchive, deleted, age>>

CopyOldWalletTransactions ==
  /\ ledgerArchive' = ledgerArchive \cup {b \in ledger : age[b] = 2}
  /\ UNCHANGED <<bets, betsArchive, sessions, sessionsArchive, ledger, deleted, age>>

Do(job) ==
  \/ job = "bets" /\ ArchiveOldBets
  \/ job = "sessions" /\ ArchiveOldGameSessions
  \/ job = "ledger" /\ CopyOldWalletTransactions

\* daily_cleanup_job, whether or not yesterday's jobs are done.
DailyCleanup ==
  /\ Len(queue) + Cardinality(waiting) + 3 <= MaxQueue
  /\ queue' = queue \o [i \in 1 .. 3 |-> [job |-> <<"bets", "sessions", "ledger">>[i], retries |-> 0]]
  /\ UNCHANGED <<tables, age, waiting>>

HeadIs(job) == queue # <<>> /\ Head(queue).job = job

RunJob(job) ==
  /\ HeadIs(job)
  /\ Do(job)
  /\ queue' = Tail(queue)
  /\ UNCHANGED waiting

FaultyFailJob(job) ==  \* retried for ever
  /\ HeadIs(job)
  /\ Do(job) \/ UNCHANGED <<tables, age>>
  /\ queue' = Tail(queue)
  /\ waiting' = waiting \cup {[Head(queue) EXCEPT !.retries = @ + 1]}

\* The job raises.  Where the connection is lost in the commit, it has been done.
FailJob(job) ==
  /\ HeadIs(job)
  /\ Do(job) \/ UNCHANGED <<tables, age>>
  /\ queue' = Tail(queue)
  /\ waiting' = IF Head(queue).retries < MaxRetries
                THEN waiting \cup {[Head(queue) EXCEPT !.retries = @ + 1]} ELSE waiting

\* The worker ends in the job, which it has taken from the queue.
LoseJob(job) ==
  /\ HeadIs(job)
  /\ queue' = Tail(queue)
  /\ UNCHANGED <<tables, age, waiting>>

Retry(e) ==
  /\ e \in waiting
  /\ queue' = Append(queue, e)
  /\ waiting' = waiting \ {e}
  /\ UNCHANGED <<tables, age>>

Round(s) ==
  \/ OpenSession(s) \/ CloseBetting(s) \/ Settle(s) \/ FailSession(s) \/ Recover(s)
  \/ \E b \in BetIds : PlaceBet(b, s)

Next ==
  \/ \E s \in SessionIds : Round(s)
  \/ \E b \in BetIds : DeletePlayer(b)
  \/ PassTime
  \/ DailyCleanup
  \/ \E job \in Job : RunJob(job) \/ FailJob(job) \/ LoseJob(job)
  \/ \E e \in Entry : Retry(e)

\* Beat goes on, failed jobs come back, and a job that is run again and again does not
\* fail every time.
Fairness ==
  /\ WF_vars(DailyCleanup)
  /\ \A e \in Entry : WF_vars(Retry(e))
  /\ \A job \in Job : SF_vars(RunJob(job))

Spec == Init /\ [][Next]_vars /\ Fairness

-----------------------------------------------------------------------------
\* A bet is never in both tables, nor in neither before its player is deleted; and no
\* session that was opened gets lost.
NothingLost ==
  /\ \A b \in BetIds :
       /\ bets[b] = None \/ betsArchive[b] = None
       /\ b \in ledger => bets[b] # None \/ betsArchive[b] # None
  /\ \A s \in SessionIds :
       /\ sessions[s] = None \/ sessionsArchive[s] = None
       /\ age[s] > 0 => sessions[s] # None \/ sessionsArchive[s] # None

\* Bets are archived before their sessions, in whatever order the jobs run: what is left
\* of a round in the archive is final, and a live bet has its session, which the look at
\* the rounds in progress (hierarchy_service.py) joins it to.
ArchivedRoundIsFinal ==
  \A s \in SessionIds : sessionsArchive[s] # None =>
    /\ sessionsArchive[s] \in Finished
    /\ BetsOf(s) = {}

\* Whatever jobs fail or get lost, old rows are archived in the end: a resolved bet, a
\* stake unless its player is deleted first, and a finished session, unless a bet that a
\* failed round left placed keeps it.
OldRowsArchived ==
  /\ \A b \in BetIds : b \in OldBets ~> bets[b] = None
  /\ \A b \in BetIds : (b \in ledger /\ age[b] = 2) ~> b \in ledgerArchive \cup deleted
  /\ \A s \in SessionIds :
       (sessions[s] \in Finished /\ age[s] > 0) ~> (sessions[s] = None \/ PlacedIn(s) # {})
=============================================================================
