--------------------------- MODULE ArchiveProofs ---------------------------
(***************************************************************************)
(* What holds of Archive for any number of sessions and bets, however long *)
(* the queue and however often a job is retried: the types, that no row is *)
(* lost or doubled, and that what is left of a round in the archive is     *)
(* final.  That old rows are archived in the end is liveness and is left   *)
(* to TLC.                                                                 *)
(***************************************************************************)
EXTENDS Archive, FiniteSetTheorems, SequenceTheorems, TLAPS

USE ArchiveAssumption

\* The two halves of TypeOK: the tables, which the jobs of the queue share with the rounds,
\* and the queue.
TablesOK ==
  /\ bets \in [BetIds -> Bet \cup {None}] /\ betsArchive \in [BetIds -> Bet \cup {None}]
  /\ sessions \in [SessionIds -> SessionStatus \cup {None}]
  /\ sessionsArchive \in [SessionIds -> SessionStatus \cup {None}]
  /\ deleted \subseteq BetIds /\ ledger \subseteq BetIds \ deleted /\ ledgerArchive \subseteq BetIds
  /\ age \in [BetIds \cup SessionIds -> 0 .. 2]
JobsOK ==
  /\ queue \in Seq(Entry) /\ waiting \subseteq Entry
  /\ IsFiniteSet(waiting) /\ Len(queue) + Cardinality(waiting) <= MaxQueue

LEMMA BothHalves == TablesOK /\ JobsOK => TypeOK
  BY DEF TablesOK, JobsOK, TypeOK

-----------------------------------------------------------------------------
(* The queue.  What waits for a retry is bounded because a job leaves the  *)
(* queue before it waits.                                                  *)

LEMMA JobsInit == Init => JobsOK
  BY FS_EmptySet DEF Init, JobsOK

LEMMA Heads ==
  ASSUME JobsOK, queue # <<>>
  PROVE  /\ Head(queue) \in Entry /\ Tail(queue) \in Seq(Entry)
         /\ Len(queue) \in Nat /\ Len(Tail(queue)) = Len(queue) - 1
  BY DEF JobsOK

LEMMA JobsRun == ASSUME JobsOK, NEW job, RunJob(job) \/ LoseJob(job) PROVE JobsOK'
<1>1. queue # <<>> /\ queue' = Tail(queue) /\ waiting' = waiting
  BY DEF RunJob, LoseJob, HeadIs
<1>2. Cardinality(waiting) \in Nat
  BY FS_CardinalityType DEF JobsOK
<1>3. Len(queue') + Cardinality(waiting) <= MaxQueue
  BY <1>1, <1>2, Heads DEF JobsOK
<1>. QED
  BY <1>1, <1>3, Heads DEF JobsOK

LEMMA JobsFail == ASSUME JobsOK, NEW job, FailJob(job) PROVE JobsOK'
<1>1. queue # <<>> /\ queue' = Tail(queue)
  BY DEF FailJob, HeadIs
<1>2. Head(queue) \in Entry /\ Tail(queue) \in Seq(Entry) /\ Len(queue) \in Nat
      /\ Len(queue') = Len(queue) - 1
  BY <1>1, Heads
<1>3. Cardinality(waiting) \in Nat
  BY FS_CardinalityType DEF JobsOK
<1> DEFINE e == [Head(queue) EXCEPT !.retries = @ + 1]
<1>4. CASE Head(queue).retries < MaxRetries
  <2>1. e \in Entry
    BY <1>2, <1>4 DEF Entry
  <2>2. waiting' = waiting \cup {e}
    BY <1>4 DEF FailJob
  <2>. HIDE DEF e
  <2>3. IsFiniteSet(waiting') /\ Cardinality(waiting') <= Cardinality(waiting) + 1
        /\ Cardinality(waiting') \in Nat
    <3>1. IsFiniteSet(waiting)
      BY DEF JobsOK
    <3>2. IsFiniteSet(waiting') /\ Cardinality(waiting') =
            IF e \in waiting THEN Cardinality(waiting) ELSE Cardinality(waiting) + 1
      BY <2>2, <3>1, FS_AddElement
    <3>. QED
      BY <1>3, <3>2
  <2>4. Len(queue') + Cardinality(waiting') <= MaxQueue
    BY <1>2, <1>3, <2>3 DEF JobsOK
  <2>. QED
    BY <1>1, <1>2, <2>1, <2>2, <2>3, <2>4 DEF JobsOK
<1>5. CASE ~(Head(queue).retries < MaxRetries)
  <2>1. waiting' = waiting
    BY <1>5 DEF FailJob
  <2>2. Len(queue') + Cardinality(waiting) <= MaxQueue
    BY <1>2, <1>3 DEF JobsOK
  <2>. QED
    BY <1>1, <1>2, <2>1, <2>2 DEF JobsOK
<1>. QED
  BY <1>4, <1>5

LEMMA JobsRetry == ASSUME JobsOK, NEW e \in Entry, Retry(e) PROVE JobsOK'
<1>1. e \in waiting /\ queue' = Append(queue, e) /\ waiting' = waiting \ {e}
  BY DEF Retry
<1>2. IsFiniteSet(waiting) /\ Cardinality(waiting) \in Nat
  BY FS_CardinalityType DEF JobsOK
<1>3. IsFiniteSet(waiting') /\ Cardinality(waiting') = Cardinality(waiting) - 1
  BY <1>1, <1>2, FS_RemoveElement
<1>4. queue' \in Seq(Entry) /\ Len(queue') = Len(queue) + 1 /\ Len(queue) \in Nat
  BY <1>1 DEF JobsOK
<1>5. Len(queue') + Cardinality(waiting') <= MaxQueue
  BY <1>2, <1>3, <1>4 DEF JobsOK
<1>. QED
  BY <1>1, <1>3, <1>4, <1>5 DEF JobsOK

LEMMA JobsDaily == ASSUME JobsOK, DailyCleanup PROVE JobsOK'
<1> DEFINE day == [i \in 1 .. 3 |-> [job |-> <<"bets", "sessions", "ledger">>[i], retries |-> 0]]
<1>1. day \in Seq(Entry) /\ Len(day) = 3
  <2>1. \A i \in 1 .. 3 : <<"bets", "sessions", "ledger">>[i] \in Job
    BY DEF Job
  <2>2. \A i \in 1 .. 3 : day[i] \in Entry
    BY <2>1 DEF Entry
  <2>3. day \in [1 .. 3 -> Entry]
    BY <2>2
  <2>. QED
    BY <2>3
<1>2. queue' = queue \o day /\ waiting' = waiting
  BY DEF DailyCleanup
<1>. HIDE DEF day
<1>3. queue' \in Seq(Entry) /\ Len(queue') = Len(queue) + 3 /\ Len(queue) \in Nat
  <2>1. queue \in Seq(Entry)
    BY DEF JobsOK
  <2>. QED
    <3>1. queue \o day \in Seq(Entry)
      BY <1>1, <2>1, ConcatProperties
    <3>2. Len(queue \o day) = Len(queue) + Len(day)
      BY <1>1, <2>1, ConcatProperties
    <3>3. Len(queue) \in Nat
      BY <2>1, LenProperties
    <3>. QED
      BY <1>1, <1>2, <3>1, <3>2, <3>3
<1>4. Cardinality(waiting) \in Nat
  BY FS_CardinalityType DEF JobsOK
<1>5. Len(queue') + Cardinality(waiting) <= MaxQueue
  BY <1>3, <1>4 DEF DailyCleanup
<1>. QED
  BY <1>2, <1>3, <1>5 DEF JobsOK

LEMMA JobsNext == JobsOK /\ [Next]_vars => JobsOK'
<1>. SUFFICES ASSUME JobsOK, [Next]_vars PROVE JobsOK'
  OBVIOUS
<1>1. CASE \E s \in SessionIds : Round(s)
  BY <1>1 DEF Round, OpenSession, CloseBetting, Settle, FailSession, Recover, PlaceBet, jobs,
     JobsOK
<1>2. CASE (\E b \in BetIds : DeletePlayer(b)) \/ PassTime \/ UNCHANGED vars
  BY <1>2 DEF DeletePlayer, PassTime, vars, jobs, JobsOK
<1>. QED
  BY <1>1, <1>2, JobsDaily, JobsRun, JobsFail, JobsRetry DEF Next


-----------------------------------------------------------------------------
(* The tables.  The two invariants are inductive together: a bet is placed *)
(* in a session that takes bets, which is in game_sessions and therefore   *)
(* not in the archive.                                                     *)

TablesInv == TablesOK /\ NothingLost /\ ArchivedRoundIsFinal

\* What a bet and a session are when they are there.
LEMMA Rows ==
  ASSUME TablesOK
  PROVE  /\ \A b \in BetIds : bets[b] # None => bets[b] \in Bet
         /\ \A s \in SessionIds : sessions[s] # None => sessions[s] \in SessionStatus
         /\ \A x \in Bet : x # None
         /\ \A x \in SessionStatus : x # None
  BY DEF TablesOK

LEMMA TablesInit == Init => TablesInv
<1>. SUFFICES ASSUME Init PROVE TablesInv
  OBVIOUS
<1>1. TablesOK
  BY DEF Init, TablesOK
<1>2. NothingLost /\ ArchivedRoundIsFinal
  BY DEF Init, NothingLost, ArchivedRoundIsFinal
<1>. QED
  BY <1>1, <1>2 DEF TablesInv

\* A step that changes the state of a session in its table, and of bets in theirs, keeps
\* every row where it is.
LEMMA RowsStay ==
  ASSUME TablesInv, TablesOK',
         \A b \in BetIds : (bets'[b] = None <=> bets[b] = None)
                           /\ (bets[b] # None => bets'[b].session = bets[b].session),
         \A s \in SessionIds : sessions'[s] = None <=> sessions[s] = None,
         UNCHANGED <<betsArchive, sessionsArchive, ledger, age>>
  PROVE  TablesInv'
<1>1. NothingLost'
  BY DEF TablesInv, NothingLost
<1>2. \A s \in SessionIds : BetsOf(s)' = BetsOf(s)
  BY DEF BetsOf
<1>3. ArchivedRoundIsFinal'
  BY <1>2 DEF TablesInv, ArchivedRoundIsFinal
<1>. QED
  BY <1>1, <1>3 DEF TablesInv

\* What the steps of a round do to one session.
LEMMA SessionSet ==
  ASSUME TablesOK, NEW s \in SessionIds, NEW st \in SessionStatus, sessions[s] # None,
         sessions' = [sessions EXCEPT ![s] = st]
  PROVE  /\ sessions' \in [SessionIds -> SessionStatus \cup {None}]
         /\ \A x \in SessionIds : sessions'[x] = None <=> sessions[x] = None
  BY Rows DEF TablesOK

LEMMA RoundNext == ASSUME TablesInv, NEW s \in SessionIds, Round(s) PROVE TablesInv'
<1>0. TablesOK
  BY DEF TablesInv
<1>1. CASE OpenSession(s)
  <2>1. \A x \in SessionIds : sessions'[x] = IF x = s THEN "BETTING" ELSE sessions[x]
    BY <1>0, <1>1 DEF OpenSession, TablesOK
  <2>2. TablesOK'
    BY <1>0, <1>1 DEF OpenSession, TablesOK, SessionStatus
  <2>3. NothingLost'
    BY <1>1, <2>1 DEF OpenSession, TablesInv, NothingLost, SessionStatus
  <2>4. ArchivedRoundIsFinal'
    BY <1>1 DEF OpenSession, TablesInv, ArchivedRoundIsFinal, BetsOf
  <2>. QED
    BY <2>2, <2>3, <2>4 DEF TablesInv
<1>2. CASE CloseBetting(s) \/ FailSession(s)
  <2>1. PICK st \in SessionStatus : sessions' = [sessions EXCEPT ![s] = st]
    BY <1>2 DEF CloseBetting, FailSession, SessionStatus
  <2>2. sessions[s] # None
    BY <1>0, <1>2, Rows DEF CloseBetting, FailSession, SessionStatus
  <2>3. TablesOK'
    BY <1>0, <1>2, <2>1, <2>2, SessionSet DEF CloseBetting, FailSession, TablesOK
  <2>4. /\ bets' = bets /\ \A x \in SessionIds : sessions'[x] = None <=> sessions[x] = None
        /\ UNCHANGED <<betsArchive, sessionsArchive, ledger, age>>
    BY <1>0, <1>2, <2>1, <2>2, SessionSet DEF CloseBetting, FailSession
  <2>. QED
    BY <2>3, <2>4, RowsStay
<1>3. CASE Settle(s) \/ Recover(s)
  <2>1. PICK st \in {"COMPLETED", "FAILED"} : sessions' = [sessions EXCEPT ![s] = st]
    BY <1>3 DEF Settle, Recover
  <2>2. sessions[s] # None
    BY <1>0, <1>3, Rows DEF Settle, Recover, SessionStatus
  <2>3. /\ sessions' \in [SessionIds -> SessionStatus \cup {None}]
        /\ \A x \in SessionIds : sessions'[x] = None <=> sessions[x] = None
    BY <1>0, <2>1, <2>2, SessionSet DEF SessionStatus
  <2>4. /\ bets' \in [BetIds -> Bet \cup {None}]
        /\ \A b \in BetIds : (bets'[b] = None <=> bets[b] = None)
                             /\ (bets[b] # None => bets'[b].session = bets[b].session)
    <3>1. PICK f \in [BetIds -> {"WON", "LOST", "REFUNDED"}] :
            bets' = [b \in BetIds |->
              IF b \in PlacedIn(s) THEN [bets[b] EXCEPT !.status = f[b]] ELSE bets[b]]
      <4>1. CASE Recover(s)
        <5>1. [b \in BetIds |-> "REFUNDED"] \in [BetIds -> {"WON", "LOST", "REFUNDED"}]
          OBVIOUS
        <5>2. bets' = [b \in BetIds |->
                IF b \in PlacedIn(s)
                THEN [bets[b] EXCEPT !.status = [x \in BetIds |-> "REFUNDED"][b]] ELSE bets[b]]
          BY <4>1 DEF Recover
        <5>. QED
          BY <5>1, <5>2
      <4>2. CASE Settle(s)
        <5>1. PICK won \in SUBSET PlacedIn(s) : bets' = [b \in BetIds |->
                IF b \in PlacedIn(s)
                THEN [bets[b] EXCEPT !.status = IF b \in won THEN "WON" ELSE "LOST"]
                ELSE bets[b]]
          BY <4>2 DEF Settle
        <5> DEFINE f == [b \in BetIds |-> IF b \in won THEN "WON" ELSE "LOST"]
        <5>2. f \in [BetIds -> {"WON", "LOST", "REFUNDED"}]
          OBVIOUS
        <5>3. bets' = [b \in BetIds |->
                IF b \in PlacedIn(s) THEN [bets[b] EXCEPT !.status = f[b]] ELSE bets[b]]
          BY <5>1
        <5>. QED
          BY <5>2, <5>3
      <4>. QED
        BY <1>3, <4>1, <4>2
    <3>2. \A b \in PlacedIn(s) : bets[b] \in Bet
      BY <1>0, Rows DEF PlacedIn, BetsOf
    <3>3. \A b \in PlacedIn(s) :
            /\ [bets[b] EXCEPT !.status = f[b]] \in Bet
            /\ [bets[b] EXCEPT !.status = f[b]].session = bets[b].session
      BY <3>2 DEF Bet, PlacedIn, BetsOf
    <3>4. \A b \in PlacedIn(s) : bets[b] # None
      BY DEF PlacedIn, BetsOf
    <3>5. bets \in [BetIds -> Bet \cup {None}]
      BY <1>0 DEF TablesOK
    <3>6. \A b \in BetIds : bets'[b] =
            IF b \in PlacedIn(s) THEN [bets[b] EXCEPT !.status = f[b]] ELSE bets[b]
      BY <3>1
    <3>7. \A b \in BetIds : bets'[b] \in Bet \cup {None}
      BY <3>3, <3>5, <3>6
    <3>. QED
      BY <1>0, <3>1, <3>3, <3>4, <3>6, <3>7, Rows
  <2>5. UNCHANGED <<betsArchive, sessionsArchive, ledger, ledgerArchive, deleted, age>>
    BY <1>3 DEF Settle, Recover
  <2>6. TablesOK'
    BY <1>0, <2>3, <2>4, <2>5 DEF TablesOK
  <2>. QED
    BY <2>3, <2>4, <2>5, <2>6, RowsStay
<1>4. ASSUME NEW b \in BetIds, PlaceBet(b, s) PROVE TablesInv'
  <2> DEFINE x == [session |-> s, status |-> "PLACED"]
  <2>1. x \in Bet /\ x.session = s
    BY DEF Bet
  <2>2. bets' = [bets EXCEPT ![b] = x] /\ ledger' = ledger \cup {b} /\ b \notin deleted
        /\ betsArchive[b] = None /\ sessions[s] = "BETTING"
        /\ UNCHANGED <<betsArchive, sessions, sessionsArchive, ledgerArchive, deleted, age>>
    BY <1>4 DEF PlaceBet
  <2>. HIDE DEF x
  <2>3. \A y \in BetIds : bets'[y] = IF y = b THEN x ELSE bets[y]
    BY <1>0, <2>2 DEF TablesOK
  <2>4. TablesOK'
    BY <1>0, <2>1, <2>2 DEF TablesOK
  <2>5. x # None /\ sessionsArchive[s] = None
    BY <1>0, <2>1, <2>2, Rows DEF TablesInv, NothingLost, SessionStatus
  <2>6. NothingLost'
    BY <2>2, <2>3, <2>5 DEF TablesInv, NothingLost
  <2>7. \A y \in SessionIds : y # s => BetsOf(y)' = BetsOf(y)
    BY <1>4, <2>1, <2>3 DEF BetsOf, PlaceBet
  <2>8. ArchivedRoundIsFinal'
    BY <2>2, <2>5, <2>7 DEF TablesInv, ArchivedRoundIsFinal
  <2>. QED
    BY <2>4, <2>6, <2>8 DEF TablesInv
<1>. QED
  BY <1>1, <1>2, <1>3, <1>4 DEF Round

LEMMA DeleteNext == ASSUME TablesInv, NEW b \in BetIds, DeletePlayer(b) PROVE TablesInv'
<1>0. TablesOK
  BY DEF TablesInv
<1>1. \A x \in BetIds : bets'[x] = IF x = b THEN None ELSE bets[x]
  BY <1>0 DEF DeletePlayer, Removed, TablesOK
<1>2. bets' \in [BetIds -> Bet \cup {None}]
  BY <1>0 DEF DeletePlayer, Removed, TablesOK
<1>3. TablesOK'
  BY <1>0, <1>2 DEF DeletePlayer, TablesOK
<1>4. NothingLost'
  BY <1>1 DEF DeletePlayer, TablesInv, NothingLost
<1>5. \A s \in SessionIds : BetsOf(s)' \subseteq BetsOf(s)
  BY <1>1 DEF BetsOf
<1>6. ArchivedRoundIsFinal'
  BY <1>5 DEF DeletePlayer, TablesInv, ArchivedRoundIsFinal
<1>. QED
  BY <1>3, <1>4, <1>6 DEF TablesInv

LEMMA TimeNext == ASSUME TablesInv, PassTime PROVE TablesInv'
<1>0. TablesOK /\ UNCHANGED tables
  BY DEF TablesInv, PassTime
<1>1. TablesOK' /\ \A s \in SessionIds :
                      age'[s] = age[s] \/ sessions[s] \in Finished
  <2>1. PICK x \in BetIds \cup SessionIds :
          age[x] \in 0 .. 1 /\ age' = [age EXCEPT ![x] = @ + 1]
          /\ (x \in BetIds \/ sessions[x] \in Finished)
    <3>1. \A x \in BetIds \cup SessionIds : age[x] \in 0 .. 2
      BY <1>0 DEF TablesOK
    <3>2. CASE \E b \in BetIds : age[b] < 2 /\ age' = [age EXCEPT ![b] = @ + 1]
      <4>1. PICK b \in BetIds : age[b] < 2 /\ age' = [age EXCEPT ![b] = @ + 1]
        BY <3>2
      <4>2. age[b] \in 0 .. 1
        BY <3>1, <4>1
      <4>. QED
        BY <4>1, <4>2
    <3>3. CASE \E s \in SessionIds : sessions[s] \in Finished /\ age[s] = 0
                                     /\ age' = [age EXCEPT ![s] = 1]
      <4>1. PICK s \in SessionIds : sessions[s] \in Finished /\ age[s] = 0
                                   /\ age' = [age EXCEPT ![s] = 1]
        BY <3>3
      <4>2. age[s] \in 0 .. 1 /\ age' = [age EXCEPT ![s] = @ + 1]
        BY <4>1
      <4>. QED
        BY <4>1, <4>2
    <3>. QED
      BY <3>2, <3>3 DEF PassTime
  <2>2. age \in [BetIds \cup SessionIds -> 0 .. 2]
    BY <1>0 DEF TablesOK
  <2>3. age' \in [BetIds \cup SessionIds -> 0 .. 2]
    BY <2>1, <2>2
  <2>4. TablesOK'
    BY <1>0, <2>3 DEF TablesOK, tables
  <2>. QED
    BY <2>1, <2>2, <2>4
<1>2. NothingLost'
  BY <1>0, <1>1, Rows DEF TablesInv, NothingLost, tables, Finished, SessionStatus
<1>3. ArchivedRoundIsFinal'
  BY <1>0 DEF TablesInv, ArchivedRoundIsFinal, tables, BetsOf
<1>. QED
  BY <1>1, <1>2, <1>3 DEF TablesInv

LEMMA DoNext == ASSUME TablesInv, NEW job, Do(job) PROVE TablesInv'
<1>0. TablesOK
  BY DEF TablesInv
<1>1. CASE ArchiveOldBets
  <2> DEFINE moved == {b \in OldBets : betsArchive[b] = None}
  <2>1. moved \in SUBSET BetIds /\ \A b \in moved : bets[b] # None
    BY DEF OldBets
  <2>2. betsArchive' = Added(betsArchive, bets, moved) /\ bets' = Removed(bets, moved)
        /\ UNCHANGED <<sessions, sessionsArchive, ledger, ledgerArchive, deleted, age>>
    BY <1>1 DEF ArchiveOldBets
  <2>. HIDE DEF moved
  <2>3. /\ betsArchive' \in [BetIds -> Bet \cup {None}] /\ bets' \in [BetIds -> Bet \cup {None}]
        /\ \A b \in BetIds : betsArchive'[b] = IF b \in moved THEN bets[b] ELSE betsArchive[b]
        /\ \A b \in BetIds : bets'[b] = IF b \in moved THEN None ELSE bets[b]
    <3>1. bets \in [BetIds -> Bet \cup {None}] /\ betsArchive \in [BetIds -> Bet \cup {None}]
      BY <1>0 DEF TablesOK
    <3>. QED
      BY <2>1, <2>2, <3>1 DEF Added, Removed
  <2>4. TablesOK'
    BY <1>0, <2>2, <2>3 DEF TablesOK
  <2>5. NothingLost'
    BY <2>1, <2>2, <2>3 DEF TablesInv, NothingLost
  <2>6. \A s \in SessionIds : BetsOf(s)' \subseteq BetsOf(s)
    BY <2>3 DEF BetsOf
  <2>7. ArchivedRoundIsFinal'
    BY <2>2, <2>6 DEF TablesInv, ArchivedRoundIsFinal
  <2>. QED
    BY <2>4, <2>5, <2>7 DEF TablesInv
<1>2. CASE ArchiveOldGameSessions
  <2> DEFINE moved == {s \in Eligible : sessionsArchive[s] = None}
  <2>1. moved \in SUBSET SessionIds
        /\ \A s \in moved : sessions[s] \in Finished /\ BetsOf(s) = {}
    BY DEF Eligible
  <2>2. sessionsArchive' = Added(sessionsArchive, sessions, moved)
        /\ sessions' = Removed(sessions, moved)
        /\ UNCHANGED <<bets, betsArchive, ledger, ledgerArchive, deleted, age>>
    BY <1>2 DEF ArchiveOldGameSessions
  <2>. HIDE DEF moved
  <2>3. /\ sessionsArchive' \in [SessionIds -> SessionStatus \cup {None}]
        /\ sessions' \in [SessionIds -> SessionStatus \cup {None}]
        /\ \A s \in SessionIds :
             sessionsArchive'[s] = IF s \in moved THEN sessions[s] ELSE sessionsArchive[s]
        /\ \A s \in SessionIds : sessions'[s] = IF s \in moved THEN None ELSE sessions[s]
    <3>1. /\ sessions \in [SessionIds -> SessionStatus \cup {None}]
          /\ sessionsArchive \in [SessionIds -> SessionStatus \cup {None}]
      BY <1>0 DEF TablesOK
    <3>. QED
      BY <2>1, <2>2, <3>1 DEF Added, Removed
  <2>4. TablesOK'
    <3>1. /\ sessionsArchive' \in [SessionIds -> SessionStatus \cup {None}]
          /\ sessions' \in [SessionIds -> SessionStatus \cup {None}]
      BY <2>3
    <3>. QED
      BY <1>0, <2>2, <3>1 DEF TablesOK
  <2>5. NothingLost'
    <3>1. \A s \in moved : sessions[s] # None
      BY <1>0, <2>1, Rows DEF Finished, SessionStatus
    <3>. QED
      BY <2>2, <2>3, <3>1 DEF TablesInv, NothingLost
  <2>6. \A s \in SessionIds : BetsOf(s)' = BetsOf(s)
    BY <2>2 DEF BetsOf
  <2>7. ArchivedRoundIsFinal'
    BY <2>1, <2>3, <2>6 DEF TablesInv, ArchivedRoundIsFinal
  <2>. QED
    BY <2>4, <2>5, <2>7 DEF TablesInv
<1>3. CASE CopyOldWalletTransactions
  <2>1. TablesOK'
    BY <1>0, <1>3 DEF CopyOldWalletTransactions, TablesOK
  <2>2. NothingLost' /\ ArchivedRoundIsFinal'
    BY <1>3 DEF CopyOldWalletTransactions, TablesInv, NothingLost, ArchivedRoundIsFinal, BetsOf
  <2>. QED
    BY <2>1, <2>2 DEF TablesInv
<1>. QED
  BY <1>1, <1>2, <1>3 DEF Do

LEMMA TablesNext == TablesInv /\ [Next]_vars => TablesInv'
<1>. SUFFICES ASSUME TablesInv, [Next]_vars PROVE TablesInv'
  OBVIOUS
<1>1. ASSUME UNCHANGED <<tables, age>> PROVE TablesInv'
  BY <1>1 DEF tables, TablesInv, TablesOK, NothingLost, ArchivedRoundIsFinal, BetsOf
<1>2. CASE DailyCleanup \/ (\E e \in Entry : Retry(e)) \/ UNCHANGED vars
  BY <1>1, <1>2 DEF DailyCleanup, Retry, vars
<1>3. ASSUME NEW job, RunJob(job) \/ FailJob(job) \/ LoseJob(job) PROVE TablesInv'
  BY <1>1, <1>3, DoNext DEF RunJob, FailJob, LoseJob
<1>. QED
  BY <1>2, <1>3, RoundNext, DeleteNext, TimeNext DEF Next

\* The rows and the jobs keep their types, and no more jobs are queued or waiting than the
\* queue takes, whatever fails, is lost or retried.
THEOREM ArchiveTypes == Spec => []TypeOK
<1>1. TablesInv => TablesOK
  BY DEF TablesInv
<1>. QED
  BY <1>1, BothHalves, JobsInit, JobsNext, TablesInit, TablesNext, PTL DEF Spec

\* In whatever order the jobs run, fail and are retried, no bet and no session is lost
\* between its table and the archive, or in both.
THEOREM RowsKept == Spec => []NothingLost
<1>1. TablesInv => NothingLost
  BY DEF TablesInv
<1>. QED
  BY <1>1, TablesInit, TablesNext, PTL DEF Spec

\* A session is archived only when it is over and its bets are gone before it, although the
\* job for bets may have failed and come after the job for sessions.
THEOREM FinalInArchive == Spec => []ArchivedRoundIsFinal
<1>1. TablesInv => ArchivedRoundIsFinal
  BY DEF TablesInv
<1>. QED
  BY <1>1, TablesInit, TablesNext, PTL DEF Spec
=============================================================================
