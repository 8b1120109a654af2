--------------------------- MODULE RowLocksProofs ---------------------------
(***************************************************************************)
(* What holds of RowLocks for any number of wallets, bets, games and       *)
(* transactions: the types, that a row is locked by one transaction at     *)
(* most, and which transactions can be to blame for a circle: never a bet  *)
(* or a transfer.  That every transaction ends is liveness and is left to  *)
(* TLC.                                                                    *)
(***************************************************************************)
EXTENDS RowLocks, FiniteSetTheorems, SequenceTheorems, WellFoundedInduction, TLAPS

USE RowLocksAssumption

-----------------------------------------------------------------------------
(* The plans of the transactions, and what each locks.                     *)

Groups(R) == Seq(R) \ {<<>>}

WalletsOK == pool \in WalletIds /\ wallet \in [Bets -> WalletIds \ {pool}]

\* The order in which bets and transfers lock rows.
Before(r, s) ==
  /\ s \in WalletRows
  /\ r \in SessionRows \/ (r \in WalletRows /\ r.id < s.id)

\* The rows of g come one after the other, and after those of R.
Ascends(g, R) ==
  /\ g \in Groups(WalletRows \cup SessionRows)
  /\ \A i \in 1..Len(g) : \A r \in R : Before(r, g[i])
  /\ \A i, j \in 1..Len(g) : i < j => Before(g[i], g[j])

SchedulersOwn == \A t \in Transactions : kind[t] \in {"settle", "recover"} => t = Scheduler

IdleHoldNothing ==
  \A t \in Transactions : kind[t] \in {None, "ended"} => plan[t] = <<>> /\ held[t] = {}

\* A bet or a transfer locks its rows in order.
OneAscendingGroup ==
  \A t \in Transactions : kind[t] \in {"bet", "transfer"} =>
    /\ held[t] \subseteq WalletRows \cup SessionRows
    /\ plan[t] = <<>> \/ (Tail(plan[t]) = <<>> /\ Ascends(Head(plan[t]), held[t]))

\* The scheduler locks wallets and bets, and a session last.
LastRow == {<<>>} \cup {<<<<s>>>> : s \in SessionRows}

SessionAtEnd(p, h) ==
  /\ \E q \in Seq(Groups(WalletRows \cup BetRows)), r \in LastRow : p = q \o r
  /\ p = <<>> \/ h \subseteq WalletRows \cup BetRows

SessionLast ==
  \A t \in Transactions : kind[t] \in {"settle", "recover"} => SessionAtEnd(plan[t], held[t])

\* A deletion locks bets, then wallets.
WalletsAtEnd(p, h) ==
  /\ h \subseteq WalletRows \cup BetRows
  /\ \E q \in Seq(Groups(BetRows)), r \in Seq(Groups(WalletRows)) :
       p = q \o r /\ (q = <<>> \/ h \subseteq BetRows)

BetsFirst == \A t \in Transactions : kind[t] = "delete" => WalletsAtEnd(plan[t], held[t])

OrderInv == SchedulersOwn /\ IdleHoldNothing /\ OneAscendingGroup /\ SessionLast /\ BetsFirst


-----------------------------------------------------------------------------
(* Rows, groups of rows and plans.                                         *)

\* Two wallets in the order of their ids.
LEMMA OrderedWallets ==
  ASSUME NEW v \in WalletIds, NEW w \in WalletIds, v # w
  PROVE  /\ Ordered(v, w) \in Groups(WalletRows)
         /\ Len(Ordered(v, w)) = 2
         /\ Before(Ordered(v, w)[1], Ordered(v, w)[2])
<1>1. Wallet(v) \in WalletRows /\ Wallet(w) \in WalletRows
  BY DEF WalletRows
<1>2. v \in Int /\ w \in Int
  OBVIOUS
<1>3. CASE v < w
  <2>1. Ordered(v, w) = <<Wallet(v), Wallet(w)>>
    BY <1>3 DEF Ordered
  <2>2. Before(Wallet(v), Wallet(w))
    BY <1>1, <1>3 DEF Before, Wallet
  <2> QED
    BY <1>1, <2>1, <2>2 DEF Groups
<1>4. CASE ~ v < w
  <2>1. Ordered(v, w) = <<Wallet(w), Wallet(v)>>
    BY <1>4 DEF Ordered
  <2>2. Before(Wallet(w), Wallet(v))
    BY <1>1, <1>2, <1>4 DEF Before, Wallet
  <2> QED
    BY <1>1, <2>1, <2>2 DEF Groups
<1> QED
  BY <1>3, <1>4

\* A group of fewer tables is one of more.
LEMMA GroupsGrow ==
  ASSUME NEW R, NEW S, R \subseteq S
  PROVE  Groups(R) \subseteq Groups(S)
BY SeqMonotonic DEF Groups

LEMMA PlansGrow ==
  ASSUME NEW R, NEW S, R \subseteq S
  PROVE  Seq(Groups(R)) \subseteq Seq(Groups(S))
BY GroupsGrow, SeqMonotonic

\* The groups of a set, one after the other, are a sequence of groups.
LEMMA EachGroup ==
  ASSUME NEW D, IsFiniteSet(D), NEW S, NEW order \in SetToSeqs(D), NEW group \in [D -> S]
  PROVE  Each(order, group) \in Seq(S)
<1> DEFINE n == Cardinality(D)
<1>1. n \in Nat
  BY FS_CardinalityType
<1>2. order \in [1..n -> D]
  BY DEF SetToSeqs
<1>3. Each(order, group) \in [1..n -> S]
  BY <1>2 DEF Each
<1> QED
  BY <1>1, <1>3, SeqDef

\* The tables of a plan's rows.
LEMMA RowsOfTables ==
  /\ WalletRows \cup BetRows \subseteq Rows
  /\ WalletRows \cup SessionRows \subseteq Rows
  /\ \A w \in WalletIds : Wallet(w) \in WalletRows
  /\ \A b \in Bets : Bet(b) \in BetRows
  /\ WalletRows \cap BetRows = {} /\ WalletRows \cap SessionRows = {}
  /\ BetRows \cap SessionRows = {}
<1>1. \A r \in WalletRows : r.table = "wallets"
  BY DEF WalletRows, Wallet
<1>2. \A r \in BetRows : r.table = "bets"
  BY DEF BetRows, Bet
<1>3. \A r \in SessionRows : r.table = "game_sessions"
  BY DEF SessionRows, Session
<1>4. WalletRows \cap BetRows = {} /\ WalletRows \cap SessionRows = {} /\ BetRows \cap SessionRows = {}
  BY <1>1, <1>2, <1>3
<1>5. (\A w \in WalletIds : Wallet(w) \in WalletRows) /\ \A b \in Bets : Bet(b) \in BetRows
  BY DEF WalletRows, BetRows
<1> QED
  BY <1>4, <1>5 DEF Rows

\* A bet's own plan: its session, then the wallets of its player and the pool.
LEMMA PlaceBetPlans ==
  ASSUME WalletsOK, NEW p \in PlaceBet
  PROVE  \E g : p = <<g>> /\ Ascends(g, {})
<1>1. PICK game \in Games, w \in Players : p = <<<<Session(game)>> \o Ordered(w, pool)>>
  BY DEF PlaceBet
<1>2. w \in WalletIds /\ pool \in WalletIds /\ w # pool
  BY DEF WalletsOK, Players
<1> DEFINE o == Ordered(w, pool)
           R == WalletRows \cup SessionRows
           g == <<Session(game)>> \o o
<1>3. /\ o \in Groups(WalletRows) /\ Len(o) = 2 /\ Before(o[1], o[2])
  BY <1>2, OrderedWallets
<1>4. o[1] \in WalletRows /\ o[2] \in WalletRows
  <2>1. o \in Seq(WalletRows) /\ 1 \in 1..Len(o) /\ 2 \in 1..Len(o)
    BY <1>3 DEF Groups
  <2> HIDE DEF o
  <2> QED
    BY <2>1, ElementOfSeq
<1>5. o \in Seq(R) /\ <<Session(game)>> \in Seq(R) /\ Session(game) \in SessionRows
  <2>1. Session(game) \in SessionRows
    BY DEF SessionRows
  <2> QED
    BY <1>3, <2>1, GroupsGrow DEF Groups
<1>6. Len(<<Session(game)>>) = 1 /\ <<Session(game)>>[1] = Session(game)
  OBVIOUS
<1> HIDE DEF o, R
<1>7. /\ g \in Seq(R) /\ Len(g) = 3
      /\ g[1] = Session(game) /\ g[2] = o[1] /\ g[3] = o[2]
  <2> DEFINE s == <<Session(game)>>
  <2>1. s \in Seq(R) /\ Len(s) = 1 /\ s[1] = Session(game)
    BY <1>5, <1>6
  <2>2. Len(o) = 2 /\ o \in Seq(R)
    BY <1>3, <1>5
  <2> HIDE DEF s
  <2>3. /\ s \o o \in Seq(R) /\ Len(s \o o) = Len(s) + Len(o)
        /\ \A i \in 1..(Len(s) + Len(o)) :
             (s \o o)[i] = IF i <= Len(s) THEN s[i] ELSE o[i - Len(s)]
    BY <2>1, <2>2, ConcatProperties
  <2>4. (s \o o)[1] = s[1] /\ (s \o o)[2] = o[1] /\ (s \o o)[3] = o[2]
    BY <2>1, <2>2, <2>3
  <2>5. s \o o = g
    BY DEF s
  <2> QED
    BY <2>1, <2>2, <2>3, <2>4, <2>5
<1>8. Before(g[1], g[2]) /\ Before(g[1], g[3]) /\ Before(g[2], g[3])
  BY <1>3, <1>4, <1>5, <1>7 DEF Before
<1>9. g # <<>>
  BY <1>7
<1> HIDE DEF g
<1>10. Ascends(g, {})
  <2>1. g \in Groups(WalletRows \cup SessionRows)
    BY <1>7, <1>9 DEF Groups, R
  <2>2. \A i, j \in 1..Len(g) : i < j => Before(g[i], g[j])
    <3>1. SUFFICES ASSUME NEW i \in 1..3, NEW j \in 1..3, i < j
                   PROVE  Before(g[i], g[j])
      BY <1>7
    <3>2. (i = 1 /\ j = 2) \/ (i = 1 /\ j = 3) \/ (i = 2 /\ j = 3)
      BY <3>1
    <3> QED
      BY <1>8, <3>2
  <2> QED
    BY <2>1, <2>2 DEF Ascends
<1>11. p = <<g>>
  BY <1>1 DEF g, o
<1> QED
  BY <1>10, <1>11

\* A transfer's plan: two wallets in order.
LEMMA TransferPlans ==
  ASSUME WalletsOK, NEW p \in Transfer
  PROVE  \E g : p = <<g>> /\ Ascends(g, {})
<1>1. PICK v \in Players : \E w \in Players \ {v} : p = <<Ordered(v, w)>>
  BY DEF Transfer
<1>2. PICK w \in Players \ {v} : p = <<Ordered(v, w)>>
  BY <1>1
<1> DEFINE g == Ordered(v, w)
<1>3. v \in WalletIds /\ w \in WalletIds /\ v # w
  BY DEF Players
<1>4. g \in Groups(WalletRows) /\ Len(g) = 2 /\ Before(g[1], g[2])
  BY <1>3, OrderedWallets
<1>5. g \in Groups(WalletRows \cup SessionRows)
  BY <1>4, GroupsGrow
<1> HIDE DEF g
<1>6. \A i, j \in 1..Len(g) : i < j => Before(g[i], g[j])
  <2>1. SUFFICES ASSUME NEW i \in 1..2, NEW j \in 1..2, i < j
                 PROVE  Before(g[i], g[j])
    BY <1>4
  <2>2. i = 1 /\ j = 2
    BY <2>1
  <2> QED
    BY <1>4, <2>2
<1>7. Ascends(g, {})
  BY <1>5, <1>6 DEF Ascends
<1> QED
  BY <1>2, <1>7 DEF g


\* What is locked together with one bet.
LEMMA BetGroup ==
  ASSUME WalletsOK, NEW b \in Bets
  PROVE  /\ Ordered(wallet[b], pool) \o <<Bet(b)>> \in Groups(WalletRows \cup BetRows)
         /\ <<>> \o <<Bet(b)>> \in Groups(WalletRows \cup BetRows)
         /\ <<Bet(b)>> \in Groups(WalletRows \cup BetRows)
<1> DEFINE R == WalletRows \cup BetRows
           o == Ordered(wallet[b], pool)
           s == <<Bet(b)>>
<1>1. Bet(b) \in R
  BY RowsOfTables
<1>2. wallet[b] \in WalletIds /\ pool \in WalletIds /\ wallet[b] # pool
  BY DEF WalletsOK
<1>3. o \in Groups(WalletRows)
  BY <1>2, OrderedWallets
<1>4. o \in Seq(R)
  BY <1>3, GroupsGrow DEF Groups
<1>5. s \in Seq(R) /\ Len(s) = 1
  BY <1>1
<1>6. s # <<>>
  BY <1>5
<1> HIDE DEF R, o, s
<1>7. o \o s \in Seq(R) /\ Len(o \o s) = Len(o) + 1 /\ Len(o) \in Nat
  BY <1>4, <1>5, ConcatProperties, LenProperties
<1>8. o \o s # <<>>
  BY <1>7
<1>9. <<>> \o s = s
  BY <1>5, ConcatEmptySeq
<1> QED
  BY <1>5, <1>6, <1>7, <1>8, <1>9 DEF Groups, R, o, s

\* A settlement's plan: wallets and bets.
LEMMA SettlePlans ==
  ASSUME WalletsOK, NEW p \in SettleBets
  PROVE  p \in Seq(Groups(WalletRows \cup BetRows))
<1> DEFINE G == Groups(WalletRows \cup BetRows)
<1>1. PICK won \in SUBSET Bets, order \in SetToSeqs(Bets) :
        p = TopUp(won) \o Each(order, SettleBet(won))
  BY DEF SettleBets
<1>2. TopUp(won) \in Seq(G)
  <2>1. Wallet(pool) \in WalletRows \cup BetRows
    BY RowsOfTables DEF WalletsOK
  <2>2. <<Wallet(pool)>> \in G
    BY <2>1 DEF Groups
  <2> HIDE DEF G
  <2> QED
    BY <2>2 DEF TopUp
<1>3. SettleBet(won) \in [Bets -> G]
  <2>1. ASSUME NEW b \in Bets
        PROVE  (IF b \in won THEN Ordered(wallet[b], pool) ELSE <<>>) \o <<Bet(b)>> \in G
    <3>1. CASE b \in won
      BY <3>1, BetGroup
    <3>2. CASE b \notin won
      BY <3>2, BetGroup
    <3> QED
      BY <3>1, <3>2
  <2> QED
    BY <2>1 DEF SettleBet
<1> HIDE DEF G
<1>4. Each(order, SettleBet(won)) \in Seq(G)
  BY <1>3, EachGroup
<1>5. p \in Seq(G)
  BY <1>1, <1>2, <1>4, ConcatProperties
<1> QED
  BY <1>5 DEF G

\* A recovery's plan: wallets and bets, then the session.
LEMMA RecoverPlans ==
  ASSUME WalletsOK, NEW p \in Recover
  PROVE  \E q \in Seq(Groups(WalletRows \cup BetRows)), r \in LastRow : p = q \o r
<1> DEFINE G == Groups(WalletRows \cup BetRows)
<1>1. PICK order \in SetToSeqs(Bets), game \in Games : p = Each(order, RefundBet) \o CloseSession(game)
  BY DEF Recover
<1>2. RefundBet \in [Bets -> G]
  BY BetGroup DEF RefundBet
<1> HIDE DEF G
<1>3. Each(order, RefundBet) \in Seq(G)
  BY <1>2, EachGroup
<1>4. CloseSession(game) \in LastRow
  BY DEF CloseSession, LastRow, SessionRows
<1> QED
  BY <1>1, <1>3, <1>4 DEF G

\* A deletion's plan: bets, then wallets.
LEMMA DeletePlans ==
  ASSUME WalletsOK, NEW p \in DeleteAccounts
  PROVE  \E q \in Seq(Groups(BetRows)), r \in Seq(Groups(WalletRows)) : p = q \o r
<1> DEFINE G == Groups(BetRows)
           H == Groups(WalletRows)
<1>1. PICK gone \in SUBSET Players \ {{}} :
        p \in {q \o r : q \in DeleteBets(gone), r \in DeleteWallets(gone)}
  BY DEF DeleteAccounts
<1>2. PICK q \in DeleteBets(gone), r \in DeleteWallets(gone) : p = q \o r
  BY <1>1
<1>3. gone \subseteq WalletIds
  BY <1>1 DEF Players
<1>4. q \in Seq(G)
  <2> DEFINE theirs == {b \in Bets : wallet[b] \in gone}
             all == [b \in Bets |-> <<Bet(b)>>]
             few == [b \in theirs |-> <<Bet(b)>>]
  <2>1. PICK order \in SetToSeqs(theirs) : q = Each(order, all)
    BY DEF DeleteBets
  <2>2. IsFiniteSet(theirs)
    BY FS_Subset
  <2>3. Each(order, all) = Each(order, few)
    BY DEF SetToSeqs, Each
  <2>4. \A b \in theirs : <<Bet(b)>> \in G
    BY RowsOfTables DEF Groups
  <2>5. few \in [theirs -> G]
    BY <2>4
  <2> HIDE DEF G, all, few, theirs
  <2> QED
    BY <2>1, <2>2, <2>3, <2>5, EachGroup
<1>5. r \in Seq(H)
  <2> DEFINE rows == [w \in gone |-> <<Wallet(w)>>]
  <2>1. PICK order \in SetToSeqs(gone) : r = Each(order, rows)
    BY DEF DeleteWallets
  <2>2. IsFiniteSet(gone)
    BY <1>3, FS_Subset
  <2>3. \A w \in gone : <<Wallet(w)>> \in H
    BY <1>3, RowsOfTables DEF Groups
  <2>4. rows \in [gone -> H]
    BY <2>3
  <2> HIDE DEF H, rows
  <2> QED
    BY <2>1, <2>2, <2>4, EachGroup
<1> QED
  BY <1>2, <1>4, <1>5


\* The two parts of a plan are one.
LEMMA TwoParts ==
  ASSUME NEW R, NEW S, R \subseteq Rows, S \subseteq Rows,
         NEW q \in Seq(Groups(R)), NEW r \in Seq(Groups(S))
  PROVE  q \o r \in Seq(Groups(Rows))
<1> DEFINE G == Groups(Rows)
<1>1. q \in Seq(G) /\ r \in Seq(G)
  BY PlansGrow
<1> HIDE DEF G
<1>2. q \o r \in Seq(G)
  BY <1>1, ConcatProperties
<1> QED
  BY <1>2 DEF G

\* Nothing, or one session, is the end of a plan.
LEMMA LastRowTyped == LastRow \subseteq Seq(Groups(SessionRows))
<1> DEFINE G == Groups(SessionRows)
<1>1. \A s \in SessionRows : <<s>> \in G
  BY DEF Groups
<1> HIDE DEF G
<1>2. ASSUME NEW s \in SessionRows
      PROVE  <<<<s>>>> \in Seq(G)
  <2> DEFINE g == <<s>>
  <2>1. g \in G
    BY <1>1
  <2> HIDE DEF g
  <2>2. <<g>> \in Seq(G)
    BY <2>1
  <2> QED
    BY <2>2 DEF g
<1>3. <<>> \in Seq(G)
  BY EmptySeq
<1> QED
  BY <1>2, <1>3 DEF G, LastRow

\* A plan, by what the transaction does.
LEMMA PlansTyped ==
  ASSUME WalletsOK,
         NEW k \in {"bet", "transfer", "settle", "recover", "delete"}, NEW p \in Plans(k)
  PROVE  /\ p \in Seq(Groups(Rows))
         /\ k \in {"bet", "transfer"} => \E g : p = <<g>> /\ Ascends(g, {})
         /\ k \in {"settle", "recover"} => SessionAtEnd(p, {})
         /\ k = "delete" => WalletsAtEnd(p, {})
<1>1. ASSUME NEW g, p = <<g>>, Ascends(g, {})
      PROVE  p \in Seq(Groups(Rows))
  <2>1. g \in Groups(Rows)
    BY <1>1, RowsOfTables, GroupsGrow DEF Ascends
  <2> DEFINE G == Groups(Rows)
  <2>2. g \in G
    BY <2>1
  <2> HIDE DEF G
  <2>3. <<g>> \in Seq(G)
    BY <2>2
  <2> QED
    BY <1>1, <2>3 DEF G
<1>2. ASSUME NEW q \in Seq(Groups(WalletRows \cup BetRows)), NEW r \in LastRow, p = q \o r
      PROVE  p \in Seq(Groups(Rows)) /\ SessionAtEnd(p, {})
  <2>1. SessionRows \subseteq Rows /\ r \in Seq(Groups(SessionRows))
    BY LastRowTyped DEF Rows
  <2> QED
    BY <1>2, <2>1, TwoParts, RowsOfTables DEF SessionAtEnd
<1>3. CASE k = "bet"
  <2>1. \E g : p = <<g>> /\ Ascends(g, {})
    BY <1>3, PlaceBetPlans DEF Plans
  <2> QED
    BY <1>1, <1>3, <2>1
<1>4. CASE k = "transfer"
  <2>1. \E g : p = <<g>> /\ Ascends(g, {})
    BY <1>4, TransferPlans DEF Plans
  <2> QED
    BY <1>1, <1>4, <2>1
<1>5. CASE k = "settle"
  <2>1. p \in Seq(Groups(WalletRows \cup BetRows))
    BY <1>5, SettlePlans DEF Plans
  <2>2. p = p \o <<>> /\ <<>> \in LastRow
    <3> DEFINE G == Groups(WalletRows \cup BetRows)
    <3>1. p \in Seq(G)
      BY <2>1
    <3> HIDE DEF G
    <3> QED
      BY <3>1, ConcatEmptySeq DEF LastRow
  <2> QED
    BY <1>2, <1>5, <2>1, <2>2
<1>6. CASE k = "recover"
  <2>1. \E q \in Seq(Groups(WalletRows \cup BetRows)), r \in LastRow : p = q \o r
    BY <1>6, RecoverPlans DEF Plans
  <2> QED
    BY <1>2, <1>6, <2>1
<1>7. CASE k = "delete"
  <2>1. \E q \in Seq(Groups(BetRows)), r \in Seq(Groups(WalletRows)) : p = q \o r
    BY <1>7, DeletePlans DEF Plans
  <2>2. WalletRows \subseteq Rows /\ BetRows \subseteq Rows
    BY RowsOfTables
  <2>3. p \in Seq(Groups(Rows))
    BY <2>1, <2>2, TwoParts
  <2> QED
    BY <1>7, <2>1, <2>3 DEF WalletsAtEnd
<1> QED
  BY <1>3, <1>4, <1>5, <1>6, <1>7

\* What a plan asks for, and what is left of it.
LEMMA RestTyped ==
  ASSUME NEW R, NEW p \in Seq(Groups(R)), p # <<>>
  PROVE  Head(Head(p)) \in R /\ Rest(p) \in Seq(Groups(R))
<1> DEFINE G == Groups(R)
           g == Head(p)
<1>1. p \in Seq(G)
  OBVIOUS
<1> HIDE DEF G
<1>2. g \in G /\ Tail(p) \in Seq(G)
  BY <1>1, HeadTailProperties
<1> HIDE DEF g
<1>3. Head(g) \in R /\ Tail(g) \in Seq(R)
  BY <1>2, HeadTailProperties DEF G, Groups
<1>4. CASE Tail(g) = <<>>
  BY <1>2, <1>3, <1>4 DEF Rest, G, g
<1>5. CASE Tail(g) # <<>>
  <2>1. Tail(g) \in G
    BY <1>3, <1>5 DEF G, Groups
  <2>2. <<Tail(g)>> \in Seq(G)
    BY <2>1
  <2>3. <<Tail(g)>> \o Tail(p) \in Seq(G)
    BY <1>2, <2>2, ConcatProperties
  <2> QED
    BY <1>3, <1>5, <2>3 DEF Rest, G, g
<1> QED
  BY <1>4, <1>5

\* As long as the first part of a plan is not done, it goes first.
LEMMA RestOfTwo ==
  ASSUME NEW R, NEW S, NEW q \in Seq(Groups(R)), NEW r \in Seq(Groups(S)), q # <<>>
  PROVE  /\ Head(q \o r) = Head(q)
         /\ Rest(q \o r) = Rest(q) \o r
<1> DEFINE A == Groups(R \cup S)
           h == Head(q)
           t == Tail(q)
<1>1. q \in Seq(A) /\ r \in Seq(A)
  BY PlansGrow
<1> HIDE DEF A
<1>2. h \in A /\ t \in Seq(A) /\ q = <<h>> \o t
  <2>1. q \in Seq(A) /\ q # <<>>
    BY <1>1
  <2> QED
    BY <2>1
<1> HIDE DEF h, t
<1>3. <<h>> \in Seq(A) /\ t \o r \in Seq(A)
  BY <1>1, <1>2, ConcatProperties
<1>4. q \o r = <<h>> \o (t \o r)
  BY <1>1, <1>2, <1>3, ConcatAssociative
<1>5. Head(q \o r) = h /\ Tail(q \o r) = t \o r
  <2> DEFINE u == t \o r
  <2>1. u \in Seq(A) /\ h \in A
    BY <1>2, <1>3
  <2> HIDE DEF u
  <2>2. Head(<<h>> \o u) = h /\ Tail(<<h>> \o u) = u
    BY <2>1
  <2> QED
    BY <1>4, <2>2 DEF u
<1>6. CASE Tail(h) = <<>>
  BY <1>5, <1>6 DEF Rest, h, t
<1>7. CASE Tail(h) # <<>>
  <2> DEFINE k == Tail(h)
  <2>1. h \in Seq(R \cup S) /\ h # <<>>
    BY <1>2 DEF A, Groups
  <2>2. k \in Seq(R \cup S)
    BY <2>1, HeadTailProperties
  <2>3. k \in A
    BY <1>7, <2>2 DEF A, Groups
  <2> HIDE DEF k
  <2>4. <<k>> \in Seq(A)
    BY <2>3
  <2>5. (<<k>> \o t) \o r = <<k>> \o (t \o r)
    BY <1>1, <1>2, <2>4, ConcatAssociative
  <2>6. Rest(q) = <<k>> \o t /\ Rest(q \o r) = <<k>> \o (t \o r)
    BY <1>5, <1>7 DEF Rest, h, t, k
  <2> QED
    BY <1>5, <2>5, <2>6 DEF h
<1> QED
  BY <1>6, <1>7

\* The scheduler locks a row.
LEMMA SchedulerLocks ==
  ASSUME NEW p, NEW h, SessionAtEnd(p, h), p # <<>>
  PROVE  /\ h \subseteq WalletRows \cup BetRows
         /\ SessionAtEnd(Rest(p), h \cup {Head(Head(p))})
<1> DEFINE R == WalletRows \cup BetRows
<1>1. h \subseteq R
  BY DEF SessionAtEnd
<1>2. PICK q \in Seq(Groups(R)), r \in LastRow : p = q \o r
  BY DEF SessionAtEnd
<1>3. r \in Seq(Groups(SessionRows))
  BY LastRowTyped
<1>4. CASE q # <<>>
  <2>1. Head(p) = Head(q) /\ Rest(p) = Rest(q) \o r
    BY <1>2, <1>3, <1>4, RestOfTwo
  <2>2. Head(Head(q)) \in R /\ Rest(q) \in Seq(Groups(R))
    BY <1>4, RestTyped
  <2>3. h \cup {Head(Head(p))} \subseteq R
    BY <1>1, <2>1, <2>2
  <2> HIDE DEF R
  <2> QED
    BY <1>1, <2>1, <2>2, <2>3 DEF SessionAtEnd, R
<1>5. CASE q = <<>>
  <2>1. p = r
    <3> DEFINE G == Groups(SessionRows)
    <3>1. r \in Seq(G)
      BY <1>3
    <3> HIDE DEF G
    <3> QED
      BY <1>2, <1>5, <3>1, ConcatEmptySeq
  <2>2. PICK s \in SessionRows : p = <<<<s>>>>
    BY <2>1 DEF LastRow
  <2>3. Rest(p) = <<>>
    BY <2>2 DEF Rest
  <2>4. <<>> \in Seq(Groups(R)) /\ <<>> \in LastRow /\ <<>> = <<>> \o <<>>
    BY EmptySeq DEF LastRow
  <2> QED
    BY <1>1, <2>3, <2>4 DEF SessionAtEnd
<1> QED
  BY <1>4, <1>5

\* A deletion locks a row: a bet, or, once it has all bets, a wallet.
LEMMA DeletionLocks ==
  ASSUME NEW p, NEW h, WalletsAtEnd(p, h), p # <<>>
  PROVE  /\ WalletsAtEnd(Rest(p), h \cup {Head(Head(p))})
         /\ h \subseteq BetRows \/ Head(Head(p)) \in WalletRows
<1>1. h \subseteq WalletRows \cup BetRows
  BY DEF WalletsAtEnd
<1>2. PICK q \in Seq(Groups(BetRows)), r \in Seq(Groups(WalletRows)) :
        p = q \o r /\ (q = <<>> \/ h \subseteq BetRows)
  BY DEF WalletsAtEnd
<1>3. CASE q # <<>>
  <2>1. Head(p) = Head(q) /\ Rest(p) = Rest(q) \o r
    BY <1>2, <1>3, RestOfTwo
  <2>2. Head(Head(q)) \in BetRows /\ Rest(q) \in Seq(Groups(BetRows))
    BY <1>3, RestTyped
  <2>3. h \cup {Head(Head(p))} \subseteq BetRows
    BY <1>2, <1>3, <2>1, <2>2
  <2> QED
    BY <1>2, <1>3, <2>1, <2>2, <2>3 DEF WalletsAtEnd
<1>4. CASE q = <<>>
  <2> DEFINE G == Groups(WalletRows)
  <2>1. r \in Seq(G)
    OBVIOUS
  <2>2. p = r
    <3> HIDE DEF G
    <3> QED
      BY <1>2, <1>4, <2>1, ConcatEmptySeq
  <2>3. Head(Head(p)) \in WalletRows /\ Rest(p) \in Seq(G)
    BY <2>2, RestTyped
  <2>4. Rest(p) = <<>> \o Rest(p)
    <3> HIDE DEF G
    <3> QED
      BY <2>3, ConcatEmptySeq
  <2>5. <<>> \in Seq(Groups(BetRows))
    BY EmptySeq
  <2> QED
    BY <1>1, <2>3, <2>4, <2>5 DEF WalletsAtEnd
<1> QED
  BY <1>3, <1>4

\* A bet or a transfer that locks a row wants later rows only.
LEMMA AscendsRest ==
  ASSUME NEW g, NEW R, Ascends(g, R), Tail(g) # <<>>
  PROVE  Ascends(Tail(g), R \cup {Head(g)})
<1> DEFINE Q == WalletRows \cup SessionRows
           h == Tail(g)
<1>1. g \in Seq(Q) /\ g # <<>>
  BY DEF Ascends, Groups
<1> HIDE DEF Q
<1>2. /\ h \in Seq(Q) /\ Len(h) = Len(g) - 1
      /\ \A i \in 1..Len(h) : h[i] = g[i + 1]
      /\ Len(g) \in Nat /\ Head(g) = g[1]
  BY <1>1, HeadTailProperties, LenProperties
<1>3. h \in Groups(WalletRows \cup SessionRows)
  BY <1>2 DEF Groups, Q
<1> HIDE DEF h
<1>4. ASSUME NEW i \in 1..Len(h)
      PROVE  i + 1 \in 1..Len(g) /\ 1 \in 1..Len(g) /\ 1 < i + 1 /\ h[i] = g[i + 1]
  BY <1>2
<1>5. ASSUME NEW i \in 1..Len(h), NEW r \in R \cup {Head(g)}
      PROVE  Before(r, h[i])
  <2>1. CASE r \in R
    BY <1>4, <2>1 DEF Ascends
  <2>2. CASE r = Head(g)
    BY <1>2, <1>4, <2>2 DEF Ascends
  <2> QED
    BY <2>1, <2>2
<1>6. ASSUME NEW i \in 1..Len(h), NEW j \in 1..Len(h), i < j
      PROVE  Before(h[i], h[j])
  <2>1. i + 1 < j + 1
    BY <1>6
  <2> QED
    BY <1>4, <2>1 DEF Ascends
<1> QED
  BY <1>3, <1>5, <1>6 DEF Ascends, h

-----------------------------------------------------------------------------
(* Types.                                                                  *)

\* Every transaction's step is of one of four kinds.
LEMMA Steps ==
  ASSUME [Next]_vars
  PROVE  \/ \E t \in Transactions : Begin(t)
         \/ \E t \in Transactions : Lock(t)
         \/ \E t \in Transactions : End(t)
         \/ UNCHANGED vars
BY DEF Next, Commit, Abort

LEMMA InitTypes == Init => TypeOK
<1> SUFFICES ASSUME Init PROVE TypeOK
  OBVIOUS
<1>1. <<>> \in Seq(Seq(Rows) \ {<<>>})
  BY EmptySeq
<1> QED
  BY <1>1 DEF Init, TypeOK

LEMMA NextTypes == TypeOK /\ [Next]_vars => TypeOK'
<1> SUFFICES ASSUME TypeOK, [Next]_vars PROVE TypeOK'
  OBVIOUS
<1> USE DEF Groups
<1>1. ASSUME NEW t \in Transactions, Begin(t)
      PROVE  TypeOK'
  <2>1. PICK k \in Kinds(t) :
          /\ kind' = [kind EXCEPT ![t] = k]
          /\ \E p \in Plans(k) : plan' = [plan EXCEPT ![t] = p]
    BY <1>1 DEF Begin
  <2>2. PICK p \in Plans(k) : plan' = [plan EXCEPT ![t] = p]
    BY <2>1
  <2>3. k \in {"bet", "transfer", "settle", "recover", "delete"}
    BY DEF Kinds
  <2>4. p \in Seq(Groups(Rows))
    BY <2>3, PlansTyped DEF TypeOK, WalletsOK
  <2>5. plan' \in [Transactions -> Seq(Groups(Rows))]
    BY <2>2, <2>4 DEF TypeOK
  <2>6. kind' \in [Transactions -> {"bet", "transfer", "settle", "recover", "delete", "ended", None}]
    BY <2>1, <2>3 DEF TypeOK
  <2> QED
    BY <1>1, <2>5, <2>6 DEF Begin, TypeOK
<1>2. ASSUME NEW t \in Transactions, Lock(t)
      PROVE  TypeOK'
  <2>1. plan[t] \in Seq(Groups(Rows)) /\ plan[t] # <<>>
    BY <1>2 DEF Lock, TypeOK
  <2>2. Wanted(t) \in Rows /\ Rest(plan[t]) \in Seq(Groups(Rows))
    BY <2>1, RestTyped DEF Wanted
  <2>3. plan' \in [Transactions -> Seq(Groups(Rows))]
    BY <1>2, <2>2 DEF Lock, TypeOK
  <2>4. held' = [held EXCEPT ![t] = held[t] \cup {Wanted(t)}]
    BY <1>2 DEF Lock
  <2>5. held' \in [Transactions -> SUBSET Rows]
    BY <2>2, <2>4 DEF TypeOK
  <2>6. \A u \in Transactions \ {t} : Wanted(t) \notin held[u]
    BY <1>2 DEF Lock, HeldByOthers
  <2>7. ASSUME NEW u \in Transactions, NEW v \in Transactions, u # v
        PROVE  held'[u] \cap held'[v] = {}
    <3>1. held[u] \cap held[v] = {}
      BY <2>7 DEF TypeOK
    <3>2. /\ held'[u] = IF u = t THEN held[t] \cup {Wanted(t)} ELSE held[u]
          /\ held'[v] = IF v = t THEN held[t] \cup {Wanted(t)} ELSE held[v]
      BY <2>4 DEF TypeOK
    <3> QED
      BY <2>6, <2>7, <3>1, <3>2
  <2> QED
    BY <1>2, <2>3, <2>5, <2>7 DEF Lock, TypeOK
<1>3. ASSUME NEW t \in Transactions, End(t)
      PROVE  TypeOK'
  <2>1. plan' \in [Transactions -> Seq(Groups(Rows))]
    BY <1>3, EmptySeq DEF End, TypeOK
  <2>2. held' \in [Transactions -> SUBSET Rows] /\ \A u \in Transactions : held'[u] \subseteq held[u]
    BY <1>3 DEF End, TypeOK
  <2>3. kind' \in [Transactions -> {"bet", "transfer", "settle", "recover", "delete", "ended", None}]
    BY <1>3 DEF End, TypeOK
  <2>4. \A u, v \in Transactions : u # v => held'[u] \cap held'[v] = {}
    BY <2>2 DEF TypeOK
  <2> QED
    BY <1>3, <2>1, <2>2, <2>3, <2>4 DEF End, TypeOK
<1>4. CASE UNCHANGED vars
  BY <1>4 DEF vars, TypeOK
<1> QED
  BY <1>1, <1>2, <1>3, <1>4, Steps

\* What a transaction does, wants and holds has its type, and no row is locked by two.
THEOREM RowLocksTypes == Spec => []TypeOK
<1> QED
  BY InitTypes, NextTypes, PTL DEF Spec


-----------------------------------------------------------------------------
(* The order of the locks.                                                 *)

LEMMA InitOrder == Init => OrderInv
BY DEF Init, OrderInv, SchedulersOwn, IdleHoldNothing, OneAscendingGroup, SessionLast, BetsFirst

LEMMA BeginKeepsOrder ==
  ASSUME TypeOK, OrderInv, NEW t \in Transactions, Begin(t)
  PROVE  OrderInv'
<1>1. PICK k \in Kinds(t) :
        /\ kind' = [kind EXCEPT ![t] = k]
        /\ \E p \in Plans(k) : plan' = [plan EXCEPT ![t] = p]
  BY DEF Begin
<1>2. PICK p \in Plans(k) : plan' = [plan EXCEPT ![t] = p]
  BY <1>1
<1>3. /\ k \in {"bet", "transfer", "settle", "recover", "delete"}
      /\ k \in {"settle", "recover"} => t = Scheduler
  BY DEF Kinds
<1>4. /\ k \in {"bet", "transfer"} => \E g : p = <<g>> /\ Ascends(g, {})
      /\ k \in {"settle", "recover"} => SessionAtEnd(p, {})
      /\ k = "delete" => WalletsAtEnd(p, {})
  BY <1>3, PlansTyped DEF TypeOK, WalletsOK
<1>5. held' = held /\ held[t] = {}
  BY DEF Begin, OrderInv, IdleHoldNothing
<1>6. ASSUME NEW u \in Transactions
      PROVE  /\ kind'[u] = IF u = t THEN k ELSE kind[u]
             /\ plan'[u] = IF u = t THEN p ELSE plan[u]
  BY <1>1, <1>2 DEF TypeOK
<1>7. SchedulersOwn'
  BY <1>3, <1>6 DEF OrderInv, SchedulersOwn
<1>8. IdleHoldNothing'
  BY <1>3, <1>5, <1>6 DEF OrderInv, IdleHoldNothing
<1>9. OneAscendingGroup'
  <2>1. ASSUME NEW u \in Transactions, kind'[u] \in {"bet", "transfer"}
        PROVE  /\ held'[u] \subseteq WalletRows \cup SessionRows
               /\ plan'[u] = <<>> \/ (Tail(plan'[u]) = <<>> /\ Ascends(Head(plan'[u]), held'[u]))
    <3>1. CASE u = t
      <4>1. k \in {"bet", "transfer"}
        BY <1>6, <2>1, <3>1
      <4>2. PICK g : p = <<g>> /\ Ascends(g, {})
        BY <1>4, <4>1
      <4>3. Tail(p) = <<>> /\ Head(p) = g
        BY <4>2
      <4> QED
        BY <1>5, <1>6, <3>1, <4>2, <4>3
    <3>2. CASE u # t
      BY <1>5, <1>6, <2>1, <3>2 DEF OrderInv, OneAscendingGroup
    <3> QED
      BY <3>1, <3>2
  <2> QED
    BY <2>1 DEF OneAscendingGroup
<1>10. SessionLast'
  BY <1>4, <1>5, <1>6 DEF OrderInv, SessionLast
<1>11. BetsFirst'
  BY <1>4, <1>5, <1>6 DEF OrderInv, BetsFirst
<1> QED
  BY <1>7, <1>8, <1>9, <1>10, <1>11 DEF OrderInv

LEMMA LockKeepsOrder ==
  ASSUME TypeOK, OrderInv, NEW t \in Transactions, Lock(t)
  PROVE  OrderInv'
<1>1. ASSUME NEW u \in Transactions
      PROVE  /\ kind'[u] = kind[u]
             /\ plan'[u] = IF u = t THEN Rest(plan[t]) ELSE plan[u]
             /\ held'[u] = IF u = t THEN held[t] \cup {Wanted(t)} ELSE held[u]
  BY DEF Lock, TypeOK
<1>2. plan[t] # <<>> /\ plan[t] \in Seq(Groups(Rows))
  BY DEF Lock, TypeOK, Groups
<1>3. SchedulersOwn'
  BY <1>1 DEF OrderInv, SchedulersOwn
<1>4. IdleHoldNothing'
  BY <1>1, <1>2 DEF OrderInv, IdleHoldNothing
<1>5. OneAscendingGroup'
  <2>1. ASSUME NEW u \in Transactions, kind'[u] \in {"bet", "transfer"}
        PROVE  /\ held'[u] \subseteq WalletRows \cup SessionRows
               /\ plan'[u] = <<>> \/ (Tail(plan'[u]) = <<>> /\ Ascends(Head(plan'[u]), held'[u]))
    <3>1. CASE u = t
      <4> DEFINE g == Head(plan[t])
      <4>1. held[t] \subseteq WalletRows \cup SessionRows /\ Tail(plan[t]) = <<>> /\ Ascends(g, held[t])
        BY <1>1, <1>2, <2>1, <3>1 DEF OrderInv, OneAscendingGroup
      <4>2. g \in Seq(WalletRows \cup SessionRows) /\ g # <<>>
        BY <4>1 DEF Ascends, Groups
      <4> HIDE DEF g
      <4>3. Head(g) \in WalletRows \cup SessionRows /\ Tail(g) \in Seq(WalletRows \cup SessionRows)
        BY <4>2, HeadTailProperties
      <4>4. Wanted(t) = Head(g)
        BY DEF Wanted, g
      <4>5. held'[u] = held[t] \cup {Head(g)} /\ plan'[u] = Rest(plan[t])
        BY <1>1, <3>1, <4>4
      <4>6. CASE Tail(g) = <<>>
        <5>1. Rest(plan[t]) = <<>>
          BY <4>1, <4>6 DEF Rest, g
        <5> QED
          BY <4>1, <4>3, <4>5, <5>1
      <4>7. CASE Tail(g) # <<>>
        <5>1. Rest(plan[t]) = <<Tail(g)>> \o <<>>
          BY <4>1, <4>7 DEF Rest, g
        <5>2. <<Tail(g)>> \o <<>> = <<Tail(g)>>
          OBVIOUS
        <5>3. Tail(<<Tail(g)>>) = <<>> /\ Head(<<Tail(g)>>) = Tail(g)
          OBVIOUS
        <5>4. Ascends(Tail(g), held[t] \cup {Head(g)})
          BY <4>1, <4>7, AscendsRest
        <5> QED
          BY <4>1, <4>3, <4>5, <5>1, <5>2, <5>3, <5>4
      <4> QED
        BY <4>6, <4>7
    <3>2. CASE u # t
      BY <1>1, <2>1, <3>2 DEF OrderInv, OneAscendingGroup
    <3> QED
      BY <3>1, <3>2
  <2> QED
    BY <2>1 DEF OneAscendingGroup
<1>6. SessionLast'
  <2>1. ASSUME NEW u \in Transactions, kind'[u] \in {"settle", "recover"}
        PROVE  SessionAtEnd(plan'[u], held'[u])
    <3>1. SessionAtEnd(plan[u], held[u])
      BY <1>1, <2>1 DEF OrderInv, SessionLast
    <3>2. CASE u = t
      BY <1>1, <1>2, <3>1, <3>2, SchedulerLocks DEF Wanted
    <3>3. CASE u # t
      BY <1>1, <3>1, <3>3
    <3> QED
      BY <3>2, <3>3
  <2> QED
    BY <2>1 DEF SessionLast
<1>7. BetsFirst'
  <2>1. ASSUME NEW u \in Transactions, kind'[u] = "delete"
        PROVE  WalletsAtEnd(plan'[u], held'[u])
    <3>1. WalletsAtEnd(plan[u], held[u])
      BY <1>1, <2>1 DEF OrderInv, BetsFirst
    <3>2. CASE u = t
      BY <1>1, <1>2, <3>1, <3>2, DeletionLocks DEF Wanted
    <3>3. CASE u # t
      BY <1>1, <3>1, <3>3
    <3> QED
      BY <3>2, <3>3
  <2> QED
    BY <2>1 DEF BetsFirst
<1> QED
  BY <1>3, <1>4, <1>5, <1>6, <1>7 DEF OrderInv

LEMMA EndKeepsOrder ==
  ASSUME TypeOK, OrderInv, NEW t \in Transactions, End(t)
  PROVE  OrderInv'
<1>1. ASSUME NEW u \in Transactions
      PROVE  /\ kind'[u] = IF u = t THEN "ended" ELSE kind[u]
             /\ plan'[u] = IF u = t THEN <<>> ELSE plan[u]
             /\ held'[u] = IF u = t THEN {} ELSE held[u]
  BY DEF End, TypeOK
<1> QED
  BY <1>1 DEF OrderInv, SchedulersOwn, IdleHoldNothing, OneAscendingGroup, SessionLast, BetsFirst

LEMMA NextOrder == TypeOK /\ OrderInv /\ [Next]_vars => OrderInv'
<1> SUFFICES ASSUME TypeOK, OrderInv, [Next]_vars PROVE OrderInv'
  OBVIOUS
<1>1. CASE UNCHANGED vars
  BY <1>1 DEF vars, OrderInv, SchedulersOwn, IdleHoldNothing, OneAscendingGroup, SessionLast, BetsFirst
<1> QED
  BY <1>1, Steps, BeginKeepsOrder, LockKeepsOrder, EndKeepsOrder

-----------------------------------------------------------------------------
(* Circles.                                                                *)

\* A set of transactions that wait for one another, none of which is to blame.
InOrder(C) ==
  /\ C \subseteq Transactions /\ Deadlocked(C)
  /\ \A t \in C : kind[t] \in {"settle", "recover", "delete"} =>
       /\ ~ GoesBack(t)
       /\ kind[t] = "delete" => \A b \in Bets : Bet(b) \notin held[t]

\* The order of all rows.
Sooner(r, s) == (r \in BetRows /\ s \in WalletRows \cup SessionRows) \/ Before(r, s)

\* Whoever wants one wallet and has locked another, and does not go back, goes on.
LEMMA NextWallet ==
  ASSUME TypeOK, NEW u \in Transactions, ~ GoesBack(u),
         NEW r \in WalletRows, r \in held[u], Wanted(u) \in WalletRows, Wanted(u) # r
  PROVE  Before(r, Wanted(u))
<1>1. PICK w \in WalletIds : r = Wallet(w)
  BY DEF WalletRows
<1>2. PICK x \in WalletIds : Wanted(u) = Wallet(x)
  BY DEF WalletRows
<1>3. ~ x < w
  BY <1>1, <1>2 DEF GoesBack
<1>4. w \in Int /\ x \in Int /\ w # x
  BY <1>1, <1>2
<1>5. w < x
  BY <1>3, <1>4
<1> QED
  BY <1>1, <1>2, <1>5 DEF Before, Wallet

\* In such a set, what a transaction wants comes before what the one it waits for wants.
LEMMA WantedAscends ==
  ASSUME TypeOK, OrderInv, NEW C, InOrder(C), NEW t \in C, NEW u \in C, WaitsFor(t, u)
  PROVE  Sooner(Wanted(t), Wanted(u))
<1>1. /\ t \in Transactions /\ u \in Transactions /\ t # u
      /\ plan[t] # <<>> /\ Wanted(t) \in held[u]
  BY DEF InOrder, WaitsFor
<1>2. PICK v \in C : WaitsFor(u, v)
  BY DEF InOrder, Deadlocked
<1>3. plan[u] # <<>> /\ v \in Transactions /\ v # u /\ Wanted(u) \in held[v]
  BY <1>2 DEF InOrder, WaitsFor
<1>4. ASSUME NEW s \in C
      PROVE  /\ s \in Transactions /\ plan[s] # <<>>
             /\ \/ kind[s] \in {"bet", "transfer"}
                \/ kind[s] = "delete"
                \/ kind[s] \in {"settle", "recover"} /\ s = Scheduler
  <2>1. s \in Transactions /\ plan[s] # <<>>
    BY DEF InOrder, Deadlocked, WaitsFor
  <2>2. kind[s] \in {"bet", "transfer", "settle", "recover", "delete", "ended", None}
    BY <2>1 DEF TypeOK
  <2>3. kind[s] \notin {None, "ended"}
    BY <2>1 DEF OrderInv, IdleHoldNothing
  <2> QED
    BY <2>1, <2>2, <2>3 DEF OrderInv, SchedulersOwn
<1>5. Wanted(t) # Wanted(u)
  <2>1. held[u] \cap held[v] = {}
    BY <1>1, <1>3 DEF TypeOK
  <2> QED
    BY <1>1, <1>3, <2>1
<1>6. Wanted(u) \in Rows
  <2>1. plan[u] \in Seq(Groups(Rows))
    BY <1>1 DEF TypeOK, Groups
  <2> QED
    BY <1>3, <2>1, RestTyped DEF Wanted
<1>7. CASE kind[u] \in {"bet", "transfer"}
  <2> DEFINE g == Head(plan[u])
  <2>1. Ascends(g, held[u])
    BY <1>1, <1>3, <1>7 DEF OrderInv, OneAscendingGroup
  <2>2. g \in Seq(WalletRows \cup SessionRows) /\ g # <<>>
    BY <2>1 DEF Ascends, Groups
  <2>3. Wanted(u) = Head(g)
    BY DEF Wanted
  <2> HIDE DEF g
  <2>4. 1 \in 1..Len(g) /\ Head(g) = g[1]
    BY <2>2, HeadTailProperties, LenProperties
  <2> QED
    BY <1>1, <2>1, <2>3, <2>4 DEF Ascends, Sooner
<1>8. CASE kind[u] = "delete"
  <2>1. WalletsAtEnd(plan[u], held[u])
    BY <1>1, <1>8 DEF OrderInv, BetsFirst
  <2>2. ~ GoesBack(u) /\ \A b \in Bets : Bet(b) \notin held[u]
    BY <1>8 DEF InOrder
  <2>3. held[u] \cap BetRows = {}
    BY <2>2 DEF BetRows
  <2>4. Wanted(t) \in WalletRows
    BY <1>1, <2>1, <2>3 DEF WalletsAtEnd
  <2>5. ~ held[u] \subseteq BetRows
    BY <1>1, <2>3
  <2>6. Wanted(u) \in WalletRows
    BY <1>3, <2>1, <2>5, DeletionLocks DEF Wanted
  <2> QED
    BY <1>1, <1>5, <2>2, <2>4, <2>6, NextWallet DEF Sooner
<1>9. CASE kind[u] \in {"settle", "recover"} /\ u = Scheduler
  <2>1. SessionAtEnd(plan[u], held[u])
    BY <1>1, <1>9 DEF OrderInv, SessionLast
  <2>2. ~ GoesBack(u)
    BY <1>9 DEF InOrder
  <2>3. held[u] \subseteq WalletRows \cup BetRows
    BY <1>3, <2>1, SchedulerLocks
  <2>4. held[v] \cap BetRows = {}
    <3>1. CASE kind[v] \in {"bet", "transfer"}
      <4>1. held[v] \subseteq WalletRows \cup SessionRows
        BY <1>3, <3>1 DEF OrderInv, OneAscendingGroup
      <4> QED
        BY <4>1, RowsOfTables
    <3>2. CASE kind[v] = "delete"
      BY <3>2 DEF InOrder, BetRows
    <3> QED
      BY <1>3, <1>4, <1>9, <3>1, <3>2
  <2>5. Wanted(u) \in WalletRows \cup SessionRows
    BY <1>3, <1>6, <2>4 DEF Rows
  <2>6. CASE Wanted(t) \in BetRows
    BY <2>5, <2>6 DEF Sooner
  <2>7. CASE Wanted(t) \in WalletRows
    <3>1. PICK w \in WalletIds : Wanted(t) = Wallet(w)
      BY <2>7 DEF WalletRows
    <3>2. Wanted(u) \notin SessionRows
      BY <1>1, <2>2, <3>1 DEF GoesBack
    <3>3. Wanted(u) \in WalletRows
      BY <2>5, <3>2
    <3> QED
      BY <1>1, <1>5, <2>2, <2>7, <3>3, NextWallet DEF Sooner
  <2> QED
    BY <1>1, <2>3, <2>6, <2>7
<1> QED
  BY <1>4, <1>7, <1>8, <1>9

\* Rows have an order.
LEMMA SoonerIsOrder ==
  /\ \A r : ~ Sooner(r, r)
  /\ \A r, s, x : Sooner(r, s) /\ Sooner(s, x) => Sooner(r, x)
<1>1. \A r \in WalletRows : r.id \in Int
  BY DEF WalletRows, Wallet
<1> QED
  BY <1>1, RowsOfTables DEF Sooner, Before

\* So there is none: of its transactions, one wants a row that no other wants a row after.
LEMMA NoneInOrder ==
  ASSUME TypeOK, OrderInv, NEW C, InOrder(C)
  PROVE  FALSE
<1> DEFINE Above(t) == {s \in C : Sooner(Wanted(t), Wanted(s))}
           T == {Above(t) : t \in C}
           R == StrictSubsetOrdering(C)
<1>1. IsFiniteSet(C)
  <2>1. IsFiniteSet(Transactions)
    BY FS_AddElement DEF Transactions
  <2> QED
    BY <2>1, FS_Subset DEF InOrder
<1>2. IsWellFoundedOn(R, SUBSET C)
  BY <1>1, FS_StrictSubsetOrderingWellFounded, FS_FiniteSubsetsOfFinite
<1>3. T \subseteq SUBSET C /\ T # {}
  BY DEF InOrder, Deadlocked
<1>4. PICK X \in T : \A Y \in T : ~ (<<Y, X>> \in R)
  <2> HIDE DEF T, R
  <2> QED
    BY <1>2, <1>3, WFMin
<1>5. PICK t \in C : X = Above(t)
  OBVIOUS
<1>6. PICK u \in C : WaitsFor(t, u)
  BY DEF InOrder, Deadlocked
<1>7. Sooner(Wanted(t), Wanted(u))
  BY <1>6, WantedAscends
<1>8. Above(u) \subseteq Above(t)
  BY <1>7, SoonerIsOrder
<1>9. u \in Above(t) /\ u \notin Above(u)
  BY <1>7, SoonerIsOrder
<1>10. <<Above(u), Above(t)>> \in R
  <2>1. Above(u) \in SUBSET C /\ Above(t) \in SUBSET C /\ Above(u) # Above(t)
    BY <1>9
  <2> HIDE DEF Above
  <2> QED
    BY <1>8, <2>1 DEF StrictSubsetOrdering
<1>11. Above(u) \in T
  OBVIOUS
<1> QED
  BY <1>4, <1>5, <1>10, <1>11

LEMMA OrderHolds == TypeOK /\ OrderInv => OrderPreventsDeadlock
<1> SUFFICES ASSUME TypeOK, OrderInv, NEW C \in SUBSET Transactions, Deadlocked(C)
             PROVE  \E t \in C :
                      /\ kind[t] \in {"settle", "recover", "delete"}
                      /\ GoesBack(t) \/ (kind[t] = "delete" /\ \E b \in Bets : Bet(b) \in held[t])
  BY DEF OrderPreventsDeadlock
<1> QED
  BY NoneInOrder DEF InOrder

\* place_bet and transfer lock wallets by their ids: whatever the games and the number of
\* requests, each circle has a settlement, a recovery or a deletion in it that wants a row
\* before one it has locked, or a deletion that has locked bets.
THEOREM LocksInOrder == Spec => []OrderPreventsDeadlock
<1>1. Init => TypeOK /\ OrderInv
  BY InitTypes, InitOrder
<1>2. TypeOK /\ OrderInv /\ [Next]_vars => (TypeOK /\ OrderInv)'
  BY NextTypes, NextOrder
<1> QED
  BY <1>1, <1>2, OrderHolds, PTL DEF Spec
=============================================================================
