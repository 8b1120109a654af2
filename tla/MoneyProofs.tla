---------------------------- MODULE MoneyProofs ----------------------------
(* What Money's operators return, for every purse and every set of claims. *)
EXTENDS Money, FiniteSetTheorems, TLAPS

\* The coins of finitely many amounts are finitely many.
LEMMA CoinsFinite ==
  ASSUME NEW S, IsFiniteSet(S), NEW f, \A x \in S : f[x] \in Nat
  PROVE  IsFiniteSet(Coins(f, S))
<1> DEFINE Stacks == {{x} \X (1 .. f[x]) : x \in S}
           stack  == [x \in S |-> {x} \X (1 .. f[x])]
<1>1. stack \in Surjection(S, Stacks)
  BY DEF Surjection
<1>2. IsFiniteSet(Stacks)
  BY <1>1, FS_Surjection
<1>3. ASSUME NEW x \in S
      PROVE  IsFiniteSet({x} \X (1 .. f[x]))
  <2>1. IsFiniteSet({x})
    BY FS_Singleton
  <2>2. IsFiniteSet(1 .. f[x])
    BY FS_Interval
  <2>. QED
    BY <2>1, <2>2, FS_Product
<1>4. \A T \in Stacks : IsFiniteSet(T)
  BY <1>3
<1>. QED
  BY <1>2, <1>4, FS_UNION DEF Coins

\* A sum of natural numbers is a natural number.
LEMMA TotalType ==
  ASSUME NEW S, IsFiniteSet(S), NEW f, \A x \in S : f[x] \in Nat
  PROVE  Total(f, S) \in Nat
BY CoinsFinite, FS_CardinalityType DEF Total

\* Sums over disjoint sets add up.
LEMMA TotalSplit ==
  ASSUME NEW S, IsFiniteSet(S), NEW T, IsFiniteSet(T), S \cap T = {},
         NEW f, \A x \in S \cup T : f[x] \in Nat
  PROVE  Total(f, S \cup T) = Total(f, S) + Total(f, T)
<1>1. IsFiniteSet(Coins(f, S)) /\ IsFiniteSet(Coins(f, T))
  BY CoinsFinite
<1>2. Coins(f, S \cup T) = Coins(f, S) \cup Coins(f, T)
  BY DEF Coins
<1>3. Coins(f, S) \cap Coins(f, T) = {}
  BY DEF Coins
<1>4. Cardinality(Coins(f, S \cup T)) =
        Cardinality(Coins(f, S)) + Cardinality(Coins(f, T))
          - Cardinality(Coins(f, S) \cap Coins(f, T))
  BY <1>1, <1>2, FS_Union
<1>5. /\ Cardinality(Coins(f, S)) \in Nat /\ Cardinality(Coins(f, T)) \in Nat
      /\ Cardinality(Coins(f, S) \cap Coins(f, T)) = 0
  BY <1>1, <1>3, FS_EmptySet, FS_CardinalityType
<1>6. Cardinality(Coins(f, S \cup T)) =
        Cardinality(Coins(f, S)) + Cardinality(Coins(f, T))
  BY <1>4, <1>5
<1>. QED
  BY <1>6 DEF Total

\* The sum of one amount is that amount.
LEMMA TotalOne ==
  ASSUME NEW x, NEW f, f[x] \in Nat
  PROVE  Total(f, {x}) = f[x]
<1>1. Coins(f, {x}) = {x} \X (1 .. f[x])
  BY DEF Coins
<1>2. IsFiniteSet({x}) /\ Cardinality({x}) = 1
  BY FS_Singleton
<1>3. IsFiniteSet(1 .. f[x]) /\ Cardinality(1 .. f[x]) = f[x]
  BY FS_Interval
<1>4. Cardinality({x} \X (1 .. f[x])) = 1 * f[x]
  BY <1>2, <1>3, FS_Product
<1>5. 1 * f[x] = f[x]
  OBVIOUS
<1>6. Cardinality(Coins(f, {x})) = f[x]
  BY <1>1, <1>4, <1>5
<1>. QED
  BY <1>6 DEF Total

\* A sum depends only on the amounts summed.
LEMMA TotalEqual ==
  ASSUME NEW S, NEW f, NEW g, \A x \in S : f[x] = g[x]
  PROVE  Total(f, S) = Total(g, S)
<1>1. Coins(f, S) = Coins(g, S)
  BY DEF Coins
<1>. QED
  BY <1>1 DEF Total

\* The sum of smaller amounts is smaller.
LEMMA TotalMonotone ==
  ASSUME NEW S, IsFiniteSet(S), NEW T, S \subseteq T, IsFiniteSet(T), NEW f, NEW g,
         \A x \in S : f[x] \in Nat, \A x \in T : g[x] \in Nat,
         \A x \in S : f[x] <= g[x]
  PROVE  Total(f, S) <= Total(g, T)
<1>1. IsFiniteSet(Coins(g, T))
  BY CoinsFinite
<1>2. Coins(f, S) \subseteq Coins(g, T)
  BY DEF Coins
<1>. QED
  BY <1>1, <1>2, FS_Subset DEF Total

\* The empty sum is zero.
LEMMA TotalEmpty == \A f : Total(f, {}) = 0
<1>1. \A f : Coins(f, {}) = {}
  BY DEF Coins
<1>. QED
  BY <1>1, FS_EmptySet DEF Total

\* The sum of amounts that are no more than two others each is no more than the two
\* other sums together.
LEMMA TotalAdd ==
  ASSUME NEW S, IsFiniteSet(S), NEW f, NEW g, NEW h,
         \A x \in S : f[x] \in Nat /\ g[x] \in Nat /\ h[x] \in Nat,
         \A x \in S : h[x] <= f[x] + g[x]
  PROVE  Total(h, S) <= Total(f, S) + Total(g, S)
<1> DEFINE F     == Coins(f, S)
           G     == Coins(g, S)
           shift == [c \in G |-> <<c[1], f[c[1]] + c[2]>>]
           D     == {shift[c] : c \in G}
<1>1. IsFiniteSet(F) /\ IsFiniteSet(G)
  BY CoinsFinite
<1>2. shift \in Surjection(G, D)
  BY DEF Surjection
<1>3. IsFiniteSet(D) /\ Cardinality(D) <= Cardinality(G)
  BY <1>1, <1>2, FS_Surjection
<1>4. Coins(h, S) \subseteq F \cup D
  <2>1. ASSUME NEW x \in S, NEW k \in 1 .. h[x] PROVE <<x, k>> \in F \cup D
    <3>1. CASE k <= f[x]
      <4>1. k \in 1 .. f[x]
        BY <3>1
      <4>2. <<x, k>> \in F
        BY <4>1 DEF Coins
      <4>. QED
        BY <4>2
    <3>2. CASE k > f[x]
      <4>1. k - f[x] \in 1 .. g[x]
        BY <3>2
      <4>2. <<x, k - f[x]>> \in G
        BY <4>1 DEF Coins
      <4>3. shift[<<x, k - f[x]>>] = <<x, k>>
        BY <4>2
      <4>. QED
        BY <4>2, <4>3, Zenon
    <3>. QED
      BY <3>1, <3>2
  <2>2. ASSUME NEW c \in Coins(h, S) PROVE \E x \in S : \E k \in 1 .. h[x] : c = <<x, k>>
    BY DEF Coins
  <2>. QED
    BY <2>1, <2>2
<1>. HIDE DEF F, G, D
<1>5. /\ IsFiniteSet(F \cup D)
      /\ Cardinality(F \cup D) = Cardinality(F) + Cardinality(D) - Cardinality(F \cap D)
  BY <1>1, <1>3, FS_Union
<1>6. Cardinality(Coins(h, S)) <= Cardinality(F \cup D)
  BY <1>4, <1>5, FS_Subset
<1>7. /\ Cardinality(F) \in Nat /\ Cardinality(D) \in Nat /\ Cardinality(G) \in Nat
      /\ Cardinality(F \cap D) \in Nat /\ Cardinality(Coins(h, S)) \in Nat
  <2>1. IsFiniteSet(F \cap D)
    BY <1>1, FS_Subset
  <2>2. IsFiniteSet(Coins(h, S))
    BY CoinsFinite
  <2>. QED
    BY <1>1, <1>3, <2>1, <2>2, FS_CardinalityType
<1>8. Cardinality(Coins(h, S)) <= Cardinality(F) + Cardinality(G)
  BY <1>3, <1>5, <1>6, <1>7
<1>. QED
  BY <1>8 DEF Total, F, G

\* Amounts that are carried over to another set one by one have the same sum there.
LEMMA TotalImage ==
  ASSUME NEW S, IsFiniteSet(S), NEW T, NEW row \in Bijection(S, T),
         NEW f, NEW g, \A x \in S : f[x] \in Nat, \A x \in S : g[row[x]] = f[x]
  PROVE  IsFiniteSet(T) /\ Total(g, T) = Total(f, S)
<1> DEFINE move == [c \in Coins(f, S) |-> <<row[c[1]], c[2]>>]
<1>1. /\ row \in [S -> T]
      /\ \A x, y \in S : row[x] = row[y] => x = y
      /\ \A y \in T : \E x \in S : row[x] = y
  BY DEF Bijection, Injection, IsInjective, Surjection
<1>2. IsFiniteSet(T)
  BY FS_Bijection DEF ExistsBijection
<1>3. \A c \in Coins(f, S) : c = <<c[1], c[2]>> /\ c[1] \in S /\ c[2] \in 1 .. f[c[1]]
  BY DEF Coins
<1>4. move \in [Coins(f, S) -> Coins(g, T)]
  BY <1>1, <1>3 DEF Coins
<1>5. ASSUME NEW c \in Coins(f, S), NEW d \in Coins(f, S), move[c] = move[d]
      PROVE  c = d
  <2>1. row[c[1]] = row[d[1]] /\ c[2] = d[2]
    BY <1>5
  <2>. QED
    BY <1>1, <1>3, <2>1
<1>6. ASSUME NEW d \in Coins(g, T) PROVE \E c \in Coins(f, S) : move[c] = d
  <2>1. PICK y \in T : \E k \in 1 .. g[y] : d = <<y, k>>
    BY DEF Coins
  <2>2. PICK k \in 1 .. g[y] : d = <<y, k>>
    BY <2>1
  <2>3. PICK x \in S : row[x] = y
    BY <1>1
  <2>4. <<x, k>> \in Coins(f, S)
    BY <2>3 DEF Coins
  <2>5. move[<<x, k>>] = d
    BY <2>2, <2>3, <2>4
  <2>. QED
    BY <2>4, <2>5
<1>7. move \in Bijection(Coins(f, S), Coins(g, T))
  BY <1>4, <1>5, <1>6 DEF Bijection, Injection, IsInjective, Surjection
<1>8. IsFiniteSet(Coins(f, S))
  BY CoinsFinite
<1>. QED
  BY <1>2, <1>7, <1>8, FS_Bijection DEF Total, ExistsBijection

\* The rest of a purse that covers the claims in `full' but not the next one.
LEMMA ShortTotal ==
  ASSUME NEW Claims, IsFiniteSet(Claims), NEW purse \in Nat,
         NEW due \in [Claims -> Nat], NEW full \in SUBSET Claims,
         NEW next \in Claims \ full, Total(due, full) <= purse,
         purse < Total(due, full) + due[next],
         NEW paid,
         paid = [x \in Claims |-> IF x \in full THEN due[x]
                                  ELSE IF x = next THEN purse - Total(due, full)
                                  ELSE 0]
  PROVE  /\ paid \in [Claims -> Nat]
         /\ \A x \in Claims : paid[x] <= due[x]
         /\ Total(paid, Claims) = purse
<1> DEFINE late == Claims \ (full \cup {next})
<1>1. IsFiniteSet(full) /\ IsFiniteSet({next}) /\ IsFiniteSet(late)
  BY FS_Subset, FS_Singleton
<1>2. Total(due, full) \in Nat
  BY <1>1, TotalType
<1>3. /\ paid \in [Claims -> Nat]
      /\ \A x \in Claims : paid[x] <= due[x]
  BY <1>2
<1>4. Total(paid, full) = Total(due, full)
  BY TotalEqual
<1>5. Total(paid, {next}) = purse - Total(due, full)
  BY <1>3, TotalOne
<1>6. Total(paid, late) = 0
  <2>1. Coins(paid, late) = {}
    BY DEF Coins
  <2>. QED
    BY <2>1, FS_EmptySet DEF Total
<1>7. Total(paid, full \cup {next}) = purse
  <2>1. IsFiniteSet(full \cup {next}) /\ full \cap {next} = {}
    BY <1>1, FS_Union
  <2>2. Total(paid, full \cup {next}) = Total(paid, full) + Total(paid, {next})
    BY <1>1, <1>3, <2>1, TotalSplit
  <2>. QED
    BY <1>2, <1>4, <1>5, <2>2
<1>8. Total(paid, (full \cup {next}) \cup late)
        = Total(paid, full \cup {next}) + Total(paid, late)
  <2>1. IsFiniteSet(full \cup {next}) /\ (full \cup {next}) \cap late = {}
    BY <1>1, FS_Union
  <2>. QED
    BY <1>1, <1>3, <2>1, TotalSplit
<1>9. (full \cup {next}) \cup late = Claims
  OBVIOUS
<1>10. purse + 0 = purse
  OBVIOUS
<1>11. Total(paid, Claims) = purse
  BY <1>6, <1>7, <1>8, <1>9, <1>10, Zenon
<1>. QED
  BY <1>3, <1>11

\* A payment never exceeds its claim, nor all payments the purse: what the code's
\* min(..., before_pool) is there for.
THEOREM PaymentsBound ==
  ASSUME NEW Claims, IsFiniteSet(Claims), NEW purse \in Nat,
         NEW due \in [Claims -> Nat], NEW paid \in Payments(purse, due)
  PROVE  /\ paid \in [Claims -> Nat]
         /\ \A x \in Claims : paid[x] <= due[x]
         /\ Total(paid, Claims) <= purse
<1>1. DOMAIN due = Claims
  OBVIOUS
<1>2. CASE Total(due, Claims) <= purse
  <2>1. paid = due
    BY <1>1, <1>2 DEF Payments
  <2>. QED
    BY <1>2, <2>1
<1>3. CASE ~(Total(due, Claims) <= purse)
  <2>1. PICK full \in SUBSET Claims, next \in Claims :
          /\ next \notin full
          /\ Total(due, full) <= purse
          /\ purse < Total(due, full) + due[next]
          /\ paid = [x \in Claims |-> IF x \in full THEN due[x]
                                      ELSE IF x = next THEN purse - Total(due, full)
                                      ELSE 0]
    BY <1>1, <1>3 DEF Payments
  <2>. QED
    BY <2>1, ShortTotal
<1>. QED
  BY <1>2, <1>3

\* A purse that covers all claims pays every one of them in full.
THEOREM PaymentsInFull ==
  ASSUME NEW Claims, NEW purse, NEW due \in [Claims -> Nat],
         Total(due, Claims) <= purse, NEW paid \in Payments(purse, due)
  PROVE  paid = due
BY DEF Payments
=============================================================================
