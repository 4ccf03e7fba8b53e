----------------------- MODULE LayerTwoTranches_proofs -----------------------
(***************************************************************************)
(* Proofs about the layer-two chain, for every market, ranking, budget and *)
(* length of the cycle.                                                    *)
(*                                                                         *)
(* What positions carry is a sum over a set, which the library defines by  *)
(* recursion; what it gives is proved from a smallest set for which it     *)
(* would not.  The sleeve and the clusters (SleeveInv) then need that what *)
(* a position carries is no more than its target and not negative, so that *)
(* a sale makes room and a deferral takes none.                            *)
(***************************************************************************)
EXTENDS LayerTwoTranches, FiniteSetTheorems, WellFoundedInduction, TLAPS

-----------------------------------------------------------------------------
(* Lemmas about the operators *)

\* Two days at which the same tranche has its turn are whole cycles apart: more
\* than one cycle is at least two.
LEMMA TurnsAreCyclesApart ==
    ASSUME NEW i \in Nat, NEW j \in Nat, i % Cycle = j % Cycle, j > i + Cycle
    PROVE  j >= i + 2 * Cycle
<1>1. Cycle \in Nat \ {0}
  BY CycleAssumption
<1> DEFINE q == j \div Cycle - i \div Cycle
<1>2. i = Cycle * (i \div Cycle) + (i % Cycle) /\ j = Cycle * (j \div Cycle) + (j % Cycle)
  BY <1>1, SMT
<1>3. i \div Cycle \in Int /\ j \div Cycle \in Int
  BY <1>1, SMT
<1>4. q \in Int /\ j - i = Cycle * q
  <2>1. Cycle * q = Cycle * (j \div Cycle) - Cycle * (i \div Cycle)
    BY <1>1, <1>3, SMT
  <2>2. i % Cycle \in Int
    BY <1>1, SMT
  <2> QED
    BY <1>1, <1>2, <1>3, <2>1, <2>2, SMT
<1> HIDE DEF q
<1>5. q >= 2
  <2>1. SUFFICES ASSUME q =< 1 PROVE FALSE
    BY <1>4, SMT
  <2>2. Cycle * q =< Cycle
    BY <1>1, <1>4, <2>1, SMT
  <2> QED
    BY <1>1, <1>4, <2>2, SMT
<1>6. Cycle * q >= 2 * Cycle
  BY <1>1, <1>4, <1>5, SMT
<1> QED
  BY <1>1, <1>4, <1>6, SMT

\* The commission is never less than the least one.
LEMMA CommissionIsCharged ==
    ASSUME NEW n \in Int
    PROVE  Commission(n) \in Int /\ Commission(n) >= 5
<1> DEFINE rate == (n * 25) \div 100000
<1>1. rate \in Int
  BY SMT
<1> HIDE DEF rate
<1>2. \E x \in {5, rate} : \A y \in {5, rate} : x >= y
  BY <1>1, SMT
<1>3. Max({5, rate}) \in {5, rate} /\ \A y \in {5, rate} : Max({5, rate}) >= y
  BY <1>2 DEF Max
<1>4. Max({5, rate}) \in Int /\ Max({5, rate}) >= 5
  BY <1>1, <1>3, SMT
<1> QED
  BY <1>4 DEF Commission, rate

\* g is a table of what the subsets of S carry.
NotionalTable(g, S) ==
    g = [T \in SUBSET S |-> IF T = {} THEN 0
                            ELSE LET x == CHOOSE x \in T : TRUE IN x.notional + g[T \ {x}]]

\* A nonempty collection of subsets of a finite set has a smallest one.
LEMMA SmallestSubset ==
  ASSUME NEW S, IsFiniteSet(S), NEW B \in SUBSET SUBSET S, B # {}
  PROVE  \E T \in B : \A U \in B : U \subseteq T => U = T
<1>1. IsWellFoundedOn(StrictSubsetOrdering(S), SUBSET S)
  BY FS_StrictSubsetOrderingWellFounded, FS_FiniteSubsetsOfFinite
<1>2. PICK T \in B : \A U \in B : <<U, T>> \notin StrictSubsetOrdering(S)
  <2> HIDE DEF StrictSubsetOrdering
  <2> QED BY <1>1, WFMin
<1> QED BY <1>2 DEF StrictSubsetOrdering

\* The library's sum is the entry of a set in its own table.
LEMMA NotionalIsItsTable ==
  ASSUME NEW S
  PROVE  Notional(S) = (CHOOSE g : NotionalTable(g, S))[S]
BY DEF Notional, MapThenSumSet, MapThenFoldSet, NotionalTable

\* Two tables agree where both have an entry.
LEMMA TablesAgree ==
  ASSUME NEW S, NEW T \in SUBSET S, IsFiniteSet(S), NEW g, NEW h,
         NotionalTable(g, S), NotionalTable(h, T)
  PROVE  g[T] = h[T]
<1> DEFINE B == {U \in SUBSET T : g[U] # h[U]}
<1>1. SUFFICES ASSUME B # {} PROVE FALSE OBVIOUS
<1>2. IsFiniteSet(T) BY FS_Subset
<1>3. PICK U \in B : \A V \in B : V \subseteq U => V = U
  <2>1. B \in SUBSET SUBSET T OBVIOUS
  <2> HIDE DEF B
  <2> QED BY <1>1, <1>2, <2>1, SmallestSubset
<1>4. U \in SUBSET S /\ U \in SUBSET T OBVIOUS
<1>5. U # {} BY <1>3, <1>4 DEF NotionalTable
<1> DEFINE x == CHOOSE x \in U : TRUE
<1>6. x \in U BY <1>5
<1>7. U \ {x} \notin B BY <1>3, <1>6
<1>8. g[U \ {x}] = h[U \ {x}] BY <1>4, <1>7
<1>9. g[U] = x.notional + g[U \ {x}] BY <1>4, <1>5 DEF NotionalTable
<1>10. h[U] = x.notional + h[U \ {x}] BY <1>4, <1>5 DEF NotionalTable
<1> QED BY <1>3, <1>8, <1>9, <1>10

\* Every finite set has its table of sums.
LEMMA TableExists ==
  ASSUME NEW S, IsFiniteSet(S)
  PROVE  \E g : NotionalTable(g, S)
<1> DEFINE B == {T \in SUBSET S : ~ \E g : NotionalTable(g, T)}
<1>1. SUFFICES ASSUME B # {} PROVE FALSE OBVIOUS
<1>2. PICK T \in B : \A V \in B : V \subseteq T => V = T
  <2>1. B \in SUBSET SUBSET S OBVIOUS
  <2> HIDE DEF B
  <2> QED BY <1>1, <2>1, SmallestSubset
<1> DEFINE table(U) == CHOOSE g : NotionalTable(g, U)
<1>3. \A U \in SUBSET T : U # T => NotionalTable(table(U), U)
  <2> TAKE U \in SUBSET T
  <2> HAVE U # T
  <2>1. U \in SUBSET S /\ U \notin B BY <1>2
  <2>2. \E g : NotionalTable(g, U) BY <2>1
  <2> QED BY <2>2
<1> DEFINE sum(U) == table(U)[U]
           x == CHOOSE x \in T : TRUE
           g == [U \in SUBSET T |-> IF U # T THEN sum(U)
                                    ELSE IF T = {} THEN 0 ELSE x.notional + sum(T \ {x})]
<1>4. ASSUME NEW U \in SUBSET T, U # T, U # {}, NEW y, y = CHOOSE z \in U : TRUE
      PROVE  sum(U) = y.notional + sum(U \ {y})
  <2>1. NotionalTable(table(U), U) BY <1>3, <1>4
  <2>2. y \in U BY <1>4
  <2>3. U \ {y} \in SUBSET T /\ U \ {y} # T BY <2>2
  <2>4. NotionalTable(table(U \ {y}), U \ {y}) BY <1>3, <2>3
  <2>5. IsFiniteSet(U)
    <3>1. U \in SUBSET S BY <1>2
    <3> QED BY <3>1, FS_Subset
  <2> HIDE DEF table
  <2>6. table(U)[U] = y.notional + table(U)[U \ {y}] BY <1>4, <2>1 DEF NotionalTable
  <2>7. table(U)[U \ {y}] = table(U \ {y})[U \ {y}]
    <3>1. U \ {y} \in SUBSET U OBVIOUS
    <3> QED BY <2>1, <2>4, <2>5, <3>1, TablesAgree
  <2> QED BY <2>6, <2>7
<1>5. ASSUME {} # T PROVE sum({}) = 0
  <2>1. NotionalTable(table({}), {}) BY <1>3, <1>5
  <2> HIDE DEF table
  <2> QED BY <2>1 DEF NotionalTable
<1>6. \A U \in SUBSET T :
         g[U] = IF U = {} THEN 0
                ELSE LET y == CHOOSE y \in U : TRUE IN y.notional + g[U \ {y}]
  <2> HIDE DEF table
  <2> SUFFICES ASSUME NEW U \in SUBSET T
               PROVE  g[U] = IF U = {} THEN 0
                             ELSE LET y == CHOOSE y \in U : TRUE IN y.notional + g[U \ {y}]
      OBVIOUS
  <2>1. CASE U = {}
    <3> HIDE DEF sum
    <3> QED BY <1>5, <2>1
  <2>2. CASE U # {}
    <3> DEFINE y == CHOOSE y \in U : TRUE
    <3>1. y \in U BY <2>2
    <3>2. U \ {y} \in SUBSET T /\ U \ {y} # T BY <3>1
    <3>3. g[U \ {y}] = sum(U \ {y}) BY <3>2
    <3>4. CASE U # T
      <4>1. sum(U) = y.notional + sum(U \ {y})
        <5> HIDE DEF sum
        <5> QED BY <1>4, <2>2, <3>4
      <4> QED BY <2>2, <3>3, <3>4, <4>1
    <3>5. CASE U = T
      <4>1. T # {} /\ y = x BY <2>2, <3>5
      <4>2. g[T] = x.notional + sum(T \ {x}) BY <4>1
      <4> QED BY <2>2, <3>3, <3>5, <4>1, <4>2
    <3> QED BY <3>4, <3>5
  <2> QED BY <2>1, <2>2
<1>7. NotionalTable(g, T)
  <2>1. g = [U \in SUBSET T |-> g[U]] OBVIOUS
  <2> HIDE DEF g
  <2> QED BY <1>6, <2>1 DEF NotionalTable
<1> QED BY <1>2, <1>7

\* The sum over nothing, and the sum over a set from that over one element less.
LEMMA NotionalUnfolds ==
  ASSUME NEW S, IsFiniteSet(S)
  PROVE  /\ S = {} => Notional(S) = 0
         /\ S # {} => LET x == CHOOSE x \in S : TRUE
                      IN  Notional(S) = x.notional + Notional(S \ {x})
<1> DEFINE table(U) == CHOOSE g : NotionalTable(g, U)
           x == CHOOSE x \in S : TRUE
<1>1. NotionalTable(table(S), S) BY TableExists
<1>2. IsFiniteSet(S \ {x}) BY FS_RemoveElement
<1>3. NotionalTable(table(S \ {x}), S \ {x}) BY <1>2, TableExists
<1>4. Notional(S) = table(S)[S] BY NotionalIsItsTable
<1>5. Notional(S \ {x}) = table(S \ {x})[S \ {x}] BY NotionalIsItsTable
<1> HIDE DEF table
<1>6. CASE S = {} BY <1>1, <1>4, <1>6 DEF NotionalTable
<1>7. CASE S # {}
  <2>1. table(S)[S] = x.notional + table(S)[S \ {x}] BY <1>1, <1>7 DEF NotionalTable
  <2>2. table(S)[S \ {x}] = table(S \ {x})[S \ {x}]
    <3>1. S \ {x} \in SUBSET S OBVIOUS
    <3> HIDE DEF x
    <3> QED BY <1>1, <1>3, <3>1, TablesAgree
  <2> QED BY <1>4, <1>5, <1>7, <2>1, <2>2
<1> QED BY <1>6, <1>7

\* A sum of integers is an integer.
LEMMA NotionalIsWhole ==
  ASSUME NEW S, IsFiniteSet(S), \A x \in S : x.notional \in Int
  PROVE  Notional(S) \in Int
<1> DEFINE B == {T \in SUBSET S : Notional(T) \notin Int}
<1>1. SUFFICES ASSUME B # {} PROVE FALSE OBVIOUS
<1>2. PICK T \in B : \A V \in B : V \subseteq T => V = T
  <2>1. B \in SUBSET SUBSET S OBVIOUS
  <2> HIDE DEF B
  <2> QED BY <1>1, <2>1, SmallestSubset
<1>3. IsFiniteSet(T) BY FS_Subset
<1>4. T # {}
  <2>1. SUFFICES ASSUME T = {} PROVE FALSE OBVIOUS
  <2>2. Notional(T) = 0 BY <1>3, <2>1, NotionalUnfolds
  <2> QED BY <1>2, <2>2
<1> DEFINE x == CHOOSE x \in T : TRUE
<1>5. x \in T BY <1>4
<1>6. T \ {x} \notin B BY <1>2, <1>5
<1>7. Notional(T \ {x}) \in Int BY <1>6
<1>8. Notional(T) = x.notional + Notional(T \ {x}) BY <1>3, <1>4, NotionalUnfolds
<1>9. x.notional \in Int BY <1>5
<1> QED BY <1>2, <1>7, <1>8, <1>9

\* Any element may be taken out of a sum of integers, not only the chosen one.
LEMMA NotionalWithout ==
  ASSUME NEW S, IsFiniteSet(S), \A x \in S : x.notional \in Int, NEW y \in S
  PROVE  Notional(S) = y.notional + Notional(S \ {y})
<1> DEFINE sum(T) == Notional(T)
           B == {T \in SUBSET S : \E z \in T : sum(T) # z.notional + sum(T \ {z})}
<1>1. SUFFICES ASSUME B # {} PROVE FALSE OBVIOUS
<1>2. PICK T \in B : \A V \in B : V \subseteq T => V = T
  <2>1. B \in SUBSET SUBSET S OBVIOUS
  <2> HIDE DEF B
  <2> QED BY <1>1, <2>1, SmallestSubset
<1>3. PICK z \in T : sum(T) # z.notional + sum(T \ {z}) BY <1>2
<1> DEFINE x == CHOOSE x \in T : TRUE
<1>4. x \in T BY <1>3
<1>5. IsFiniteSet(T) BY FS_Subset
<1>6. sum(T) = x.notional + sum(T \ {x}) BY <1>4, <1>5, NotionalUnfolds
<1>7. x # z BY <1>3, <1>6
<1>8. \A U \in SUBSET T : IsFiniteSet(U) /\ sum(U) \in Int
  <2> TAKE U \in SUBSET T
  <2>1. IsFiniteSet(U) BY <1>5, FS_Subset
  <2>2. \A u \in U : u.notional \in Int OBVIOUS
  <2> QED BY <2>1, <2>2, NotionalIsWhole
<1> HIDE DEF x, sum
<1>9. sum(T \ {x}) = z.notional + sum((T \ {x}) \ {z})
  <2>1. T \ {x} \notin B BY <1>2, <1>4
  <2> QED BY <1>3, <1>7, <2>1
<1>10. sum(T \ {z}) = x.notional + sum((T \ {z}) \ {x})
  <2>1. T \ {z} \notin B BY <1>2, <1>3
  <2> QED BY <1>4, <1>7, <2>1
<1>11. (T \ {x}) \ {z} = (T \ {z}) \ {x} OBVIOUS
<1>12. sum((T \ {x}) \ {z}) \in Int BY <1>8
<1>13. x.notional \in Int /\ z.notional \in Int BY <1>3, <1>4
<1>14. sum((T \ {z}) \ {x}) = sum((T \ {x}) \ {z}) BY <1>11, Zenon
<1> DEFINE rest == sum((T \ {x}) \ {z})
<1>15. rest \in Int /\ sum(T) = x.notional + (z.notional + rest) /\ sum(T \ {z}) = x.notional + rest
  BY <1>6, <1>9, <1>10, <1>12, <1>14, Zenon
<1> HIDE DEF rest
<1> QED BY <1>3, <1>13, <1>15

\* What is carried grows by what is added, and shrinks by what is taken away.
LEMMA NotionalAdds ==
  ASSUME NEW S, IsFiniteSet(S), \A x \in S : x.notional \in Int, NEW q, q.notional \in Int, q \notin S
  PROVE  Notional(S \cup {q}) = Notional(S) + q.notional
<1>1. IsFiniteSet(S \cup {q}) BY FS_AddElement
<1>2. \A x \in S \cup {q} : x.notional \in Int OBVIOUS
<1>3. Notional(S \cup {q}) = q.notional + Notional((S \cup {q}) \ {q})
  BY <1>1, <1>2, q \in S \cup {q}, NotionalWithout
<1>4. (S \cup {q}) \ {q} = S OBVIOUS
<1>5. Notional((S \cup {q}) \ {q}) = Notional(S) BY <1>4, Zenon
<1>6. Notional(S) \in Int BY NotionalIsWhole
<1> QED BY <1>3, <1>5, <1>6

\* Of whole amounts that is whole, and so is the rest.
LEMMA NotionalDrops ==
  ASSUME NEW S, IsFiniteSet(S), \A x \in S : x.notional \in Int, NEW p \in S
  PROVE  /\ Notional(S) \in Int /\ Notional(S \ {p}) \in Int
         /\ Notional(S) = p.notional + Notional(S \ {p})
<1>1. IsFiniteSet(S \ {p}) BY FS_RemoveElement
<1>2. Notional(S) \in Int /\ Notional(S \ {p}) \in Int BY <1>1, NotionalIsWhole
<1> QED BY <1>2, NotionalWithout

\* What one position carries, or none.
LEMMA OneCarried ==
    ASSUME NEW p, p.notional \in Int
    PROVE  Notional({}) = 0 /\ Notional({p}) = p.notional
<1>1. Notional({}) = 0
  BY FS_EmptySet, NotionalUnfolds
<1>2. Notional({p}) = p.notional + Notional({p} \ {p})
  BY FS_Singleton, NotionalWithout
<1>3. {p} \ {p} = {}
  OBVIOUS
<1>4. Notional({p} \ {p}) = 0
  BY <1>1, <1>3, Zenon
<1> QED
  BY <1>1, <1>2, <1>4

\* Prices and costs are whole amounts, and a buy costs more than its stock.
LEMMA PricesAreWhole ==
    ASSUME NEW q \in Quotes
    PROVE  BuyPrice(q) \in Int /\ SellPrice(q) \in Int
<1> DEFINE up == q.open + ((q.open * 5) \div 10000)
           down == q.open - ((q.open * 5) \div 10000)
<1>1. up \in Int /\ down \in Int /\ q.high \in Int /\ q.low \in Int
  BY SMT DEF Quotes
<1> HIDE DEF up, down
<1>2. \E x \in {up, q.high} : \A y \in {up, q.high} : x =< y
  BY <1>1, SMT
<1>3. \E x \in {down, q.low} : \A y \in {down, q.low} : x >= y
  BY <1>1, SMT
<1>4. Min({up, q.high}) \in {up, q.high}
  BY <1>2 DEF Min
<1>5. Max({down, q.low}) \in {down, q.low}
  BY <1>3 DEF Max
<1> QED
  BY <1>1, <1>4, <1>5 DEF BuyPrice, SellPrice, up, down

LEMMA QuotesAreTyped ==
    ASSUME NEW w \in Worlds, NEW s \in Symbols, NEW d \in 1..LastDay
    PROVE  w.market[s][d] \in Quotes /\ w.cluster[s][d] \in Clusters
<1>1. /\ w.market \in [Symbols -> [1..LastDay -> Quotes]]
      /\ w.cluster \in [Symbols -> [1..LastDay -> Clusters]]
  BY WorldsAssumption
<1>2. w.market[s] \in [1..LastDay -> Quotes] /\ w.cluster[s] \in [1..LastDay -> Clusters]
  BY <1>1
<1> QED
  BY <1>2

-----------------------------------------------------------------------------
(* Types *)

\* The types of the run's state hold in every history.
THEOREM LayerTwoTypes == Spec => []LayerTwoTypeOK
<1>1. Init => LayerTwoTypeOK
  <2>1. Capital \in Int /\ 1 \in 1..LastDay
    BY MoneyAssumption, SMT
  <2> QED
    BY <2>1 DEF Init, LayerTwoTypeOK
<1>2. LayerTwoTypeOK /\ [Next]_vars => LayerTwoTypeOK'
  <2> SUFFICES ASSUME LayerTwoTypeOK, [Next]_vars PROVE LayerTwoTypeOK'
    OBVIOUS
  <2>0. day \in Nat /\ LastDay \in Nat
    BY MoneyAssumption, SMT DEF LayerTwoTypeOK
  <2>1. CASE Enter
    <3>a. PICK tranche \in 0..(SlotCount - 1), s \in Symbols :
            \E lots \in Affordable(Target(s), BuyPrice(Quote(s, day))) :
                LET p == Opened(s, tranche, lots, BuyPrice(Quote(s, day)))
                IN  /\ cash' = cash - p.used
                    /\ positions' = positions \cup {p}
                    /\ Record("entry_opened", p)
      BY <2>1 DEF Enter
    <3>1. PICK lots \in Affordable(Target(s), BuyPrice(Quote(s, day))) :
            LET p == Opened(s, tranche, lots, BuyPrice(Quote(s, day)))
            IN  /\ cash' = cash - p.used
                /\ positions' = positions \cup {p}
                /\ Record("entry_opened", p)
      BY <3>a
    <3> DEFINE price == BuyPrice(Quote(s, day))
               p == Opened(s, tranche, lots, price)
    <3>2. price \in Int /\ lots \in Nat /\ tranche \in Nat
      <4>1. Quote(s, day) \in Quotes
        BY QuotesAreTyped DEF Quote, LayerTwoTypeOK
      <4>2. price \in Int
        BY <4>1, PricesAreWhole
      <4>3. lots \in Nat
        BY SMT DEF Affordable
      <4> QED
        BY <4>2, <4>3, SMT
    <3>3. lots * price \in Int /\ Cost(lots, price) \in Int
      <4> HIDE DEF price
      <4>1. lots * price \in Int
        BY <3>2, SMT
      <4>2. Commission(lots * price) \in Int
        BY <4>1, CommissionIsCharged
      <4> QED
        BY <4>1, <4>2, SMT DEF Cost
    <3>4. Cluster(s, day - 1) \in Clusters
      <4>1. day > 1
        BY <2>1 DEF Enter
      <4>2. day - 1 \in 1..LastDay
        BY <2>0, <4>1, SMT DEF LayerTwoTypeOK
      <4> QED
        BY <4>2, QuotesAreTyped DEF Cluster, LayerTwoTypeOK
    <3>5. p \in Positions
      BY <2>0, <3>2, <3>3, <3>4 DEF Opened, Positions, Statuses
    <3>6. p.used \in Int /\ p.tranche \in Nat /\ p.symbol \in Symbols /\ p.entered \in Nat
      BY <3>5 DEF Positions
    <3> HIDE DEF p
    <3>7. [day |-> day, kind |-> "entry_opened", tranche |-> p.tranche, symbol |-> p.symbol,
           entered |-> p.entered] \in Rows
      BY <2>0, <3>6 DEF Rows, Kinds
    <3>8. cash' \in Int
      BY <3>1, <3>6, SMT DEF LayerTwoTypeOK, p
    <3>9. positions' \subseteq Positions
      BY <3>1, <3>5 DEF LayerTwoTypeOK, p
    <3>10. transitions' \subseteq Rows
      BY <3>1, <3>7 DEF LayerTwoTypeOK, Record, p
    <3> QED
      BY <2>1, <3>8, <3>9, <3>10 DEF LayerTwoTypeOK, Enter
  <2>2. CASE Exit
    <3>1. PICK p \in positions : ExitClosed(p) \/ ExitDeferred(p) \/ ExitUnknown(p)
      BY <2>2 DEF Exit
    <3>2. p \in Positions
      BY DEF LayerTwoTypeOK
    <3>3. \A kind \in Kinds :
             [day |-> day, kind |-> kind, tranche |-> p.tranche, symbol |-> p.symbol,
              entered |-> p.entered] \in Rows
      BY <2>0, <3>2 DEF Rows, Positions
    <3>4. UNCHANGED <<world, budget, bound, day>>
      BY <2>2 DEF Exit
    <3>5. CASE ExitClosed(p)
      <4>1. cash' \in Int
        <5> DEFINE price == SellPrice(Quote(p.symbol, day))
                   gross == p.lots * price
        <5>1. Quote(p.symbol, day) \in Quotes
          BY <3>2, QuotesAreTyped DEF Quote, LayerTwoTypeOK, Positions
        <5>2. price \in Int
          BY <5>1, PricesAreWhole
        <5>3. p.lots \in Nat
          BY <3>2 DEF Positions
        <5> HIDE DEF price
        <5>4. gross \in Int
          BY <5>2, <5>3, SMT
        <5> HIDE DEF gross
        <5>5. Commission(gross) \in Int
          BY <5>4, CommissionIsCharged
        <5>6. gross - Commission(gross) - (gross \div 1000) \in Int
          BY <5>4, <5>5, SMT
        <5>7. cash' = cash + NetSale(p.lots, price)
          BY <3>5 DEF ExitClosed, price
        <5> QED
          BY <5>6, <5>7, SMT DEF NetSale, gross, LayerTwoTypeOK
      <4>2. positions' \subseteq Positions
        BY <3>5 DEF ExitClosed, LayerTwoTypeOK
      <4>3. transitions' \subseteq Rows
        BY <3>3, <3>5 DEF ExitClosed, Record, LayerTwoTypeOK, Kinds
      <4> QED
        BY <3>4, <3>5, <4>1, <4>2, <4>3 DEF ExitClosed, LayerTwoTypeOK
    <3>6. CASE ExitDeferred(p)
      <4>1. [p EXCEPT !.status = "deferred_still_open"] \in Positions
        BY <3>2 DEF Positions, Statuses
      <4>2. positions' \subseteq Positions
        BY <3>6, <4>1 DEF ExitDeferred, LayerTwoTypeOK
      <4>3. transitions' \subseteq Rows
        BY <3>3, <3>6 DEF ExitDeferred, Record, LayerTwoTypeOK, Kinds
      <4> QED
        BY <3>4, <3>6, <4>2, <4>3 DEF ExitDeferred, LayerTwoTypeOK
    <3>7. CASE ExitUnknown(p)
      <4>1. [p EXCEPT !.status = "unknown_halted"] \in Positions
        BY <3>2 DEF Positions, Statuses
      <4>2. positions' \subseteq Positions
        BY <3>7, <4>1 DEF ExitUnknown, LayerTwoTypeOK
      <4>3. transitions' \subseteq Rows
        BY <3>3, <3>7 DEF ExitUnknown, Record, LayerTwoTypeOK, Kinds
      <4> QED
        BY <3>4, <3>7, <4>2, <4>3 DEF ExitUnknown, LayerTwoTypeOK
    <3> QED
      BY <3>1, <3>5, <3>6, <3>7
  <2>3. CASE NextDay
    <3>1. day' \in 1..LastDay
      BY <2>0, <2>3, SMT DEF NextDay, LayerTwoTypeOK
    <3> QED
      BY <2>3, <3>1 DEF NextDay, LayerTwoTypeOK
  <2>4. CASE UNCHANGED vars
    BY <2>4 DEF vars, LayerTwoTypeOK
  <2> QED
    BY <2>1, <2>2, <2>3, <2>4 DEF Next
<1> QED
  BY <1>1, <1>2, PTL DEF Spec

-----------------------------------------------------------------------------
(* The cycle of a tranche *)

\* An entry is followed by its position until a sale, which is at least a cycle
\* later, frees the tranche.
HeldOrSold(held, rows, t) ==
    \/ \E p \in held : p.tranche = t.tranche /\ p.entered = t.day
    \/ \E u \in rows :
          u.kind = "exit_closed" /\ u.tranche = t.tranche /\ u.day >= t.day + Cycle

TrancheInv ==
    /\ LayerTwoTypeOK
    /\ \A t \in transitions : t.day =< day
    /\ \A t \in Entries :
          t.day >= 2 /\ HasTurn(t.tranche, t.day - 1) /\ HeldOrSold(positions, transitions, t)
    /\ ATrancheRestsACycle

\* An entry keeps the invariant: its tranche is free, so every earlier entry of
\* it was sold by yesterday, more than a cycle after it was bought.
LEMMA EnterKeepsTrancheInv ==
    ASSUME TrancheInv, LayerTwoTypeOK', Enter
    PROVE  TrancheInv'
<1>0. day \in Nat /\ Cycle \in Nat \ {0} /\ day > 1
  BY CycleAssumption, MoneyAssumption, SMT DEF TrancheInv, LayerTwoTypeOK, Enter
<1>1. PICK k \in 0..(SlotCount - 1), s \in Symbols :
        /\ HasTurn(k, day - 1)
        /\ GatePassed(k)
        /\ \E lots \in Affordable(Target(s), BuyPrice(Quote(s, day))) :
              LET p == Opened(s, k, lots, BuyPrice(Quote(s, day)))
              IN  /\ positions' = positions \cup {p}
                  /\ Record("entry_opened", p)
  BY DEF Enter
<1>2. PICK p : /\ p.tranche = k /\ p.entered = day
               /\ positions' = positions \cup {p}
               /\ Record("entry_opened", p)
  BY <1>1 DEF Opened
<1> DEFINE new == [day |-> day, kind |-> "entry_opened", tranche |-> p.tranche, symbol |-> p.symbol,
                   entered |-> p.entered]
<1>3. transitions' = transitions \cup {new} /\ new.day = day /\ new.tranche = k /\ new.kind = "entry_opened"
  BY <1>2 DEF Record
<1> HIDE DEF new
<1>4. UNCHANGED <<world, budget, day>> /\ \A t \in transitions : t.day < day
  BY DEF Enter
<1>5. \A t \in transitions : t.day \in Nat /\ t.tranche \in Nat
  BY DEF TrancheInv, LayerTwoTypeOK, Rows
<1>6. Entries' = Entries \cup {new}
  BY <1>3 DEF Entries
<1>7. \A t : HeldOrSold(positions, transitions, t) => HeldOrSold(positions', transitions', t)
  BY <1>2, <1>3 DEF HeldOrSold
<1>8. HeldOrSold(positions', transitions', new)
  BY <1>2, <1>3 DEF HeldOrSold
<1>9. \A tranche, d : HasTurn(tranche, d) => HasTurn(tranche, d)'
  BY <1>4 DEF HasTurn, SlotCount, Offset, Sleeve
<1>10. ASSUME NEW t \in Entries, t.tranche = k PROVE day >= t.day + 2 * Cycle
  <2>1. t \in transitions /\ t.day \in Nat /\ t.day >= 2 /\ HasTurn(k, t.day - 1)
    BY <1>5, <1>10 DEF Entries, TrancheInv
  <2>2. PICK u \in transitions : u.day >= t.day + Cycle
    BY <1>1, <1>10 DEF TrancheInv, HeldOrSold, GatePassed
  <2>3. day > t.day + Cycle
    BY <1>0, <1>4, <1>5, <2>1, <2>2, SMT
  <2>4. (t.day - 1 - 1) % Cycle = (day - 1 - 1) % Cycle
    BY <1>1, <2>1 DEF HasTurn
  <2> DEFINE i == t.day - 1 - 1
             j == day - 1 - 1
  <2>5. i \in Nat /\ j \in Nat /\ j > i + Cycle
    BY <1>0, <2>1, <2>3, SMT
  <2>6. i % Cycle = j % Cycle
    BY <2>4
  <2>7. j >= i + 2 * Cycle
    <3> HIDE DEF i, j
    <3> QED
      BY <2>5, <2>6, TurnsAreCyclesApart
  <2> QED
    BY <1>0, <2>1, <2>7, SMT
<1>11. ATrancheRestsACycle'
  <2> SUFFICES ASSUME NEW t \in Entries', NEW u \in Entries', t.tranche = u.tranche, t.day < u.day
               PROVE  u.day >= t.day + 2 * Cycle
    BY DEF ATrancheRestsACycle
  <2>1. CASE t \in Entries /\ u \in Entries
    BY <2>1 DEF TrancheInv, ATrancheRestsACycle
  <2>2. CASE t \in Entries /\ u = new
    BY <1>3, <1>10, <2>2
  <2>3. CASE t = new
    <3>1. u.day =< day /\ u.day \in Nat
      BY <1>0, <1>3, <1>4, <1>5, <1>6, SMT DEF Entries
    <3> QED
      BY <1>0, <1>3, <2>3, <3>1, SMT
  <2> QED
    BY <1>6, <2>1, <2>2, <2>3
<1>12. \A t \in transitions' : t.day =< day'
  BY <1>0, <1>3, <1>4, <1>5, SMT
<1>13. \A t \in Entries' : t.day >= 2 /\ HasTurn(t.tranche, t.day - 1)'
  BY <1>0, <1>1, <1>3, <1>6, <1>9, SMT DEF TrancheInv
<1>14. \A t \in Entries' : HeldOrSold(positions', transitions', t)
  BY <1>6, <1>7, <1>8 DEF TrancheInv
<1> QED
  BY <1>11, <1>12, <1>13, <1>14 DEF TrancheInv

\* An exit keeps it: a sale comes a cycle after the buy, and a position that is
\* not sold stays in its tranche.
LEMMA ExitKeepsTrancheInv ==
    ASSUME TrancheInv, LayerTwoTypeOK', Exit
    PROVE  TrancheInv'
<1>1. PICK p \in positions : ObservedUntil(p, day) /\ (ExitClosed(p) \/ ExitDeferred(p) \/ ExitUnknown(p))
  BY DEF Exit
<1>2. UNCHANGED <<budget, day>> /\ day \in Nat /\ Cycle \in Nat \ {0} /\ p.entered \in Nat
  <2>1. day \in Nat
    BY MoneyAssumption, SMT DEF TrancheInv, LayerTwoTypeOK
  <2> QED
    BY <2>1, CycleAssumption DEF Exit, TrancheInv, LayerTwoTypeOK, Positions
<1>3. day >= p.entered + Cycle
  BY <1>1 DEF ObservedUntil, ScheduledExit
<1>4. PICK row : /\ row.kind # "entry_opened" /\ row.day = day
                 /\ transitions' = transitions \cup {row}
                 /\ ExitClosed(p) => row.kind = "exit_closed" /\ row.tranche = p.tranche
  <2> DEFINE Row(kind) == [day |-> day, kind |-> kind, tranche |-> p.tranche, symbol |-> p.symbol,
                           entered |-> p.entered]
  <2>1. \A kind : Row(kind).kind = kind /\ Row(kind).day = day /\ Row(kind).tranche = p.tranche
    OBVIOUS
  <2>2. ExitClosed(p) => transitions' = transitions \cup {Row("exit_closed")}
    BY DEF ExitClosed, Record
  <2>3. ExitDeferred(p) => transitions' = transitions \cup {Row("exit_deferred")}
    BY DEF ExitDeferred, Record
  <2>4. ExitUnknown(p) => transitions' = transitions \cup {Row("exit_unknown_halt")}
    BY DEF ExitUnknown, Record
  <2>5. "exit_closed" # "entry_opened" /\ "exit_deferred" # "entry_opened"
        /\ "exit_unknown_halt" # "entry_opened"
    OBVIOUS
  <2> HIDE DEF Row
  <2> QED
    BY <1>1, <2>1, <2>2, <2>3, <2>4, <2>5
<1>5. Entries' = Entries
  BY <1>4 DEF Entries
<1>6. \A tranche, d : HasTurn(tranche, d) => HasTurn(tranche, d)'
  BY <1>2 DEF HasTurn, SlotCount, Offset, Sleeve
<1>7. ASSUME NEW t \in Entries PROVE HeldOrSold(positions', transitions', t)
  <2>1. HeldOrSold(positions, transitions, t)
    BY DEF TrancheInv
  <2>2. CASE \E u \in transitions :
               u.kind = "exit_closed" /\ u.tranche = t.tranche /\ u.day >= t.day + Cycle
    BY <1>4, <2>2 DEF HeldOrSold
  <2>3. ASSUME NEW h \in positions, h.tranche = t.tranche, h.entered = t.day, h # p
        PROVE  HeldOrSold(positions', transitions', t)
    <3>1. h \in positions'
      BY <1>1, <2>3 DEF ExitClosed, ExitDeferred, ExitUnknown
    <3> QED
      BY <2>3, <3>1 DEF HeldOrSold
  <2>4. ASSUME p.tranche = t.tranche, p.entered = t.day
        PROVE  HeldOrSold(positions', transitions', t)
    <3>1. CASE ExitClosed(p)
      <4>1. row \in transitions' /\ row.kind = "exit_closed" /\ row.tranche = t.tranche
        BY <1>4, <2>4, <3>1
      <4>2. row.day >= t.day + Cycle
        BY <1>3, <1>4, <2>4
      <4> QED
        BY <4>1, <4>2 DEF HeldOrSold
    <3>2. CASE ExitDeferred(p) \/ ExitUnknown(p)
      <4>1. p \in Positions
        BY DEF TrancheInv, LayerTwoTypeOK
      <4>2. \E h \in positions' : h.tranche = p.tranche /\ h.entered = p.entered
        <5> DEFINE Marked(status) == [p EXCEPT !.status = status]
        <5>1. \A status : Marked(status).tranche = p.tranche /\ Marked(status).entered = p.entered
          BY <4>1 DEF Positions
        <5>2. \E status : Marked(status) \in positions'
          BY <3>2 DEF ExitDeferred, ExitUnknown
        <5> QED
          BY <5>1, <5>2
      <4> QED
        BY <2>4, <4>2 DEF HeldOrSold
    <3> QED
      BY <1>1, <3>1, <3>2
  <2> QED
    BY <2>1, <2>2, <2>3, <2>4 DEF HeldOrSold
<1>8. \A t \in transitions' : t.day =< day'
  BY <1>2, <1>4, SMT DEF TrancheInv
<1>9. \A t \in Entries' : t.day >= 2 /\ HasTurn(t.tranche, t.day - 1)'
  BY <1>5, <1>6 DEF TrancheInv
<1>10. ATrancheRestsACycle'
  BY <1>5 DEF ATrancheRestsACycle, TrancheInv
<1> QED
  BY <1>5, <1>7, <1>8, <1>9, <1>10 DEF TrancheInv

\* The passing of a day, and a step that changes nothing, keep it.
LEMMA WaitKeepsTrancheInv ==
    ASSUME TrancheInv, LayerTwoTypeOK', NextDay \/ UNCHANGED vars
    PROVE  TrancheInv'
<1>1. UNCHANGED <<budget, positions, transitions>> /\ day' >= day
  <2>1. day \in Nat
    BY MoneyAssumption, SMT DEF TrancheInv, LayerTwoTypeOK
  <2> QED
    BY <2>1, SMT DEF NextDay, vars
<1>2. \A tranche, d : HasTurn(tranche, d) => HasTurn(tranche, d)'
  BY <1>1 DEF HasTurn, SlotCount, Offset, Sleeve
<1>3. Entries' = Entries
  BY <1>1 DEF Entries
<1>4. \A t \in transitions' : t.day =< day'
  <2>1. \A t \in transitions : t.day \in Nat /\ t.day =< day
    BY DEF TrancheInv, LayerTwoTypeOK, Rows
  <2>2. day \in Nat /\ day' \in Nat
    BY MoneyAssumption, SMT DEF TrancheInv, LayerTwoTypeOK
  <2> QED
    BY <1>1, <2>1, <2>2, SMT
<1>5. ATrancheRestsACycle'
  BY <1>3 DEF ATrancheRestsACycle, TrancheInv
<1>6. \A t \in Entries' : t.day >= 2 /\ HasTurn(t.tranche, t.day - 1)'
  BY <1>2, <1>3 DEF TrancheInv
<1>7. \A t \in Entries' : HeldOrSold(positions', transitions', t)
  BY <1>1, <1>3 DEF TrancheInv
<1> QED
  BY <1>4, <1>5, <1>6, <1>7 DEF TrancheInv

\* In no history is a tranche entered twice within two cycles.
THEOREM TranchesRest == Spec => []ATrancheRestsACycle
<1>1. Init /\ LayerTwoTypeOK => TrancheInv
  BY DEF Init, TrancheInv, ATrancheRestsACycle, Entries
<1>2. TrancheInv /\ LayerTwoTypeOK' /\ [Next]_vars => TrancheInv'
  BY EnterKeepsTrancheInv, ExitKeepsTrancheInv, WaitKeepsTrancheInv DEF Next
<1>3. TrancheInv => ATrancheRestsACycle
  BY DEF TrancheInv
<1> QED
  BY <1>1, <1>2, <1>3, LayerTwoTypes, PTL DEF Spec

-----------------------------------------------------------------------------
(* Sales *)

\* A blocked day is a known one.
LEMMA BlockedIsKnown ==
    ASSUME NEW q, Attempt(q) = "blocked"
    PROVE  q.status # "unknown"
BY DEF Attempt

\* In no history is a stock sold before its scheduled day, or on a later day than
\* the first that was open to sellers, or past a day nothing is known of.
THEOREM SalesAreFirstOpenDays == Spec => []SoldOnTheFirstOpenDay
<1> DEFINE Sold(t) ==
        /\ t.day >= t.entered + Cycle
        /\ Attempt(Quote(t.symbol, t.day)) = "exitable"
        /\ \A e \in (t.entered + Cycle)..(t.day - 1) :
              Quote(t.symbol, e).status # "unknown" /\ Attempt(Quote(t.symbol, e)) = "blocked"
<1>1. Init => SoldOnTheFirstOpenDay
  BY DEF Init, SoldOnTheFirstOpenDay
<1>2. SoldOnTheFirstOpenDay /\ [Next]_vars => SoldOnTheFirstOpenDay'
  <2> SUFFICES ASSUME SoldOnTheFirstOpenDay, [Next]_vars PROVE SoldOnTheFirstOpenDay'
    OBVIOUS
  <2>1. UNCHANGED world
    BY DEF Next, vars, Enter, Exit, NextDay
  <2>2. \A t \in transitions : t.kind = "exit_closed" => Sold(t)
    BY DEF SoldOnTheFirstOpenDay
  <2>3. ASSUME NEW t \in transitions', t.kind = "exit_closed" PROVE t \in transitions \/ Sold(t)
    <3>1. CASE Enter
      BY <2>3, <3>1 DEF Enter, Record
    <3>2. CASE Exit
      <4>1. PICK p \in positions : ObservedUntil(p, day) /\ (ExitClosed(p) \/ ExitDeferred(p) \/ ExitUnknown(p))
        BY <3>2 DEF Exit
      <4>2. CASE ExitClosed(p)
        <5> DEFINE row == [day |-> day, kind |-> "exit_closed", tranche |-> p.tranche,
                           symbol |-> p.symbol, entered |-> p.entered]
        <5>1. transitions' = transitions \cup {row} /\ Attempt(Quote(p.symbol, day)) = "exitable"
          BY <4>2 DEF ExitClosed, Record
        <5>2. row.day = day /\ row.symbol = p.symbol /\ row.entered = p.entered
          OBVIOUS
        <5>3. \A e \in (p.entered + Cycle)..(day - 1) : Attempt(Quote(p.symbol, e)) = "blocked"
          BY <4>1 DEF ObservedUntil, ScheduledExit
        <5>4. \A e \in (p.entered + Cycle)..(day - 1) : Quote(p.symbol, e).status # "unknown"
          BY <5>3, BlockedIsKnown
        <5>5. day >= p.entered + Cycle
          BY <4>1 DEF ObservedUntil, ScheduledExit
        <5> HIDE DEF row
        <5>6. Sold(row)
          BY <5>1, <5>2, <5>3, <5>4, <5>5
        <5> QED
          BY <2>3, <5>1, <5>6
      <4>3. CASE ExitDeferred(p)
        BY <2>3, <4>3 DEF ExitDeferred, Record
      <4>4. CASE ExitUnknown(p)
        BY <2>3, <4>4 DEF ExitUnknown, Record
      <4> QED
        BY <4>1, <4>2, <4>3, <4>4
    <3>3. CASE NextDay \/ UNCHANGED vars
      BY <2>3, <3>3 DEF NextDay, vars
    <3> QED
      BY <3>1, <3>2, <3>3 DEF Next
  <2>4. \A t \in transitions' : t.kind = "exit_closed" => Sold(t)
    BY <2>2, <2>3
  <2>5. \A s, e : Quote(s, e)' = Quote(s, e)
    BY <2>1 DEF Quote
  <2> QED
    BY <2>4, <2>1 DEF SoldOnTheFirstOpenDay, Quote, Attempt
<1> QED
  BY <1>1, <1>2, PTL DEF Spec

-----------------------------------------------------------------------------
(* Runs bound to files *)

\* While a bound run holds a position, what it carries is short of the capital by
\* the commission at least; until it sells, no state of it passes for an entry.
OneAtATime ==
    bound => \/ positions = {}
             \/ \E p : positions = {p} /\ p.notional \in Int /\ cash + p.notional < Capital

LEMMA EnterKeepsOneAtATime ==
    ASSUME LayerTwoTypeOK, OneAtATime, Enter
    PROVE  OneAtATime'
<1> SUFFICES ASSUME bound PROVE OneAtATime'
  BY DEF OneAtATime, Enter
<1>1. PICK k \in 0..(SlotCount - 1), s \in Symbols :
        /\ cash + Notional(positions) = Capital
        /\ \E lots \in Affordable(Target(s), BuyPrice(Quote(s, day))) :
              LET p == Opened(s, k, lots, BuyPrice(Quote(s, day)))
              IN  cash' = cash - p.used /\ positions' = positions \cup {p}
  BY DEF Enter, StateAccepted
<1>2. PICK lots \in Affordable(Target(s), BuyPrice(Quote(s, day))) :
        LET p == Opened(s, k, lots, BuyPrice(Quote(s, day)))
        IN  cash' = cash - p.used /\ positions' = positions \cup {p}
  BY <1>1
<1> DEFINE price == BuyPrice(Quote(s, day))
           p == Opened(s, k, lots, price)
<1>3. cash \in Int /\ Capital \in Int
  BY MoneyAssumption, SMT DEF LayerTwoTypeOK
<1>4. positions = {}
  <2>1. ASSUME NEW h, positions = {h}, h.notional \in Int, cash + h.notional < Capital PROVE FALSE
    <3>1. Notional(positions) = h.notional
      BY <2>1, OneCarried
    <3> QED
      BY <1>1, <1>3, <2>1, <3>1, SMT
  <2> QED
    BY <2>1 DEF OneAtATime
<1>5. cash = Capital
  <2>1. Notional({}) = 0
    <3> DEFINE none == [notional |-> 0]
    <3>1. none.notional \in Int
      OBVIOUS
    <3> QED
      BY <3>1, OneCarried
  <2> QED
    BY <1>1, <1>3, <1>4, <2>1, SMT
<1>6. price \in Int /\ lots \in Int
  <2>1. Quote(s, day) \in Quotes
    BY QuotesAreTyped DEF Quote, LayerTwoTypeOK
  <2>2. lots \in Int
    BY SMT DEF Affordable
  <2> QED
    BY <2>1, <2>2, PricesAreWhole
<1>7. positions' = {p} /\ cash' = Capital - p.used
  BY <1>2, <1>4, <1>5
<1>8. p.notional = lots * price /\ p.used = Cost(lots, price)
  BY DEF Opened
<1> HIDE DEF price, p
<1>9. p.notional \in Int
  BY <1>6, <1>8, SMT
<1>10. Commission(lots * price) \in Int /\ Commission(lots * price) >= 5
  BY <1>8, <1>9, CommissionIsCharged
<1>11. p.used = p.notional + Commission(lots * price)
  BY <1>8 DEF Cost
<1>12. cash' + p.notional < Capital
  BY <1>3, <1>7, <1>9, <1>10, <1>11, SMT
<1> QED
  BY <1>7, <1>9, <1>12 DEF OneAtATime

LEMMA ExitKeepsOneAtATime ==
    ASSUME LayerTwoTypeOK, OneAtATime, Exit
    PROVE  OneAtATime'
<1> SUFFICES ASSUME bound PROVE OneAtATime'
  BY DEF OneAtATime, Exit
<1>1. PICK p \in positions : ExitClosed(p) \/ ExitDeferred(p) \/ ExitUnknown(p)
  BY DEF Exit
<1>2. positions = {p} /\ p.notional \in Int /\ cash + p.notional < Capital
  BY <1>1 DEF OneAtATime
<1>3. CASE ExitClosed(p)
  BY <1>2, <1>3 DEF ExitClosed, OneAtATime
<1>4. CASE ExitDeferred(p) \/ ExitUnknown(p)
  <2>1. p \in Positions
    BY <1>1 DEF LayerTwoTypeOK
  <2> DEFINE Marked(status) == [p EXCEPT !.status = status]
  <2>2. \A status : Marked(status).notional = p.notional
    BY <2>1 DEF Positions
  <2>3. PICK status : positions' = (positions \ {p}) \cup {Marked(status)} /\ cash' = cash
    BY <1>4 DEF ExitDeferred, ExitUnknown
  <2> HIDE DEF Marked
  <2>4. positions' = {Marked(status)}
    BY <1>2, <2>3
  <2> QED
    BY <1>2, <2>2, <2>3, <2>4 DEF OneAtATime
<1> QED
  BY <1>1, <1>3, <1>4

\* In no history of a run bound to files are two positions held.
THEOREM BoundRunsHoldOne == Spec => []ABoundRunHoldsOnePosition
<1>1. Init => OneAtATime
  BY DEF Init, OneAtATime
<1>2. LayerTwoTypeOK /\ OneAtATime /\ [Next]_vars => OneAtATime'
  <2>1. LayerTwoTypeOK /\ OneAtATime /\ (NextDay \/ UNCHANGED vars) => OneAtATime'
    BY DEF OneAtATime, NextDay, vars
  <2> QED
    BY <2>1, EnterKeepsOneAtATime, ExitKeepsOneAtATime DEF Next
<1>3. OneAtATime => ABoundRunHoldsOnePosition
  <2> SUFFICES ASSUME OneAtATime, bound PROVE Cardinality(positions) =< 1
    BY DEF ABoundRunHoldsOnePosition
  <2>1. CASE positions = {}
    <3>1. Cardinality(positions) = 0
      BY <2>1, FS_EmptySet
    <3> QED
      BY <3>1, SMT
  <2>2. ASSUME NEW p, positions = {p} PROVE Cardinality(positions) =< 1
    <3>1. Cardinality(positions) = 1
      BY <2>2, FS_Singleton
    <3> QED
      BY <3>1, SMT
  <2> QED
    BY <2>1, <2>2 DEF OneAtATime
<1> QED
  BY <1>1, <1>2, <1>3, LayerTwoTypes, PTL DEF Spec

-----------------------------------------------------------------------------
(* The sleeve *)

InCluster(S, c) == {p \in S : p.cluster = c}

\* What CarriedWithinTheSleeve says, of any set of positions, sleeve and cap, and
\* for clusters without a position too.
Fits(S, sleeve, cap) ==
    /\ IsFiniteSet(S)
    /\ \A p \in S : p.notional \in Nat
    /\ Notional(S) =< sleeve
    /\ \A p, q \in S : p # q => p.symbol # q.symbol /\ p.tranche # q.tranche
    /\ \A c : Cardinality(InCluster(S, c)) =< 2 /\ Notional(InCluster(S, c)) =< cap

\* A cluster of a finite set is finite and its counts are numbers.
LEMMA ClustersAreWhole ==
  ASSUME NEW S, IsFiniteSet(S), \A p \in S : p.notional \in Nat, NEW c
  PROVE  /\ IsFiniteSet(InCluster(S, c)) /\ \A p \in InCluster(S, c) : p.notional \in Int
         /\ Cardinality(InCluster(S, c)) \in Nat /\ Notional(InCluster(S, c)) \in Int
         /\ Notional(S) \in Int
<1>1. InCluster(S, c) \subseteq S BY DEF InCluster
<1>2. IsFiniteSet(InCluster(S, c)) BY <1>1, FS_Subset
<1>3. \A p \in InCluster(S, c) : p.notional \in Int BY <1>1
<1>4. \A p \in S : p.notional \in Int OBVIOUS
<1> QED BY <1>2, <1>3, <1>4, FS_CardinalityType, NotionalIsWhole

\* What fits still fits with a position less, and that leaves as much room in the
\* sleeve and in its cluster as it took.
LEMMA FitsWithout ==
  ASSUME NEW sleeve \in Int, NEW cap \in Int, NEW S, Fits(S, sleeve, cap), NEW p \in S
  PROVE  /\ Fits(S \ {p}, sleeve, cap)
         /\ Notional(S \ {p}) + p.notional =< sleeve
         /\ Cardinality(InCluster(S \ {p}, p.cluster)) < 2
         /\ Notional(InCluster(S \ {p}, p.cluster)) + p.notional =< cap
<1> DEFINE T == S \ {p}
<1>1. IsFiniteSet(S) /\ (\A q \in S : q.notional \in Nat) /\ Notional(S) =< sleeve BY DEF Fits
<1>2. IsFiniteSet(T) BY <1>1, FS_RemoveElement
<1>3. \A q \in S : q.notional \in Int BY <1>1
<1>4. /\ Notional(S) \in Int /\ Notional(T) \in Int
      /\ Notional(S) = p.notional + Notional(T)
  BY <1>1, <1>3, NotionalDrops
<1>5. p.notional \in Nat BY <1>1
<1>6. Notional(T) + p.notional =< sleeve /\ Notional(T) =< sleeve BY <1>1, <1>4, <1>5
<1>7. \A c : Cardinality(InCluster(S, c)) =< 2 /\ Notional(InCluster(S, c)) =< cap BY DEF Fits
<1>8. InCluster(T, p.cluster) = InCluster(S, p.cluster) \ {p} BY DEF InCluster
<1>9. /\ Cardinality(InCluster(T, p.cluster)) < 2
      /\ Notional(InCluster(T, p.cluster)) + p.notional =< cap
      /\ Notional(InCluster(T, p.cluster)) =< cap
  <2> DEFINE C == InCluster(S, p.cluster)
  <2>1. p \in C BY DEF InCluster
  <2>2. IsFiniteSet(C) /\ (\A q \in C : q.notional \in Int) /\ Cardinality(C) \in Nat
    BY <1>1, ClustersAreWhole
  <2>3. Cardinality(C) =< 2 /\ Notional(C) =< cap BY <1>7
  <2> HIDE DEF C
  <2>4. Cardinality(C \ {p}) = Cardinality(C) - 1 BY <2>1, <2>2, FS_RemoveElement
  <2>5. /\ Notional(C) \in Int /\ Notional(C \ {p}) \in Int
        /\ Notional(C) = p.notional + Notional(C \ {p})
    BY <2>1, <2>2, NotionalDrops
  <2>6. Cardinality(C \ {p}) < 2 BY <2>2, <2>3, <2>4
  <2>7. Notional(C \ {p}) + p.notional =< cap /\ Notional(C \ {p}) =< cap BY <1>5, <2>3, <2>5
  <2> QED BY <1>8, <2>6, <2>7 DEF C
<1>10. \A c : Cardinality(InCluster(T, c)) =< 2 /\ Notional(InCluster(T, c)) =< cap
  <2> TAKE c
  <2>1. CASE c = p.cluster
    <3>1. Cardinality(InCluster(T, p.cluster)) \in Nat BY <1>1, <1>2, ClustersAreWhole
    <3> QED BY <1>9, <2>1, <3>1
  <2>2. CASE c # p.cluster
    <3>1. InCluster(T, c) = InCluster(S, c) BY <2>2 DEF InCluster
    <3> QED BY <1>7, <3>1
  <2> QED BY <2>1, <2>2
<1>11. \A q, r \in T : q # r => q.symbol # r.symbol /\ q.tranche # r.tranche BY DEF Fits
<1>12. \A q \in T : q.notional \in Nat BY <1>1
<1>13. Fits(T, sleeve, cap) BY <1>2, <1>6, <1>10, <1>11, <1>12 DEF Fits
<1> QED BY <1>6, <1>9, <1>13

\* What fits, with a position more that has a stock and a tranche of its own and
\* finds room in the sleeve and in its cluster, fits.
LEMMA FitsWith ==
  ASSUME NEW sleeve \in Int, NEW cap \in Int, NEW S, Fits(S, sleeve, cap),
         NEW q, q.notional \in Nat, \A p \in S : p.symbol # q.symbol /\ p.tranche # q.tranche,
         Notional(S) + q.notional =< sleeve,
         Cardinality(InCluster(S, q.cluster)) < 2,
         Notional(InCluster(S, q.cluster)) + q.notional =< cap
  PROVE  Fits(S \cup {q}, sleeve, cap)
<1> DEFINE T == S \cup {q}
<1>1. IsFiniteSet(S) /\ (\A p \in S : p.notional \in Nat) BY DEF Fits
<1>2. q \notin S OBVIOUS
<1>3. \A p \in S : p.notional \in Int BY <1>1
<1>4. Notional(T) =< sleeve
  <2>1. Notional(T) = Notional(S) + q.notional BY <1>1, <1>2, <1>3, NotionalAdds
  <2> QED BY <2>1
<1>5. \A c : Cardinality(InCluster(T, c)) =< 2 /\ Notional(InCluster(T, c)) =< cap
  <2> TAKE c
  <2> DEFINE C == InCluster(S, q.cluster)
  <2>1. CASE c = q.cluster
    <3>1. InCluster(T, c) = C \cup {q} /\ q \notin C BY <1>2, <2>1 DEF InCluster
    <3>2. IsFiniteSet(C) /\ (\A p \in C : p.notional \in Int) /\ Cardinality(C) \in Nat
      BY <1>1, ClustersAreWhole
    <3>3. Cardinality(C) < 2 /\ Notional(C) + q.notional =< cap OBVIOUS
    <3> HIDE DEF C
    <3>4. Cardinality(C \cup {q}) = Cardinality(C) + 1 BY <3>1, <3>2, FS_AddElement
    <3>5. Notional(C \cup {q}) = Notional(C) + q.notional BY <3>1, <3>2, NotionalAdds
    <3>6. Cardinality(C \cup {q}) =< 2 /\ Notional(C \cup {q}) =< cap BY <3>2, <3>3, <3>4, <3>5
    <3> HIDE DEF T
    <3> QED BY <3>1, <3>6, Zenon
  <2>2. CASE c # q.cluster
    <3>1. InCluster(T, c) = InCluster(S, c) BY <2>2 DEF InCluster
    <3> QED BY <3>1 DEF Fits
  <2> QED BY <2>1, <2>2
<1>6. IsFiniteSet(T) BY <1>1, FS_AddElement
<1>7. \A p, r \in T : p # r => p.symbol # r.symbol /\ p.tranche # r.tranche BY DEF Fits
<1>8. \A p \in T : p.notional \in Nat BY <1>1
<1> QED BY <1>4, <1>5, <1>6, <1>7, <1>8 DEF Fits

\* The sleeve, the cap of a cluster and the target of a slot are whole amounts.
LEMMA SleeveIsWhole ==
  ASSUME LayerTwoTypeOK
  PROVE  /\ Sleeve \in Nat /\ ClusterCap \in Nat
         /\ \A s \in Symbols : SlotCount > 0 => Target(s) \in Int
<1>1. /\ budget \in Nat /\ MaxSlots[budget] \in Int /\ Capital \in Nat /\ MinSlot \in Nat \ {0}
      /\ world \in Worlds
  <2>1. budget \in Nat /\ MaxSlots[budget] \in 0..Cycle BY SlotsAssumption DEF LayerTwoTypeOK
  <2>2. MaxSlots[budget] \in Int BY <2>1, CycleAssumption, SMT
  <2> QED BY <2>1, <2>2, MoneyAssumption DEF LayerTwoTypeOK
<1>2. Sleeve \in Nat
  <2>1. Capital * budget \in Nat BY <1>1, SMT
  <2> QED BY <2>1, SMT DEF Sleeve
<1>3. ClusterCap \in Nat BY <1>2, SMT DEF ClusterCap
<1>4. SlotCount \in Int
  <2> DEFINE room == Sleeve \div MinSlot
  <2>1. room \in Int BY <1>1, <1>2, SMT
  <2> HIDE DEF room
  <2>2. \E x \in {MaxSlots[budget], room} : \A y \in {MaxSlots[budget], room} : x =< y
    BY <1>1, <2>1, SMT
  <2>3. Min({MaxSlots[budget], room}) \in {MaxSlots[budget], room} BY <2>2 DEF Min
  <2> QED BY <1>1, <2>1, <2>3 DEF SlotCount, room
<1>5. ASSUME NEW s \in Symbols, SlotCount > 0 PROVE Target(s) \in Int
  <2>1. world.factor[s] \in Int
    <3>1. world.factor \in [Symbols -> 0..1000] BY <1>1, WorldsAssumption
    <3> QED BY <3>1
  <2>2. SlotNotional \in Int BY <1>2, <1>4, <1>5, SMT DEF SlotNotional
  <2>3. SlotNotional * world.factor[s] \in Int BY <2>1, <2>2, SMT
  <2> QED BY <2>3, SMT DEF Target
<1> QED BY <1>2, <1>3, <1>5

\* A buy price is never negative.
LEMMA BuysArePaid ==
  ASSUME NEW q \in Quotes
  PROVE  BuyPrice(q) \in Nat
<1> DEFINE up == q.open + ((q.open * 5) \div 10000)
<1>1. up \in Nat /\ q.high \in Nat BY SMT DEF Quotes
<1> HIDE DEF up
<1>2. \E x \in {up, q.high} : \A y \in {up, q.high} : x =< y BY <1>1, SMT
<1>3. Min({up, q.high}) \in {up, q.high} BY <1>2 DEF Min
<1> QED BY <1>1, <1>3 DEF BuyPrice, up

SleeveInv == Fits(positions, Sleeve, ClusterCap)

\* An entry takes the room the allocator saw, and no more: the target pays for
\* the stock and its commission.
LEMMA EnterKeepsSleeveInv ==
  ASSUME LayerTwoTypeOK, SleeveInv, Enter
  PROVE  SleeveInv'
<1>1. PICK k \in 0..(SlotCount - 1), s \in Symbols :
        /\ GatePassed(k)
        /\ Admissible(s, day - 1)
        /\ \E lots \in Affordable(Target(s), BuyPrice(Quote(s, day))) :
              LET p == Opened(s, k, lots, BuyPrice(Quote(s, day)))
              IN  positions' = positions \cup {p}
  BY DEF Enter, Proposed
<1>2. PICK lots \in Affordable(Target(s), BuyPrice(Quote(s, day))) :
        LET p == Opened(s, k, lots, BuyPrice(Quote(s, day)))
        IN  positions' = positions \cup {p}
  BY <1>1
<1> DEFINE price == BuyPrice(Quote(s, day))
           p == Opened(s, k, lots, price)
<1>3. Sleeve \in Nat /\ ClusterCap \in Nat /\ Target(s) \in Int
  BY <1>1, SleeveIsWhole DEF GatePassed
<1>4. price \in Nat
  <2>1. Quote(s, day) \in Quotes BY QuotesAreTyped DEF Quote, LayerTwoTypeOK
  <2> QED BY <2>1, BuysArePaid
<1>5. lots \in Nat /\ Cost(lots, price) =< Target(s)
  <2>1. lots \in Nat BY SMT DEF Affordable
  <2>2. Cost(lots, price) =< Target(s) BY DEF Affordable
  <2> QED BY <2>1, <2>2
<1>6. /\ p.symbol = s /\ p.tranche = k /\ p.cluster = Cluster(s, day - 1)
      /\ p.notional = lots * price
  BY DEF Opened
<1>7. positions' = positions \cup {p} BY <1>2
<1>8. UNCHANGED <<Sleeve, ClusterCap>> BY DEF Enter, Sleeve, ClusterCap
<1> HIDE DEF price, p
<1>9. p.notional \in Nat /\ p.notional =< Target(s)
  <2>1. lots * price \in Nat BY <1>4, <1>5, SMT
  <2>2. Commission(lots * price) \in Int /\ Commission(lots * price) >= 5
    BY <2>1, CommissionIsCharged
  <2>3. Cost(lots, price) = lots * price + Commission(lots * price) BY DEF Cost
  <2> DEFINE n == lots * price
  <2>4. n \in Nat /\ n + Commission(n) =< Target(s) BY <1>5, <2>1, <2>3
  <2>5. Commission(n) \in Int /\ Commission(n) >= 5 BY <2>2
  <2> HIDE DEF n
  <2>6. n =< Target(s) BY <1>3, <2>4, <2>5
  <2> QED BY <1>6, <2>4, <2>6 DEF n
<1>10. \A h \in positions : h.symbol # p.symbol /\ h.tranche # p.tranche
  BY <1>1, <1>6 DEF Admissible, GatePassed
<1>11. OfCluster(p.cluster) = InCluster(positions, p.cluster) BY DEF OfCluster, InCluster
<1>12. /\ Notional(positions) + Target(s) =< Sleeve
       /\ Cardinality(InCluster(positions, p.cluster)) < 2
       /\ Notional(InCluster(positions, p.cluster)) + Target(s) =< ClusterCap
  BY <1>1, <1>6, <1>11 DEF Admissible
<1>13. Notional(positions) \in Int /\ Notional(InCluster(positions, p.cluster)) \in Int
  BY ClustersAreWhole DEF SleeveInv, Fits
<1>14. /\ Notional(positions) + p.notional =< Sleeve
       /\ Notional(InCluster(positions, p.cluster)) + p.notional =< ClusterCap
  BY <1>3, <1>9, <1>12, <1>13
<1>15. Fits(positions \cup {p}, Sleeve, ClusterCap)
  BY <1>3, <1>9, <1>10, <1>12, <1>14, FitsWith DEF SleeveInv
<1> QED BY <1>7, <1>8, <1>15 DEF SleeveInv

\* An exit leaves at most what it found; a position that is deferred stands in
\* the place it had.
LEMMA ExitKeepsSleeveInv ==
  ASSUME LayerTwoTypeOK, SleeveInv, Exit
  PROVE  SleeveInv'
<1>1. PICK p \in positions : ExitClosed(p) \/ ExitDeferred(p) \/ ExitUnknown(p) BY DEF Exit
<1>2. Sleeve \in Nat /\ ClusterCap \in Nat BY SleeveIsWhole
<1>3. UNCHANGED <<Sleeve, ClusterCap>> BY DEF Exit, Sleeve, ClusterCap
<1>4. /\ Fits(positions \ {p}, Sleeve, ClusterCap)
      /\ Notional(positions \ {p}) + p.notional =< Sleeve
      /\ Cardinality(InCluster(positions \ {p}, p.cluster)) < 2
      /\ Notional(InCluster(positions \ {p}, p.cluster)) + p.notional =< ClusterCap
  BY <1>2, FitsWithout DEF SleeveInv
<1>5. CASE ExitClosed(p)
  <2>1. positions' = positions \ {p} BY <1>5 DEF ExitClosed
  <2> QED BY <1>3, <1>4, <2>1 DEF SleeveInv
<1>6. CASE ExitDeferred(p) \/ ExitUnknown(p)
  <2>1. p \in Positions BY <1>1 DEF LayerTwoTypeOK
  <2> DEFINE Marked(status) == [p EXCEPT !.status = status]
  <2>2. \A status : /\ Marked(status).notional = p.notional /\ Marked(status).cluster = p.cluster
                    /\ Marked(status).symbol = p.symbol /\ Marked(status).tranche = p.tranche
    BY <2>1 DEF Positions
  <2>3. PICK status : positions' = (positions \ {p}) \cup {Marked(status)}
    BY <1>6 DEF ExitDeferred, ExitUnknown
  <2> HIDE DEF Marked
  <2>4. \A h \in positions \ {p} : h.symbol # p.symbol /\ h.tranche # p.tranche
    BY DEF SleeveInv, Fits
  <2>5. p.notional \in Nat BY DEF SleeveInv, Fits
  <2>6. Fits((positions \ {p}) \cup {Marked(status)}, Sleeve, ClusterCap)
    <3> DEFINE q == Marked(status)
    <3>1. q.notional = p.notional /\ q.cluster = p.cluster /\ q.symbol = p.symbol /\ q.tranche = p.tranche
      BY <2>2
    <3> HIDE DEF q
    <3>2. Fits((positions \ {p}) \cup {q}, Sleeve, ClusterCap)
      BY <1>2, <1>4, <2>4, <2>5, <3>1, FitsWith
    <3> QED BY <3>2 DEF q
  <2> QED BY <1>3, <2>3, <2>6 DEF SleeveInv
<1> QED BY <1>1, <1>5, <1>6

\* In no history do the positions carried outgrow the sleeve or a cluster its
\* share, and no two are of one stock or in one tranche.
THEOREM PositionsFitTheSleeve == Spec => []CarriedWithinTheSleeve
<1>1. Init /\ LayerTwoTypeOK => SleeveInv
  <2> SUFFICES ASSUME Init, LayerTwoTypeOK PROVE SleeveInv OBVIOUS
  <2>1. positions = {} BY DEF Init
  <2>2. IsFiniteSet({}) /\ Cardinality({}) = 0 BY FS_EmptySet
  <2>3. Notional({}) = 0 BY <2>2, NotionalUnfolds
  <2>4. \A c : InCluster({}, c) = {} BY DEF InCluster
  <2>5. Sleeve \in Nat /\ ClusterCap \in Nat BY SleeveIsWhole
  <2>6. \A c : Cardinality(InCluster({}, c)) =< 2 /\ Notional(InCluster({}, c)) =< ClusterCap
    BY <2>2, <2>3, <2>4, <2>5
  <2>7. Fits({}, Sleeve, ClusterCap) BY <2>2, <2>3, <2>5, <2>6 DEF Fits
  <2> QED BY <2>1, <2>7 DEF SleeveInv
<1>2. LayerTwoTypeOK /\ SleeveInv /\ [Next]_vars => SleeveInv'
  <2>1. SleeveInv /\ (NextDay \/ UNCHANGED vars) => SleeveInv'
    BY DEF SleeveInv, NextDay, vars, Sleeve, ClusterCap
  <2> QED BY <2>1, EnterKeepsSleeveInv, ExitKeepsSleeveInv DEF Next
<1>3. SleeveInv => CarriedWithinTheSleeve
  <2>1. \A c : OfCluster(c) = InCluster(positions, c) BY DEF OfCluster, InCluster
  <2> QED BY <2>1 DEF SleeveInv, Fits, CarriedWithinTheSleeve
<1> QED BY <1>1, <1>2, <1>3, LayerTwoTypes, PTL DEF Spec
=============================================================================
