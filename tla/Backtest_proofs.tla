--------------------------- MODULE Backtest_proofs ---------------------------
(***************************************************************************)
(* The day loop of the backtest engine keeps its orders, slots, holding    *)
(* days, cooldowns and books, whatever the stocks, the bars, the rankings, *)
(* the configurations and the length of the window.                        *)
(*                                                                         *)
(* The properties hold for reasons that are not in them.  That no order is *)
(* lost needs that what is held, what is being tried and what waits are    *)
(* three sets of stocks within max_positions; that the delay of a waiting  *)
(* order is the number of days since its signal needs the same of orders   *)
(* in the middle of an opening; and that the cash matches the trades needs *)
(* the sum of what the open positions cost.  BacktestInv is their          *)
(* conjunction.  Sums and greatest numbers over finite sets are defined by *)
(* recursion, and what they give is proved from a smallest counterexample. *)
(***************************************************************************)
EXTENDS Backtest, FiniteSetTheorems, SequenceTheorems, WellFoundedInduction, TLAPS

-----------------------------------------------------------------------------
(* Sums over finite sets *)

\* g is a table of the sums of f over the subsets of S.
SumTable(g, f, S) ==
    g = [T \in SUBSET S |-> IF T = {} THEN 0
                            ELSE LET x == CHOOSE x \in T : TRUE IN f[x] + g[T \ {x}]]

\* A nonempty collection of subsets of a finite set has a smallest one.
LEMMA SmallestSubset ==
  ASSUME NEW S, IsFiniteSet(S), NEW B \in SUBSET SUBSET S, B # {}
  PROVE  \E T \in B : \A U \in B : U \subseteq T => U = T
<1>1. IsWellFoundedOn(StrictSubsetOrdering(S), SUBSET S)
  BY FS_StrictSubsetOrderingWellFounded, FS_FiniteSubsetsOfFinite
<1>2. PICK T \in B : \A U \in B : <<U, T>> \notin StrictSubsetOrdering(S)
  <2> HIDE DEF StrictSubsetOrdering
  <2> QED BY <1>1, WFMin
<1> QED BY <1>2 DEF StrictSubsetOrdering

\* The library's sum is the entry of a set in its own table.
LEMMA SumIsItsTable ==
  ASSUME NEW f, NEW S
  PROVE  SumFunctionOnSet(f, S) = (CHOOSE g : SumTable(g, f, S))[S]
BY DEF SumFunctionOnSet, FoldFunctionOnSet, MapThenFoldSet, SumTable

\* Two tables agree where both have an entry.
LEMMA SumTablesAgree ==
  ASSUME NEW f, NEW S, NEW T \in SUBSET S, IsFiniteSet(S), NEW g, NEW h,
         SumTable(g, f, S), SumTable(h, f, T)
  PROVE  g[T] = h[T]
<1> DEFINE B == {U \in SUBSET T : g[U] # h[U]}
<1>1. SUFFICES ASSUME B # {} PROVE FALSE OBVIOUS
<1>2. IsFiniteSet(T) BY FS_Subset
<1>3. PICK U \in B : \A V \in B : V \subseteq U => V = U
  <2>1. B \in SUBSET SUBSET T OBVIOUS
  <2> HIDE DEF B
  <2> QED BY <1>1, <1>2, <2>1, SmallestSubset
<1>4. U \in SUBSET S /\ U \in SUBSET T OBVIOUS
<1>5. U # {} BY <1>3, <1>4 DEF SumTable
<1> DEFINE x == CHOOSE x \in U : TRUE
<1>6. x \in U BY <1>5
<1>7. U \ {x} \notin B BY <1>3, <1>6
<1>8. g[U \ {x}] = h[U \ {x}] BY <1>4, <1>7
<1>9. g[U] = f[x] + g[U \ {x}] BY <1>4, <1>5 DEF SumTable
<1>10. h[U] = f[x] + h[U \ {x}] BY <1>4, <1>5 DEF SumTable
<1> QED BY <1>3, <1>8, <1>9, <1>10

\* Every finite set has its table of sums.
LEMMA SumTableExists ==
  ASSUME NEW f, NEW S, IsFiniteSet(S)
  PROVE  \E g : SumTable(g, f, S)
<1> DEFINE B == {T \in SUBSET S : ~ \E g : SumTable(g, f, T)}
<1>1. SUFFICES ASSUME B # {} PROVE FALSE OBVIOUS
<1>2. PICK T \in B : \A V \in B : V \subseteq T => V = T
  <2>1. B \in SUBSET SUBSET S OBVIOUS
  <2> HIDE DEF B
  <2> QED BY <1>1, <2>1, SmallestSubset
<1> DEFINE table(U) == CHOOSE g : SumTable(g, f, U)
<1>3. \A U \in SUBSET T : U # T => SumTable(table(U), f, U)
  <2> TAKE U \in SUBSET T
  <2> HAVE U # T
  <2>1. U \in SUBSET S /\ U \notin B BY <1>2
  <2>2. \E g : SumTable(g, f, U) BY <2>1
  <2> QED BY <2>2
<1> DEFINE sum(U) == table(U)[U]
           x == CHOOSE x \in T : TRUE
           g == [U \in SUBSET T |-> IF U # T THEN sum(U)
                                    ELSE IF T = {} THEN 0 ELSE f[x] + sum(T \ {x})]
<1>4. ASSUME NEW U \in SUBSET T, U # T, U # {}, NEW y, y = CHOOSE z \in U : TRUE
      PROVE  sum(U) = f[y] + sum(U \ {y})
  <2>1. SumTable(table(U), f, U) BY <1>3, <1>4
  <2>2. y \in U BY <1>4
  <2>3. U \ {y} \in SUBSET T /\ U \ {y} # T BY <2>2
  <2>4. SumTable(table(U \ {y}), f, U \ {y}) BY <1>3, <2>3
  <2>5. IsFiniteSet(U)
    <3>1. U \in SUBSET S BY <1>2
    <3> QED BY <3>1, FS_Subset
  <2> HIDE DEF table
  <2>6. table(U)[U] = f[y] + table(U)[U \ {y}] BY <1>4, <2>1 DEF SumTable
  <2>7. table(U)[U \ {y}] = table(U \ {y})[U \ {y}]
    <3>1. U \ {y} \in SUBSET U OBVIOUS
    <3> QED BY <2>1, <2>4, <2>5, <3>1, SumTablesAgree
  <2> QED BY <2>6, <2>7
<1>5. ASSUME {} # T PROVE sum({}) = 0
  <2>1. SumTable(table({}), f, {}) BY <1>3, <1>5
  <2> HIDE DEF table
  <2> QED BY <2>1 DEF SumTable
<1>6. \A U \in SUBSET T :
         g[U] = IF U = {} THEN 0
                ELSE LET y == CHOOSE y \in U : TRUE IN f[y] + g[U \ {y}]
  <2> HIDE DEF table
  <2> SUFFICES ASSUME NEW U \in SUBSET T
               PROVE  g[U] = IF U = {} THEN 0
                             ELSE LET y == CHOOSE y \in U : TRUE IN f[y] + g[U \ {y}]
      OBVIOUS
  <2>1. CASE U = {}
    <3> HIDE DEF sum
    <3> QED BY <1>5, <2>1
  <2>2. CASE U # {}
    <3> DEFINE y == CHOOSE y \in U : TRUE
    <3>1. y \in U BY <2>2
    <3>2. U \ {y} \in SUBSET T /\ U \ {y} # T BY <3>1
    <3>3. g[U \ {y}] = sum(U \ {y}) BY <3>2
    <3>4. CASE U # T
      <4>1. sum(U) = f[y] + sum(U \ {y})
        <5> HIDE DEF sum
        <5> QED BY <1>4, <2>2, <3>4
      <4> QED BY <2>2, <3>3, <3>4, <4>1
    <3>5. CASE U = T
      <4>1. T # {} /\ y = x BY <2>2, <3>5
      <4>2. g[T] = f[x] + sum(T \ {x}) BY <4>1
      <4> QED BY <2>2, <3>3, <3>5, <4>1, <4>2
    <3> QED BY <3>4, <3>5
  <2> QED BY <2>1, <2>2
<1>7. SumTable(g, f, T)
  <2>1. g = [U \in SUBSET T |-> g[U]] OBVIOUS
  <2> HIDE DEF g
  <2> QED BY <1>6, <2>1 DEF SumTable
<1> QED BY <1>2, <1>7

\* The sum over nothing, and the sum over a set from that over one element less.
LEMMA SumUnfolds ==
  ASSUME NEW f, NEW S, IsFiniteSet(S)
  PROVE  /\ S = {} => SumFunctionOnSet(f, S) = 0
         /\ S # {} => LET x == CHOOSE x \in S : TRUE
                      IN  SumFunctionOnSet(f, S) = f[x] + SumFunctionOnSet(f, S \ {x})
<1> DEFINE table(U) == CHOOSE g : SumTable(g, f, U)
           x == CHOOSE x \in S : TRUE
<1>1. SumTable(table(S), f, S) BY SumTableExists
<1>2. IsFiniteSet(S \ {x}) BY FS_RemoveElement
<1>3. SumTable(table(S \ {x}), f, S \ {x}) BY <1>2, SumTableExists
<1>4. SumFunctionOnSet(f, S) = table(S)[S] BY SumIsItsTable
<1>5. SumFunctionOnSet(f, S \ {x}) = table(S \ {x})[S \ {x}] BY SumIsItsTable
<1> HIDE DEF table
<1>6. CASE S = {} BY <1>1, <1>4, <1>6 DEF SumTable
<1>7. CASE S # {}
  <2>1. table(S)[S] = f[x] + table(S)[S \ {x}] BY <1>1, <1>7 DEF SumTable
  <2>2. table(S)[S \ {x}] = table(S \ {x})[S \ {x}]
    <3>1. S \ {x} \in SUBSET S OBVIOUS
    <3> HIDE DEF x
    <3> QED BY <1>1, <1>3, <3>1, SumTablesAgree
  <2> QED BY <1>4, <1>5, <1>7, <2>1, <2>2
<1> QED BY <1>6, <1>7

\* A sum of integers is an integer.
LEMMA SumOfIntegers ==
  ASSUME NEW f, NEW S, IsFiniteSet(S), \A x \in S : f[x] \in Int
  PROVE  SumFunctionOnSet(f, S) \in Int
<1> DEFINE B == {T \in SUBSET S : SumFunctionOnSet(f, T) \notin Int}
<1>1. SUFFICES ASSUME B # {} PROVE FALSE OBVIOUS
<1>2. PICK T \in B : \A V \in B : V \subseteq T => V = T
  <2>1. B \in SUBSET SUBSET S OBVIOUS
  <2> HIDE DEF B
  <2> QED BY <1>1, <2>1, SmallestSubset
<1>3. IsFiniteSet(T) BY FS_Subset
<1>4. T # {}
  <2>1. SUFFICES ASSUME T = {} PROVE FALSE OBVIOUS
  <2>2. SumFunctionOnSet(f, T) = 0 BY <1>3, <2>1, SumUnfolds
  <2> QED BY <1>2, <2>2
<1> DEFINE x == CHOOSE x \in T : TRUE
<1>5. x \in T BY <1>4
<1>6. T \ {x} \notin B BY <1>2, <1>5
<1>7. SumFunctionOnSet(f, T \ {x}) \in Int BY <1>6
<1>8. SumFunctionOnSet(f, T) = f[x] + SumFunctionOnSet(f, T \ {x}) BY <1>3, <1>4, SumUnfolds
<1>9. f[x] \in Int BY <1>5
<1> QED BY <1>2, <1>7, <1>8, <1>9

\* Any element may be taken out of a sum of integers, not only the chosen one.
LEMMA SumWithout ==
  ASSUME NEW f, NEW S, IsFiniteSet(S), \A x \in S : f[x] \in Int, NEW y \in S
  PROVE  SumFunctionOnSet(f, S) = f[y] + SumFunctionOnSet(f, S \ {y})
<1> DEFINE sum(T) == SumFunctionOnSet(f, T)
           B == {T \in SUBSET S : \E z \in T : sum(T) # f[z] + sum(T \ {z})}
<1>1. SUFFICES ASSUME B # {} PROVE FALSE OBVIOUS
<1>2. PICK T \in B : \A V \in B : V \subseteq T => V = T
  <2>1. B \in SUBSET SUBSET S OBVIOUS
  <2> HIDE DEF B
  <2> QED BY <1>1, <2>1, SmallestSubset
<1>3. PICK z \in T : sum(T) # f[z] + sum(T \ {z}) BY <1>2
<1> DEFINE x == CHOOSE x \in T : TRUE
<1>4. x \in T BY <1>3
<1>5. IsFiniteSet(T) BY FS_Subset
<1>6. sum(T) = f[x] + sum(T \ {x}) BY <1>4, <1>5, SumUnfolds
<1>7. x # z BY <1>3, <1>6
<1>8. \A U \in SUBSET T : IsFiniteSet(U) /\ sum(U) \in Int
  <2> TAKE U \in SUBSET T
  <2>1. IsFiniteSet(U) BY <1>5, FS_Subset
  <2>2. \A u \in U : f[u] \in Int OBVIOUS
  <2> QED BY <2>1, <2>2, SumOfIntegers
<1> HIDE DEF x, sum
<1>9. sum(T \ {x}) = f[z] + sum((T \ {x}) \ {z})
  <2>1. T \ {x} \notin B BY <1>2, <1>4
  <2> QED BY <1>3, <1>7, <2>1
<1>10. sum(T \ {z}) = f[x] + sum((T \ {z}) \ {x})
  <2>1. T \ {z} \notin B BY <1>2, <1>3
  <2> QED BY <1>4, <1>7, <2>1
<1>11. (T \ {x}) \ {z} = (T \ {z}) \ {x} OBVIOUS
<1>12. sum((T \ {x}) \ {z}) \in Int BY <1>8
<1>13. f[x] \in Int /\ f[z] \in Int BY <1>3, <1>4
<1>14. sum((T \ {z}) \ {x}) = sum((T \ {x}) \ {z}) BY <1>11, Zenon
<1> DEFINE rest == sum((T \ {x}) \ {z})
<1>15. rest \in Int /\ sum(T) = f[x] + (f[z] + rest) /\ sum(T \ {z}) = f[x] + rest
  BY <1>6, <1>9, <1>10, <1>12, <1>14, Zenon
<1> HIDE DEF rest
<1> QED BY <1>3, <1>13, <1>15

\* A sum looks at the values over its own set only.
LEMMA SumOfTheSame ==
  ASSUME NEW f, NEW g, NEW S, IsFiniteSet(S), \A x \in S : f[x] = g[x]
  PROVE  SumFunctionOnSet(f, S) = SumFunctionOnSet(g, S)
<1> DEFINE B == {T \in SUBSET S : SumFunctionOnSet(f, T) # SumFunctionOnSet(g, T)}
<1>1. SUFFICES ASSUME B # {} PROVE FALSE OBVIOUS
<1>2. PICK T \in B : \A V \in B : V \subseteq T => V = T
  <2>1. B \in SUBSET SUBSET S OBVIOUS
  <2> HIDE DEF B
  <2> QED BY <1>1, <2>1, SmallestSubset
<1>3. IsFiniteSet(T) BY FS_Subset
<1>4. T # {} BY <1>2, <1>3, SumUnfolds
<1> DEFINE x == CHOOSE x \in T : TRUE
<1>5. x \in T BY <1>4
<1>6. T \ {x} \notin B BY <1>2, <1>5
<1>7. SumFunctionOnSet(f, T) = f[x] + SumFunctionOnSet(f, T \ {x}) BY <1>3, <1>4, SumUnfolds
<1>8. SumFunctionOnSet(g, T) = g[x] + SumFunctionOnSet(g, T \ {x}) BY <1>3, <1>4, SumUnfolds
<1> QED BY <1>2, <1>5, <1>6, <1>7, <1>8

\* What a sum over S becomes when the value at one element, or its membership,
\* changes and nothing else does.
LEMMA SumStep ==
  ASSUME NEW f, NEW g, NEW S, NEW T, NEW s, IsFiniteSet(S), IsFiniteSet(T),
         \A x \in S : f[x] \in Int, \A x \in T : g[x] \in Int,
         S \ {s} = T \ {s}, \A x \in S \ {s} : f[x] = g[x]
  PROVE  SumFunctionOnSet(g, T) - (IF s \in T THEN g[s] ELSE 0)
           = SumFunctionOnSet(f, S) - (IF s \in S THEN f[s] ELSE 0)
<1>1. IsFiniteSet(S \ {s}) BY FS_RemoveElement
<1>2. SumFunctionOnSet(f, S \ {s}) = SumFunctionOnSet(g, T \ {s}) BY <1>1, SumOfTheSame
<1>3. SumFunctionOnSet(f, S \ {s}) \in Int BY <1>1, SumOfIntegers
<1>4. SumFunctionOnSet(f, S) - (IF s \in S THEN f[s] ELSE 0) = SumFunctionOnSet(f, S \ {s})
  <2>1. CASE s \in S
    <3>1. SumFunctionOnSet(f, S) = f[s] + SumFunctionOnSet(f, S \ {s}) BY <2>1, SumWithout
    <3>2. f[s] \in Int BY <2>1
    <3> QED BY <1>3, <2>1, <3>1, <3>2
  <2>2. CASE s \notin S
    <3>1. S \ {s} = S BY <2>2
    <3>2. SumFunctionOnSet(f, S \ {s}) = SumFunctionOnSet(f, S) BY <3>1, Zenon
    <3> QED BY <1>3, <2>2, <3>2
  <2> QED BY <2>1, <2>2
<1>5. SumFunctionOnSet(g, T) - (IF s \in T THEN g[s] ELSE 0) = SumFunctionOnSet(g, T \ {s})
  <2>1. CASE s \in T
    <3>1. SumFunctionOnSet(g, T) = g[s] + SumFunctionOnSet(g, T \ {s}) BY <2>1, SumWithout
    <3>2. g[s] \in Int BY <2>1
    <3> QED BY <1>2, <1>3, <2>1, <3>1, <3>2
  <2>2. CASE s \notin T
    <3>1. T \ {s} = T BY <2>2
    <3>2. SumFunctionOnSet(g, T \ {s}) = SumFunctionOnSet(g, T) BY <3>1, Zenon
    <3> QED BY <1>2, <1>3, <2>2, <3>2
  <2> QED BY <2>1, <2>2
<1> QED BY <1>2, <1>4, <1>5

-----------------------------------------------------------------------------
(* The inductive invariant *)

Position == [lots : Nat, entered : Nat, price : Int, fee : Int, days : Nat,
             barrier : [profit : Nat, loss : Nat]]

AuditCounters == {"generated", "filled", "blocked", "unfunded",
                  "deferrals", "expired", "overdue"}

\* What every variable may be.
TypeInv ==
    /\ config \in Configs
    /\ day \in 0..LastDay
    /\ phase \in {"closed", "entries", "exits", "done", "raised"}
    /\ phase \in {"entries", "exits"} => day >= 1
    /\ bars \in [Symbols -> Bars \cup {NoBar}]
    /\ cash \in Int /\ target \in Int /\ realized \in Int
    /\ positions \in [Symbols -> Position]
    /\ \A s \in Symbols : positions[s].entered <= day
    /\ pending \in Seq(Order) /\ queue \in Seq(Order)
    /\ unmanaged \subseteq Held
    /\ cooldownUntil \in [Symbols -> 0..SnapshotEnd]
    /\ lastExit \in [Symbols -> 0..day]
    /\ audit \in [AuditCounters -> Nat]

\* No stock is ordered twice in a list.
Distinct(orders) ==
    \A i, j \in DOMAIN orders : orders[i].symbol = orders[j].symbol => i = j

\* Orders are only tried between the opening and the exits, and what is held,
\* tried and waiting are three sets of stocks within max_positions.
SlotsInv ==
    /\ phase \notin {"entries", "raised"} => queue = <<>>
    /\ Distinct(queue) /\ Distinct(pending)
    /\ \A i \in DOMAIN queue : queue[i].symbol \notin Held
    /\ \A i \in DOMAIN pending : pending[i].symbol \notin Held
    /\ \A i \in DOMAIN queue, j \in DOMAIN pending : queue[i].symbol # pending[j].symbol
    /\ Cardinality(Held) + Len(queue) + Len(pending) <= config.maxPositions

\* Every order was signalled inside the window, and one that waits has been
\* tried on every day since.
DelayInv ==
    /\ \A i \in DOMAIN queue : queue[i].signal <= SignalEnd
    /\ \A i \in DOMAIN pending : pending[i].signal <= SignalEnd
    /\ phase = "entries" =>
          \A i \in DOMAIN queue : queue[i].delay = day - 1 - queue[i].signal
    /\ phase # "raised" =>
          \A i \in DOMAIN pending : pending[i].delay = day - pending[i].signal
    /\ phase = "done" => day = LastDay

\* The blocked tries that ended an order are those that were not deferred: under
\* the policy "cancel" all of them, otherwise those that expired.
AuditInv ==
    /\ audit.generated = audit.filled + audit.unfunded
                         + (audit.blocked - audit.deferrals)
                         + Len(queue) + Len(pending)
    /\ config.maxDelay = 0 => audit.deferrals = 0
    /\ config.maxDelay > 0 =>
          audit.expired = audit.blocked - audit.deferrals
                          + (IF phase = "done" THEN Len(pending) ELSE 0)

\* The holding days of a position are the trading days since its entry: the day
\* at hand counts once the position has been managed.
DaysInv ==
    \A s \in Held :
        /\ positions[s].entered >= 1
        /\ phase \in {"closed", "done"} => positions[s].days = day - positions[s].entered
        /\ phase = "entries" =>
              positions[s].days = IF positions[s].entered = day THEN 0
                                  ELSE day - 1 - positions[s].entered
        /\ phase = "exits" =>
              positions[s].days = IF s \in unmanaged
                                  THEN day - 1 - positions[s].entered
                                  ELSE day - positions[s].entered

\* The cooldown of stock s since its last exit is one the calendar knows the end of.
CooldownIsKnown(s) ==
    lastExit[s] > 0 /\ config.cooldown > 0 /\ lastExit[s] + config.cooldown <= SnapshotEnd

\* No order for a stock is older than its last exit, and none is in a cooldown the
\* calendar knows the end of.
Cooled(order) ==
    /\ order.signal >= lastExit[order.symbol]
    /\ CooldownIsKnown(order.symbol) =>
          order.signal > lastExit[order.symbol] + config.cooldown

\* The cooldowns are on the books, and every order has waited for its own.
CooldownInv ==
    /\ \A s \in Symbols : CooldownIsKnown(s) => cooldownUntil[s] = lastExit[s] + config.cooldown
    /\ \A i \in DOMAIN queue : Cooled(queue[i])
    /\ \A i \in DOMAIN pending : Cooled(pending[i])

-----------------------------------------------------------------------------
(* The greatest of some numbers, and orders that are all kept *)

\* A nonempty set of natural numbers has a smallest one.
LEMMA SmallestNumber ==
  ASSUME NEW S \in SUBSET Nat, S # {}
  PROVE  \E n \in S : \A m \in S : n <= m
<1>1. PICK n \in S : \A m \in S : <<m, n>> \notin OpToRel(<, Nat)
  <2> HIDE DEF OpToRel
  <2> QED BY NatLessThanWellFounded, WFMin
<1>2. \A m \in S : ~ (m < n) BY <1>1 DEF OpToRel
<1> QED BY <1>2

\* A nonempty set of naturals with an upper bound has a greatest one.
LEMMA GreatestNumber ==
  ASSUME NEW k \in Int, NEW S \in SUBSET (1..k), S # {}
  PROVE  \E n \in S : \A m \in S : m <= n
<1> DEFINE U == {j \in Nat : \A m \in S : m <= j}
<1> PICK s \in S : TRUE OBVIOUS
<1>0. s \in 1..k OBVIOUS
<1>1. k \in U
  <2>1. k \in Nat BY <1>0
  <2>2. \A m \in S : m <= k OBVIOUS
  <2> QED BY <2>1, <2>2
<1>2. PICK j \in U : \A i \in U : j <= i
  <2>1. U \in SUBSET Nat OBVIOUS
  <2> HIDE DEF U
  <2> QED BY <1>1, <2>1, SmallestNumber
<1>3. j \in S
  <2>1. SUFFICES ASSUME j \notin S PROVE FALSE OBVIOUS
  <2>2. j >= 1
    <3>1. j \in Nat /\ s <= j BY <1>2
    <3> QED BY <1>0, <3>1
  <2>3. j - 1 \in U BY <2>1, <2>2
  <2> QED BY <1>2, <2>3
<1> QED BY <1>3

\* What can be afforded is a number of lots.
LEMMA LotsAreANumber ==
  ASSUME NEW allocation \in Int, NEW raw \in Nat \ {0}, config.slippage \in Nat
  PROVE  LotsAffordable(allocation, raw) \in Nat
<1> DEFINE fits == {n \in 1..(allocation \div BuyPrice(raw)) :
                       BuyCost(BuyPrice(raw), n) <= allocation}
<1>1. BuyPrice(raw) \in Nat \ {0} BY DEF BuyPrice
<1>2. allocation \div BuyPrice(raw) \in Int BY <1>1
<1>3. fits \in SUBSET (1..(allocation \div BuyPrice(raw))) OBVIOUS
<1>4. fits # {} => \E n \in fits : \A m \in fits : m <= n
  <2> HIDE DEF fits
  <2> QED BY <1>2, <1>3, GreatestNumber
<1>5. \A n \in fits : n \in Nat BY <1>2
<1> DEFINE most == CHOOSE n \in fits : \A m \in fits : m <= n
<1>6. fits # {} => most \in Nat
  <2> HIDE DEF fits
  <2> QED BY <1>4, <1>5
<1>7. LotsAffordable(allocation, raw) = IF allocation <= 0 \/ fits = {} THEN 0 ELSE most
  BY DEF LotsAffordable
<1> HIDE DEF fits, most
<1> QED BY <1>6, <1>7

\* The orders kept among the first n of a list none of whose stocks is held are
\* the first n.
LEMMA NothingIsDropped ==
  ASSUME NEW S, NEW orders \in Seq(S), \A i \in DOMAIN orders : orders[i].symbol \notin Held
  PROVE  NotHeld(orders) = orders
<1> DEFINE Kept(k) == k = [n \in 0..Len(orders) |->
                              IF n = 0 THEN <<>>
                              ELSE IF orders[n].symbol \in Held THEN k[n - 1]
                              ELSE Append(k[n - 1], orders[n])]
           first == [n \in 0..Len(orders) |-> SubSeq(orders, 1, n)]
<1>1. Len(orders) \in Nat /\ DOMAIN orders = 1..Len(orders) BY LenProperties
<1>2. ASSUME NEW n \in 1..Len(orders)
      PROVE  /\ orders[n].symbol \notin Held
             /\ SubSeq(orders, 1, n) = Append(SubSeq(orders, 1, n - 1), orders[n])
  <2>1. n \in Nat /\ n - 1 \in Nat /\ 1 \in 1..Len(orders) /\ n \in 1..Len(orders) BY <1>1
  <2>2. \A i \in 1..n : orders[i] \in S BY <1>1
  <2>3. SubSeq(orders, 1, n) \in Seq(S) /\ Len(SubSeq(orders, 1, n)) = n
        /\ \A i \in 1..n : SubSeq(orders, 1, n)[i] = orders[i]
    BY <2>1, <2>2, SubSeqProperties
  <2>4. SubSeq(orders, 1, n - 1) \in Seq(S) /\ Len(SubSeq(orders, 1, n - 1)) = n - 1
        /\ \A i \in 1..(n - 1) : SubSeq(orders, 1, n - 1)[i] = orders[i]
    <3>1. \A i \in 1..(n - 1) : orders[i] \in S BY <2>1, <2>2
    <3>2. CASE n = 1
      <4>1. SubSeq(orders, 1, 0) = <<>> BY SubSeqEmpty
      <4> QED BY <3>2, <4>1
    <3>3. CASE n # 1
      <4> DEFINE m == n - 1
      <4>1. m \in Int /\ 1 <= m BY <2>1, <3>3
      <4>2. \A i \in 1..m : orders[i] \in S BY <3>1
      <4> HIDE DEF m
      <4>3. SubSeq(orders, 1, m) \in Seq(S) /\ Len(SubSeq(orders, 1, m)) = m
            /\ \A i \in 1..m : SubSeq(orders, 1, m)[i] = orders[i]
        BY <4>1, <4>2, SubSeqProperties
      <4> QED BY <4>3 DEF m
    <3> QED BY <3>2, <3>3
  <2> DEFINE longer == Append(SubSeq(orders, 1, n - 1), orders[n])
  <2>5. longer \in Seq(S) /\ Len(longer) = n /\ \A i \in 1..n : longer[i] = orders[i]
    BY <1>1, <2>1, <2>2, <2>4
  <2> HIDE DEF longer
  <2>6. SubSeq(orders, 1, n) = longer BY <2>3, <2>5, SeqEqual
  <2> QED BY <1>1, <2>6 DEF longer
<1>3. Kept(first)
  <2> SUFFICES ASSUME NEW n \in 0..Len(orders)
               PROVE  first[n] = IF n = 0 THEN <<>>
                                 ELSE IF orders[n].symbol \in Held THEN first[n - 1]
                                 ELSE Append(first[n - 1], orders[n])
      OBVIOUS
  <2>1. CASE n = 0
    <3>1. SubSeq(orders, 1, 0) = <<>> BY SubSeqEmpty
    <3> QED BY <1>1, <2>1, <3>1
  <2>2. CASE n # 0
    <3>1. n \in 1..Len(orders) /\ n - 1 \in 0..Len(orders) BY <1>1, <2>2
    <3>2. first[n] = SubSeq(orders, 1, n) /\ first[n - 1] = SubSeq(orders, 1, n - 1) BY <3>1
    <3> HIDE DEF first
    <3> QED BY <1>2, <2>2, <3>1, <3>2
  <2> QED BY <2>1, <2>2
<1>4. \A k : Kept(k) => k[Len(orders)] = orders
  <2> TAKE k
  <2> HAVE Kept(k)
  <2> DEFINE B == {n \in 0..Len(orders) : k[n] # first[n]}
  <2>1. B = {}
    <3>1. SUFFICES ASSUME B # {} PROVE FALSE OBVIOUS
    <3>2. PICK n \in B : \A m \in B : n <= m
      <4>1. B \in SUBSET Nat BY <1>1
      <4> HIDE DEF B
      <4> QED BY <3>1, <4>1, SmallestNumber
    <3>3. n \in 0..Len(orders) /\ n # 0
      <4>1. k[0] = <<>> /\ first[0] = <<>> BY <1>1, <1>3
      <4> QED BY <3>2, <4>1
    <3>4. n \in 1..Len(orders) /\ n - 1 \in 0..Len(orders) BY <1>1, <3>3
    <3>5. n - 1 \notin B BY <1>1, <3>2, <3>4
    <3>6. k[n - 1] = first[n - 1] BY <3>4, <3>5
    <3>7. k[n] = Append(k[n - 1], orders[n]) BY <1>2, <3>3, <3>4
    <3>8. first[n] = Append(first[n - 1], orders[n]) BY <1>2, <3>4
    <3> QED BY <3>2, <3>6, <3>7, <3>8
  <2>2. Len(orders) \in 0..Len(orders) BY <1>1
  <2>3. k[Len(orders)] = first[Len(orders)] BY <2>1, <2>2
  <2>4. SubSeq(orders, 1, Len(orders)) = orders BY SubSeqFull
  <2> QED BY <2>2, <2>3, <2>4
<1>5. NotHeld(orders) = (CHOOSE k : Kept(k))[Len(orders)] BY DEF NotHeld
<1>6. Kept(CHOOSE k : Kept(k))
  <2> HIDE DEF Kept
  <2> QED BY <1>3
<1> HIDE DEF Kept
<1> QED BY <1>4, <1>5, <1>6

\* Orders for stocks that are not held, no more than the free slots, are all tried.
LEMMA EveryOrderIsTried ==
  ASSUME NEW S, NEW orders \in Seq(S), \A i \in DOMAIN orders : orders[i].symbol \notin Held,
         Cardinality(Held) \in Nat, config.maxPositions \in Nat,
         Cardinality(Held) + Len(orders) <= config.maxPositions
  PROVE  Candidates(orders) = orders
<1>1. NotHeld(orders) = orders BY NothingIsDropped
<1>2. Len(orders) \in Nat BY LenProperties
<1>3. MinOf(MaxOf(config.maxPositions - Cardinality(Held), 0), Len(orders)) = Len(orders)
  BY <1>2 DEF MinOf, MaxOf
<1>4. SubSeq(orders, 1, Len(orders)) = orders BY SubSeqFull
<1> QED BY <1>1, <1>3, <1>4 DEF Candidates

-----------------------------------------------------------------------------
(* What the inputs and the sums of money are *)

\* The fields of the configuration of a run.
LEMMA ConfigFacts ==
  ASSUME config \in Configs
  PROVE  /\ config.initialCash \in Nat \ {0} /\ config.maxPositions \in Nat \ {0}
         /\ config.minHolding \in Nat \ {0} /\ config.maxHolding \in Nat
         /\ config.minHolding <= config.maxHolding
         /\ config.fixedHorizon \in BOOLEAN
         /\ config.cooldown \in Nat /\ config.interval \in Nat \ {0}
         /\ config.maxDelay \in Nat /\ config.gate \subseteq Nat
         /\ config.slippage \in Nat /\ config.commissionRate \in Nat
         /\ config.minCommission \in Nat /\ config.stampTax \in Nat
BY BacktestInputs DEF ConfigOK

\* The fields of a bar of the day.
LEMMA BarFacts ==
  ASSUME config \in Configs, bars \in [Symbols -> Bars \cup {NoBar}],
         NEW s \in Symbols, bars[s] # NoBar
  PROVE  /\ bars[s].open \in Nat \ {0} /\ bars[s].high \in Nat \ {0}
         /\ bars[s].low \in Nat \ {0} /\ bars[s].close \in Nat \ {0}
         /\ bars[s].low <= bars[s].open /\ bars[s].open <= bars[s].high
         /\ bars[s].low <= bars[s].close /\ bars[s].close <= bars[s].high
         /\ config.slippage < bars[s].low
<1>1. bars[s] \in Bars \ {NoBar} OBVIOUS
<1>2. BarOK(bars[s]) BY <1>1, BacktestInputs
<1> HIDE DEF NoBar
<1>3. config.slippage < bars[s].low BY <1>1, BacktestInputs
<1> QED BY <1>2, <1>3 DEF BarOK

\* A product of integers and a hundredth of it are integers.
LEMMA MoneyIsWhole ==
  ASSUME NEW a \in Int, NEW b \in Int
  PROVE  a * b \in Int /\ (a * b) \div RateUnit \in Int
BY DEF RateUnit

\* The commission on an amount of money is one.
LEMMA CommissionIsMoney ==
  ASSUME config \in Configs, NEW amount \in Int
  PROVE  Commission(amount) \in Int
<1>1. config.commissionRate \in Int /\ config.minCommission \in Int BY ConfigFacts
<1>2. (amount * config.commissionRate) \div RateUnit \in Int BY <1>1, MoneyIsWhole
<1> QED BY <1>1, <1>2 DEF Commission, MaxOf

\* What buying costs and what selling brings are amounts of money.
LEMMA TradesAreMoney ==
  ASSUME config \in Configs, NEW price \in Int, NEW lots \in Int
  PROVE  /\ price * lots \in Int
         /\ BuyCost(price, lots) \in Int /\ SellNet(price, lots) \in Int
<1>1. price * lots \in Int BY MoneyIsWhole
<1>2. Commission(price * lots) \in Int BY <1>1, CommissionIsMoney
<1>3. config.stampTax \in Int BY ConfigFacts
<1>4. (price * lots * config.stampTax) \div RateUnit \in Int BY <1>1, <1>3, MoneyIsWhole
<1> QED BY <1>1, <1>2, <1>4 DEF BuyCost, SellNet

\* The stocks held are finitely many.
LEMMA HeldIsFinite ==
  /\ IsFiniteSet(Held) /\ Cardinality(Held) \in Nat
BY BacktestConstants, FS_Subset, FS_CardinalityType DEF Held

-----------------------------------------------------------------------------
(* The outcomes of trying an order and of managing an exit *)

\* The order of today that is tried, and what every try does.
Tried ==
    /\ phase = "entries" /\ queue # <<>>
    /\ queue' = Tail(queue)
    /\ UNCHANGED <<loopVars, phase, target, unmanaged, exitVars>>

GivenUp ==
    /\ Tried /\ UNCHANGED <<bookVars, pending>>
    /\ Head(queue).delay + 1 > config.maxDelay
    /\ audit' = [audit EXCEPT !.blocked = @ + 1,
                              !.expired = @ + (IF config.maxDelay = 0 THEN 0 ELSE 1)]

Deferred ==
    /\ Tried /\ UNCHANGED bookVars
    /\ Head(queue).delay + 1 <= config.maxDelay
    /\ pending' = Append(pending, [Head(queue) EXCEPT !.delay = Head(queue).delay + 1])
    /\ audit' = [audit EXCEPT !.blocked = @ + 1, !.deferrals = @ + 1]

Refused ==
    /\ Tried /\ UNCHANGED <<bookVars, pending>>
    /\ audit' = [audit EXCEPT !.unfunded = @ + 1]

Bought(lots, price) ==
    /\ Tried /\ UNCHANGED <<realized, pending>>
    /\ lots > 0 /\ BuyCost(price, lots) <= cash
    /\ cash' = cash - BuyCost(price, lots)
    /\ positions' = [positions EXCEPT ![Head(queue).symbol] =
           [lots |-> lots, entered |-> day, price |-> price,
            fee |-> Commission(price * lots), days |-> 0,
            barrier |-> Head(queue).barrier]]
    /\ audit' = [audit EXCEPT !.filled = @ + 1]

\* A first order of the day is an order for a stock.
LEMMA HeadIsAnOrder ==
  ASSUME TypeInv, queue # <<>>
  PROVE  /\ Head(queue) \in Order /\ Head(queue).symbol \in Symbols
         /\ Head(queue).delay \in Nat
         /\ Head(queue) = queue[1] /\ 1 \in DOMAIN queue
<1>1. queue \in Seq(Order) BY DEF TypeInv
<1>2. Head(queue) \in Order BY <1>1, HeadTailProperties
<1>3. Head(queue) = queue[1] /\ 1 \in DOMAIN queue BY <1>1
<1>4. Head(queue).symbol \in Symbols BY <1>2 DEF Order
<1>5. Head(queue).delay \in 0..config.maxDelay BY <1>2 DEF Order
<1>6. config.maxDelay \in Nat BY ConfigFacts DEF TypeInv
<1> QED BY <1>2, <1>3, <1>4, <1>5, <1>6

\* Trying an order raises, or ends in one of four ways.
LEMMA AttemptOutcomes ==
  ASSUME TypeInv, AttemptEntry
  PROVE  \/ Raise
         \/ GivenUp \/ Deferred \/ Refused
         \/ \E lots \in Nat, price \in Int : Bought(lots, price)
<1> DEFINE order == Head(queue)
           bar == bars[order.symbol]
<1>1. phase = "entries" /\ queue # <<>> BY DEF AttemptEntry
<1>2. order \in Order /\ order.symbol \in Symbols /\ order.delay \in Nat BY <1>1, HeadIsAnOrder
<1>3. config \in Configs /\ bars \in [Symbols -> Bars \cup {NoBar}] /\ cash \in Int
      /\ target \in Int
  BY DEF TypeInv
<1>4. CASE bar = NoBar BY <1>4 DEF AttemptEntry
<1>5. CASE bar # NoBar
  <2>1. Tried /\ (\/ Blocked(order)
                  \/ Fill(order, LotsToBuy(bar.open)) /\ UNCHANGED pending)
    <3> HIDE DEF NoBar
    <3> QED BY <1>5 DEF AttemptEntry, Tried
  <2>2. CASE Blocked(order)
    <3>1. config.maxDelay \in Nat BY <1>3, ConfigFacts
    <3>2. CASE DelayOver(order.delay + 1)
      <4>1. order.delay + 1 > config.maxDelay BY <3>2 DEF DelayOver
      <4>2. audit' = [[audit EXCEPT !.blocked = @ + 1] EXCEPT
                         !.expired = @ + (IF config.maxDelay = 0 THEN 0 ELSE 1)]
            /\ UNCHANGED <<bookVars, pending>>
        BY <2>2, <3>2 DEF Blocked
      <4> QED BY <2>1, <4>1, <4>2 DEF GivenUp
    <3>3. CASE ~DelayOver(order.delay + 1)
      <4>1. order.delay + 1 <= config.maxDelay BY <1>2, <3>1, <3>3 DEF DelayOver
      <4>2. audit' = [[audit EXCEPT !.blocked = @ + 1] EXCEPT !.deferrals = @ + 1]
            /\ pending' = Append(pending, [order EXCEPT !.delay = order.delay + 1])
            /\ UNCHANGED bookVars
        BY <2>2, <3>3 DEF Blocked
      <4> QED BY <2>1, <4>1, <4>2 DEF Deferred
    <3> QED BY <3>2, <3>3
  <2>3. CASE Fill(order, LotsToBuy(bar.open)) /\ UNCHANGED pending
    <3> DEFINE lots == LotsToBuy(bar.open)
               price == BuyPrice(bar.open)
    <3>1. bar.open \in Nat \ {0} BY <1>2, <1>3, <1>5, BarFacts
    <3>2. config.slippage \in Nat BY <1>3, ConfigFacts
    <3>3. MinOf(cash, target) \in Int BY <1>3 DEF MinOf
    <3>4. lots \in Nat BY <1>3, <3>1, <3>2, <3>3, LotsAreANumber DEF LotsToBuy
    <3>5. price \in Int BY <3>1, <3>2 DEF BuyPrice
    <3>6. BuyCost(price, lots) \in Int BY <1>3, <3>4, <3>5, TradesAreMoney
    <3> HIDE DEF lots, price
    <3>7. CASE lots = 0 \/ BuyCost(price, lots) > cash
      <4>1. audit' = [audit EXCEPT !.unfunded = @ + 1] /\ UNCHANGED bookVars
        BY <2>3, <3>7 DEF Fill, lots, price
      <4> QED BY <2>1, <2>3, <4>1 DEF Refused
    <3>8. CASE ~(lots = 0 \/ BuyCost(price, lots) > cash)
      <4>1. lots > 0 /\ BuyCost(price, lots) <= cash BY <1>3, <3>4, <3>6, <3>8
      <4>2. /\ audit' = [audit EXCEPT !.filled = @ + 1]
            /\ cash' = cash - BuyCost(price, lots)
            /\ positions' = [positions EXCEPT ![order.symbol] =
                   [lots |-> lots, entered |-> day, price |-> price,
                    fee |-> Commission(price * lots), days |-> 0,
                    barrier |-> order.barrier]]
            /\ UNCHANGED realized
        BY <2>3, <3>8 DEF Fill, lots, price
      <4>3. Bought(lots, price) BY <2>1, <2>3, <4>1, <4>2 DEF Bought
      <4> QED BY <3>4, <3>5, <4>3
    <3> QED BY <3>7, <3>8
  <2> QED BY <2>1, <2>2, <2>3
<1> QED BY <1>4, <1>5

\* A position whose exit is looked at, and what every look does.
Managed(s) ==
    /\ phase = "exits" /\ s \in unmanaged
    /\ unmanaged' = unmanaged \ {s}
    /\ UNCHANGED <<loopVars, phase, pending, queue, target>>

Aged(s) == [positions[s] EXCEPT !.days = @ + 1]

\* The position stays; an exit that could not be made counts as overdue.
Stays(s, overdue) ==
    /\ Managed(s)
    /\ overdue \in {0, 1}
    /\ overdue = 0 => bars[s] # NoBar /\ ~DueToLeave(Aged(s), bars[s])
    /\ Keep(s, overdue)

Leaves(s) ==
    /\ Managed(s)
    /\ bars[s] # NoBar
    /\ DueToLeave(Aged(s), bars[s])
    /\ Sell(s, ExitPrice(Aged(s), bars[s]))

\* Managing an exit raises, or keeps the position, or sells it.
LEMMA ExitOutcomes ==
  ASSUME NEW s \in Symbols, ManageExit(s)
  PROVE  Raise \/ (\E overdue \in {0, 1} : Stays(s, overdue)) \/ Leaves(s)
<1>1. CASE bars[s] = NoBar BY <1>1 DEF ManageExit
<1>2. CASE bars[s] # NoBar
  <2> HIDE DEF NoBar
  <2>1. Managed(s) BY <1>2 DEF ManageExit, Managed
  <2>2. \/ ~DueToLeave(Aged(s), bars[s]) /\ Keep(s, 0)
        \/ DueToLeave(Aged(s), bars[s]) /\ Keep(s, 1)
        \/ DueToLeave(Aged(s), bars[s]) /\ Sell(s, ExitPrice(Aged(s), bars[s]))
    BY <1>2 DEF ManageExit, Aged
  <2> QED BY <1>2, <2>1, <2>2 DEF Stays, Leaves
<1> QED BY <1>1, <1>2

-----------------------------------------------------------------------------
(* Type correctness *)

\* An aged position has one more day, and what it would leave at is a price the
\* day has seen; past the holding limit there is always such a price.
LEMMA ExitPrices ==
  ASSUME TypeInv, NEW s \in Symbols, bars[s] # NoBar
  PROVE  /\ Aged(s) \in Position /\ Aged(s).days = positions[s].days + 1
         /\ Aged(s).lots = positions[s].lots
         /\ ExitPrice(Aged(s), bars[s]) \in Int
         /\ ExitPrice(Aged(s), bars[s]) > 0 => ExitPrice(Aged(s), bars[s]) >= bars[s].low
         /\ Aged(s).days >= config.maxHolding => DueToLeave(Aged(s), bars[s])
<1>1. config \in Configs /\ bars \in [Symbols -> Bars \cup {NoBar}]
      /\ positions \in [Symbols -> Position]
  BY DEF TypeInv
<1>2. positions[s] \in Position BY <1>1
<1>3. /\ Aged(s) \in Position /\ Aged(s).days = positions[s].days + 1
      /\ Aged(s).lots = positions[s].lots
  BY <1>2 DEF Aged, Position
<1> DEFINE p == Aged(s)
           bar == bars[s]
<1>4. /\ p.price \in Int /\ p.days \in Nat /\ p.barrier.profit \in Nat /\ p.barrier.loss \in Nat
  BY <1>3 DEF Position
<1>5. /\ bar.open \in Nat \ {0} /\ bar.high \in Nat \ {0}
      /\ bar.low \in Nat \ {0} /\ bar.close \in Nat \ {0}
      /\ bar.low <= bar.open /\ bar.open <= bar.high
      /\ bar.low <= bar.close /\ bar.close <= bar.high
  BY <1>1, BarFacts
<1>6. /\ config.minHolding \in Nat /\ config.maxHolding \in Nat
      /\ config.minHolding <= config.maxHolding /\ config.fixedHorizon \in BOOLEAN
  BY <1>1, ConfigFacts
<1> DEFINE price == ExitPrice(p, bar)
<1> HIDE DEF p, bar, NoBar
<1>7. price \in Int /\ (price > 0 => price >= bar.low)
      /\ (p.days >= config.maxHolding => price > 0)
  <2> DEFINE timeout == IF p.days >= config.maxHolding THEN bar.close ELSE 0
             stop == p.price - p.barrier.loss
             profit == p.price + p.barrier.profit
  <2>1. timeout \in Int /\ (timeout > 0 => timeout >= bar.low)
        /\ (p.days >= config.maxHolding => timeout > 0)
    BY <1>4, <1>5, <1>6
  <2>2. stop \in Int /\ profit \in Int BY <1>4
  <2>3. price = IF config.fixedHorizon THEN timeout
                ELSE IF bar.open <= stop \/ bar.open >= profit THEN bar.open
                ELSE IF bar.low <= stop THEN stop
                ELSE IF bar.high >= profit THEN profit
                ELSE timeout
    BY DEF ExitPrice
  <2> HIDE DEF timeout, stop, profit, price
  <2>4. CASE config.fixedHorizon BY <2>1, <2>3, <2>4
  <2>5. CASE ~config.fixedHorizon BY <1>5, <2>1, <2>2, <2>3, <2>5
  <2> QED BY <2>4, <2>5
<1>8. p.days >= config.maxHolding => DueToLeave(p, bar) BY <1>4, <1>6, <1>7 DEF DueToLeave
<1> QED BY <1>3, <1>7, <1>8 DEF p, bar

\* In the initial state every variable has its type.
LEMMA TypeInit ==
  ASSUME Init PROVE TypeInv
<1>1. config.initialCash \in Int BY ConfigFacts DEF Init
<1>2. positions \in [Symbols -> Position] BY DEF Init, NoPosition, Position
<1>3. day \in 0..LastDay /\ SnapshotEnd \in Nat BY BacktestConstants DEF Init
<1>4. /\ cooldownUntil \in [Symbols -> 0..SnapshotEnd] /\ lastExit \in [Symbols -> 0..day]
      /\ \A s \in Symbols : positions[s].entered <= day
  BY <1>3 DEF Init, NoPosition
<1>5. audit \in [AuditCounters -> Nat] BY DEF Init, NewAudit, AuditCounters
<1>6. pending \in Seq(Order) /\ queue \in Seq(Order) BY DEF Init
<1>7. bars \in [Symbols -> Bars \cup {NoBar}]
  <2> HIDE DEF NoBar
  <2> QED BY DEF Init
<1>8. /\ config \in Configs /\ phase = "closed" /\ cash = config.initialCash
      /\ target = 0 /\ realized = 0 /\ unmanaged = {}
  BY DEF Init
<1> HIDE DEF NoBar
<1> QED BY <1>1, <1>2, <1>3, <1>4, <1>5, <1>6, <1>7, <1>8 DEF TypeInv

\* What stays the same in every step of an action that only moves the clock,
\* the orders or the counters.
LEMMA HeldDependsOnPositions ==
  ASSUME positions' = positions PROVE Held' = Held
BY DEF Held

\* The orders of yesterday are all tried: none is for a held stock, and there is
\* a slot for each.
LEMMA OpeningTriesAll ==
  ASSUME TypeInv, SlotsInv, OpenDay
  PROVE  queue = <<>> /\ queue' = pending /\ pending' = <<>>
<1>1. pending \in Seq(Order) /\ config.maxPositions \in Nat BY ConfigFacts DEF TypeInv
<1>2. queue = <<>> BY DEF SlotsInv, OpenDay
<1>3. Cardinality(Held) + Len(pending) <= config.maxPositions
  <2>1. Len(queue) = 0 BY <1>2
  <2>2. Cardinality(Held) \in Nat /\ Len(pending) \in Nat BY <1>1, HeldIsFinite
  <2> QED BY <1>1, <2>1, <2>2 DEF SlotsInv
<1>4. Candidates(pending) = pending
  BY <1>1, <1>3, HeldIsFinite, EveryOrderIsTried DEF SlotsInv
<1> QED BY <1>2, <1>4 DEF OpenDay

\* The value of the holdings is whole money when each of them has a bar.
LEMMA HoldingsAreWorthMoney ==
  ASSUME TypeInv, bars' \in [Symbols -> Bars], \A s \in Held : bars'[s] # NoBar
  PROVE  MarketValue(bars') \in Int
<1> DEFINE value == [s \in Held |-> bars'[s].close * positions[s].lots]
<1>1. ASSUME NEW s \in Held PROVE value[s] \in Int
  <2>1. s \in Symbols BY DEF Held
  <2>2. BarOK(bars'[s]) BY <2>1, BacktestInputs
  <2> HIDE DEF NoBar
  <2>3. bars'[s].close \in Int BY <2>2 DEF BarOK
  <2>4. positions[s] \in Position BY <2>1 DEF TypeInv
  <2>5. positions[s].lots \in Int BY <2>4 DEF Position
  <2>6. bars'[s].close * positions[s].lots \in Int BY <2>3, <2>5, MoneyIsWhole
  <2> QED BY <2>6
<1>2. MarketValue(bars') = SumFunctionOnSet(value, Held) BY DEF MarketValue, SumFunction
<1> HIDE DEF value
<1> QED BY <1>1, <1>2, HeldIsFinite, SumOfIntegers

\* What the loop's types ask of a step, one outcome at a time.
LEMMA TypeOpenDay ==
  ASSUME TypeInv, SlotsInv, OpenDay PROVE TypeInv'
<1>1. queue' \in Seq(Order) /\ pending' \in Seq(Order)
  BY OpeningTriesAll DEF TypeInv
<1>2. /\ config' = config /\ positions' = positions /\ cash' = cash /\ realized' = realized
      /\ unmanaged' = unmanaged /\ cooldownUntil' = cooldownUntil
      /\ lastExit' = lastExit /\ audit' = audit /\ day' = day + 1 /\ day < LastDay
      /\ bars' \in [Symbols -> Bars]
  BY DEF OpenDay, bookVars, exitVars
<1>3. day' \in 0..LastDay /\ day \in Nat BY <1>2, BacktestConstants DEF TypeInv
<1>4. Order' = Order BY <1>2 DEF Order
<1>5. Held' = Held BY <1>2, HeldDependsOnPositions
<1>6. phase' \in {"entries", "raised"} BY DEF OpenDay
<1>7. target' \in Int
  <2>1. CASE \E s \in Held : bars'[s] = NoBar BY <2>1 DEF OpenDay
  <2>2. CASE ~ \E s \in Held : bars'[s] = NoBar
    <3> HIDE DEF NoBar
    <3>1. target' = 0 \/ target' = (cash + MarketValue(bars')) \div config.maxPositions
      BY <2>2 DEF OpenDay
    <3>2. MarketValue(bars') \in Int BY <1>2, <2>2, HoldingsAreWorthMoney
    <3>3. cash \in Int /\ config.maxPositions \in Nat \ {0} BY ConfigFacts DEF TypeInv
    <3>4. (cash + MarketValue(bars')) \div config.maxPositions \in Int BY <3>2, <3>3
    <3> QED BY <3>1, <3>4
  <2> QED BY <2>1, <2>2
<1>8. /\ \A s \in Symbols : positions'[s].entered <= day'
      /\ lastExit' \in [Symbols -> 0..day']
  <2>1. \A s \in Symbols : positions[s].entered \in Nat BY DEF TypeInv, Position
  <2> QED BY <1>2, <1>3, <2>1 DEF TypeInv
<1> HIDE DEF NoBar
<1> QED BY <1>1, <1>2, <1>3, <1>4, <1>5, <1>6, <1>7, <1>8 DEF TypeInv

\* What trying an order keeps of the types, whatever its outcome.
LEMMA TypeTried ==
  ASSUME TypeInv, GivenUp \/ Deferred \/ Refused PROVE TypeInv'
<1>1. queue' \in Seq(Order)
  <2>1. queue \in Seq(Order) /\ queue # <<>> BY DEF TypeInv, GivenUp, Deferred, Refused, Tried
  <2>2. queue' = Tail(queue) BY DEF GivenUp, Deferred, Refused, Tried
  <2> QED BY <2>1, <2>2, HeadTailProperties
<1>2. /\ queue # <<>> /\ config' = config /\ positions' = positions
      /\ cash' = cash /\ realized' = realized
      /\ unmanaged' = unmanaged /\ cooldownUntil' = cooldownUntil
      /\ lastExit' = lastExit /\ day' = day /\ bars' = bars /\ phase' = phase
      /\ target' = target
  BY DEF GivenUp, Deferred, Refused, Tried, bookVars, exitVars, loopVars
<1>3. Held' = Held BY <1>2, HeldDependsOnPositions
<1>4. Order' = Order BY <1>2 DEF Order
<1>5. pending' \in Seq(Order)
  <2>1. pending \in Seq(Order) BY DEF TypeInv
  <2>2. CASE Deferred
    <3>1. Head(queue) \in Order /\ Head(queue).delay \in Nat BY <1>2, HeadIsAnOrder
    <3>2. Head(queue).delay + 1 <= config.maxDelay BY <2>2 DEF Deferred
    <3>3. config.maxDelay \in Nat BY ConfigFacts DEF TypeInv
    <3>4. [Head(queue) EXCEPT !.delay = Head(queue).delay + 1] \in Order
      BY <3>1, <3>2, <3>3 DEF Order
    <3> QED BY <2>1, <2>2, <3>4 DEF Deferred
  <2>3. CASE ~Deferred BY <2>1, <2>3 DEF GivenUp, Refused
  <2> QED BY <2>2, <2>3
<1>6. audit' \in [AuditCounters -> Nat]
  <2>1. audit \in [AuditCounters -> Nat] /\ config.maxDelay \in Nat BY ConfigFacts DEF TypeInv
  <2>2. CASE GivenUp
    <3> DEFINE more == IF config.maxDelay = 0 THEN 0 ELSE 1
    <3>1. audit' = [audit EXCEPT !.blocked = @ + 1, !.expired = @ + more] BY <2>2 DEF GivenUp
    <3>2. more \in Nat OBVIOUS
    <3> HIDE DEF more
    <3> DEFINE tried == [audit EXCEPT !.blocked = @ + 1]
    <3>3. audit' = [tried EXCEPT !.expired = @ + more] BY <3>1
    <3>4. tried \in [AuditCounters -> Nat] BY <2>1 DEF AuditCounters
    <3> HIDE DEF tried
    <3> QED BY <3>2, <3>3, <3>4 DEF AuditCounters
  <2>3. CASE Deferred
    <3>1. audit' = [audit EXCEPT !.blocked = @ + 1, !.deferrals = @ + 1] BY <2>3 DEF Deferred
    <3> DEFINE tried == [audit EXCEPT !.blocked = @ + 1]
    <3>3. audit' = [tried EXCEPT !.deferrals = @ + 1] BY <3>1
    <3>4. tried \in [AuditCounters -> Nat] BY <2>1 DEF AuditCounters
    <3> HIDE DEF tried
    <3> QED BY <3>3, <3>4 DEF AuditCounters
  <2>4. CASE Refused BY <2>1, <2>4 DEF Refused, AuditCounters
  <2> QED BY <2>2, <2>3, <2>4
<1> HIDE DEF NoBar
<1> QED BY <1>1, <1>2, <1>3, <1>4, <1>5, <1>6 DEF TypeInv

\* A filled order leaves a position of one lot or more, bought today.
LEMMA TypeBought ==
  ASSUME TypeInv, NEW lots \in Nat, NEW price \in Int, Bought(lots, price) PROVE TypeInv'
<1> DEFINE s == Head(queue).symbol
<1>1. queue # <<>> BY DEF Bought, Tried
<1>2. Head(queue) \in Order /\ s \in Symbols BY <1>1, HeadIsAnOrder
<1>3. queue' \in Seq(Order)
  <2>1. queue \in Seq(Order) BY DEF TypeInv
  <2> QED BY <1>1, <2>1, HeadTailProperties DEF Bought, Tried
<1>4. /\ config' = config /\ pending' = pending /\ realized' = realized
      /\ unmanaged' = unmanaged /\ cooldownUntil' = cooldownUntil
      /\ lastExit' = lastExit /\ day' = day /\ bars' = bars /\ phase' = phase
      /\ target' = target
  BY DEF Bought, Tried, exitVars, loopVars
<1>5. cash' \in Int
  <2>1. BuyCost(price, lots) \in Int /\ cash \in Int BY TradesAreMoney DEF TypeInv
  <2> QED BY <2>1 DEF Bought
<1> DEFINE p == [lots |-> lots, entered |-> day, price |-> price,
                 fee |-> Commission(price * lots), days |-> 0,
                 barrier |-> Head(queue).barrier]
<1>6. p \in Position /\ p.entered = day /\ p.lots > 0
  <2>1. Commission(price * lots) \in Int
    BY TradesAreMoney, CommissionIsMoney DEF TypeInv
  <2>2. Head(queue).barrier \in Barriers BY <1>2 DEF Order
  <2>3. Head(queue).barrier \in [profit : Nat, loss : Nat] BY <2>2, BacktestConstants
  <2>4. day \in Nat /\ lots > 0 BY BacktestConstants DEF TypeInv, Bought
  <2> QED BY <2>1, <2>3, <2>4 DEF Position
<1>7. positions' = [positions EXCEPT ![s] = p] BY DEF Bought
<1> HIDE DEF p, s
<1>8. positions' \in [Symbols -> Position] BY <1>2, <1>6, <1>7 DEF TypeInv
<1>9. \A t \in Symbols : positions'[t].entered <= day'
  <2> TAKE t \in Symbols
  <2>1. positions \in [Symbols -> Position] /\ positions[t].entered <= day /\ day \in Nat
    BY BacktestConstants DEF TypeInv
  <2>2. CASE t = s BY <1>2, <1>4, <1>6, <1>7, <2>1, <2>2
  <2>3. CASE t # s BY <1>2, <1>4, <1>7, <2>1, <2>3
  <2> QED BY <2>2, <2>3
<1>10. Held \subseteq Held'
  <2>1. positions \in [Symbols -> Position] BY DEF TypeInv
  <2> QED BY <1>2, <1>6, <1>7, <2>1 DEF Held
<1>11. audit' \in [AuditCounters -> Nat]
  <2>1. audit' = [audit EXCEPT !.filled = @ + 1] BY DEF Bought
  <2>2. audit \in [AuditCounters -> Nat] BY DEF TypeInv
  <2> QED BY <2>1, <2>2 DEF AuditCounters
<1>12. Order' = Order BY <1>4 DEF Order
<1> HIDE DEF NoBar
<1> QED BY <1>3, <1>4, <1>5, <1>8, <1>9, <1>10, <1>11, <1>12 DEF TypeInv

\* A position that stays is a day older and nothing else.
LEMMA TypeStays ==
  ASSUME TypeInv, NEW s \in Symbols, NEW overdue \in {0, 1}, Stays(s, overdue)
  PROVE  /\ TypeInv' /\ Held' = Held
         /\ positions' = [positions EXCEPT ![s].days = @ + 1]
         /\ positions'[s] = Aged(s)
         /\ \A t \in Symbols : positions'[t].lots = positions[t].lots
                               /\ positions'[t].entered = positions[t].entered
                               /\ positions'[t].price = positions[t].price
                               /\ positions'[t].fee = positions[t].fee
<1>1. /\ config' = config /\ pending' = pending /\ queue' = queue /\ realized' = realized
      /\ cash' = cash /\ cooldownUntil' = cooldownUntil
      /\ lastExit' = lastExit /\ day' = day /\ bars' = bars /\ phase' = phase
      /\ target' = target /\ unmanaged' = unmanaged \ {s}
  BY DEF Stays, Managed, Keep, exitVars, loopVars
<1>2. positions' = [positions EXCEPT ![s].days = @ + 1] BY DEF Stays, Keep
<1>3. positions \in [Symbols -> Position] /\ positions[s] \in Position BY DEF TypeInv
<1>4. Aged(s) \in Position /\ positions'[s] = Aged(s) BY <1>2, <1>3 DEF Aged, Position
<1>5. positions' \in [Symbols -> Position] BY <1>2, <1>3 DEF Position
<1>6. \A t \in Symbols : positions'[t].lots = positions[t].lots
                         /\ positions'[t].entered = positions[t].entered
                         /\ positions'[t].price = positions[t].price
                         /\ positions'[t].fee = positions[t].fee
  BY <1>2, <1>3 DEF Position
<1>7. Held' = Held BY <1>6 DEF Held
<1>8. audit' \in [AuditCounters -> Nat]
  <2>1. audit' = [audit EXCEPT !.overdue = @ + overdue] BY DEF Stays, Keep
  <2>2. audit \in [AuditCounters -> Nat] /\ overdue \in Nat BY DEF TypeInv
  <2> QED BY <2>1, <2>2 DEF AuditCounters
<1>9. Order' = Order BY <1>1 DEF Order
<1>10. TypeInv'
  <2> HIDE DEF NoBar
  <2> QED BY <1>1, <1>5, <1>6, <1>7, <1>8, <1>9 DEF TypeInv
<1> QED BY <1>2, <1>4, <1>6, <1>7, <1>10

\* A position that leaves was held, and no other position changes.
LEMMA TypeLeaves ==
  ASSUME TypeInv, NEW s \in Symbols, Leaves(s)
  PROVE  /\ TypeInv' /\ Held' = Held \ {s} /\ s \in Held
         /\ positions' = [positions EXCEPT ![s] = NoPosition]
<1>1. /\ config' = config /\ pending' = pending /\ queue' = queue
      /\ day' = day /\ bars' = bars /\ phase' = phase
      /\ target' = target /\ unmanaged' = unmanaged \ {s} /\ audit' = audit
      /\ s \in unmanaged
  BY DEF Leaves, Managed, Sell, loopVars
<1>2. positions' = [positions EXCEPT ![s] = NoPosition] BY DEF Leaves, Sell
<1>3. positions \in [Symbols -> Position] /\ positions[s] \in Position /\ day \in Nat
      /\ config \in Configs
  BY BacktestConstants DEF TypeInv
<1>4. NoPosition \in Position /\ NoPosition.lots = 0 /\ NoPosition.entered = 0
  BY DEF NoPosition, Position
<1> HIDE DEF NoPosition
<1>5. positions' \in [Symbols -> Position] BY <1>2, <1>3, <1>4
<1>6. \A t \in Symbols : positions'[t].entered <= day'
  <2> TAKE t \in Symbols
  <2>1. CASE t = s BY <1>1, <1>2, <1>3, <1>4, <2>1
  <2>2. CASE t # s BY <1>1, <1>2, <1>3, <2>2 DEF TypeInv
  <2> QED BY <2>1, <2>2
<1>7. Held' = Held \ {s} BY <1>2, <1>3, <1>4 DEF Held
<1>8. cash' \in Int /\ realized' \in Int
  <2> DEFINE net == SellNet(SellPrice(ExitPrice(Aged(s), bars[s])), positions[s].lots)
  <2>1. ExitPrice(Aged(s), bars[s]) \in Int BY ExitPrices DEF Leaves
  <2>2. config.slippage \in Int BY <1>3, ConfigFacts
  <2>3. SellPrice(ExitPrice(Aged(s), bars[s])) \in Int BY <2>1, <2>2 DEF SellPrice
  <2>4. positions[s].lots \in Int /\ positions[s].price \in Int /\ positions[s].fee \in Int
    BY <1>3 DEF Position
  <2>5. net \in Int BY <1>3, <2>3, <2>4, TradesAreMoney
  <2>6. positions[s].price * positions[s].lots \in Int BY <2>4, MoneyIsWhole
  <2>7. cash' = cash + net /\ realized' = realized + Pnl(positions[s], net)
    BY DEF Leaves, Sell
  <2> HIDE DEF net
  <2>8. Pnl(positions[s], net) \in Int BY <2>4, <2>5, <2>6 DEF Pnl, CostBasis
  <2> QED BY <2>5, <2>7, <2>8 DEF TypeInv
<1>9. lastExit' \in [Symbols -> 0..day']
  <2>1. lastExit' = [lastExit EXCEPT ![s] = day] BY DEF Leaves, Sell
  <2> QED BY <1>1, <1>3, <2>1 DEF TypeInv
<1>10. cooldownUntil' \in [Symbols -> 0..SnapshotEnd]
  <2>1. cooldownUntil' = [cooldownUntil EXCEPT ![s] = IF CooldownEnd > 0 THEN CooldownEnd ELSE @]
    BY DEF Leaves, Sell
  <2>2. CooldownEnd \in 0..SnapshotEnd
    <3>1. config.cooldown \in Nat BY <1>3, ConfigFacts
    <3> QED BY <1>3, <3>1, BacktestConstants DEF CooldownEnd
  <2>3. cooldownUntil \in [Symbols -> 0..SnapshotEnd] BY DEF TypeInv
  <2> QED BY <2>1, <2>2, <2>3
<1>11. Order' = Order BY <1>1 DEF Order
<1>12. unmanaged' \subseteq Held' BY <1>1, <1>7 DEF TypeInv
<1>13. s \in Held BY <1>1 DEF TypeInv
<1>14. TypeInv'
  <2> HIDE DEF NoBar
  <2> QED BY <1>1, <1>5, <1>6, <1>8, <1>9, <1>10, <1>11, <1>12 DEF TypeInv
<1> QED BY <1>2, <1>7, <1>13, <1>14

\* What the generation of orders adds: new orders for orderable stocks, each of
\* them for another one, no more than the slots that are free.
NewOrders(new) ==
    /\ IsSignalDay
    /\ new \in Seq(Order)
    /\ \A i \in 1..Len(new) : /\ new[i].symbol \in Orderable
                              /\ new[i].signal = day /\ new[i].delay = 0
    /\ \A i, j \in 1..Len(new) : new[i].symbol = new[j].symbol => i = j
    /\ Len(new) <= MaxOf(FreeSlots, 0)
    /\ pending' = pending \o new
    /\ audit' = [audit EXCEPT !.generated = @ + Len(new)]

\* The close generates no order, or some orders for stocks that may be ordered.
LEMMA GeneratedOrders ==
  ASSUME TypeInv, GenerateOrders
  PROVE  \/ pending' = pending /\ audit' = audit
         \/ \E new : NewOrders(new)
<1>1. CASE ~IsSignalDay /\ UNCHANGED <<pending, audit>> BY <1>1
<1>2. CASE ~(~IsSignalDay /\ UNCHANGED <<pending, audit>>)
  <2>1. PICK allowed \in config.gate : \E picks \in Picks(MinOf(allowed, FreeSlots)) :
             \E barrier \in [DOMAIN picks -> Barriers] :
                /\ pending' = pending \o
                      [i \in DOMAIN picks |->
                          [symbol |-> picks[i], signal |-> day, delay |-> 0,
                           barrier |-> barrier[i]]]
                /\ audit' = [audit EXCEPT !.generated = @ + Len(picks)]
                /\ IsSignalDay
    BY <1>2 DEF GenerateOrders
  <2> DEFINE take == MinOf(allowed, FreeSlots)
  <2>2. PICK picks \in Picks(take) : \E barrier \in [DOMAIN picks -> Barriers] :
                /\ pending' = pending \o
                      [i \in DOMAIN picks |->
                          [symbol |-> picks[i], signal |-> day, delay |-> 0,
                           barrier |-> barrier[i]]]
                /\ audit' = [audit EXCEPT !.generated = @ + Len(picks)]
                /\ IsSignalDay
    BY <2>1
  <2>3. PICK barrier \in [DOMAIN picks -> Barriers] :
                /\ pending' = pending \o
                      [i \in DOMAIN picks |->
                          [symbol |-> picks[i], signal |-> day, delay |-> 0,
                           barrier |-> barrier[i]]]
                /\ audit' = [audit EXCEPT !.generated = @ + Len(picks)]
                /\ IsSignalDay
    BY <2>2
  <2>4. PICK n \in 0..MaxOf(take, 0) :
           picks \in [1..n -> Orderable] /\ \A i, j \in 1..n : picks[i] = picks[j] => i = j
    BY DEF Picks
  <2>5. config \in Configs /\ pending \in Seq(Order) /\ config.maxPositions \in Nat
        /\ allowed \in Nat
    BY ConfigFacts DEF TypeInv
  <2>6. FreeSlots \in Int /\ take \in Int /\ take <= FreeSlots
    <3>1. Len(pending) \in Nat /\ Cardinality(Held) \in Nat BY <2>5, HeldIsFinite, LenProperties
    <3>2. FreeSlots \in Int BY <2>5, <3>1 DEF FreeSlots
    <3> QED BY <2>5, <3>2 DEF MinOf
  <2>7. n \in Nat /\ n <= MaxOf(FreeSlots, 0) BY <2>4, <2>6 DEF MaxOf
  <2>8. DOMAIN picks = 1..n /\ Len(picks) = n
    <3>1. picks \in Seq(Orderable) BY <2>4, <2>7, SeqDef
    <3> QED BY <2>4, <2>7, <3>1, LenProperties
  <2> DEFINE new == [i \in 1..n |-> [symbol |-> picks[i], signal |-> day, delay |-> 0,
                                     barrier |-> barrier[i]]]
  <2>9. day \in 1..LastDay /\ config.maxDelay \in Nat
    BY <2>5, ConfigFacts, BacktestConstants DEF TypeInv, GenerateOrders
  <2>10. \A i \in 1..n : new[i] \in Order /\ new[i].symbol = picks[i]
                         /\ new[i].signal = day /\ new[i].delay = 0
    <3> TAKE i \in 1..n
    <3>1. picks[i] \in Symbols BY <2>4 DEF Orderable
    <3>2. barrier[i] \in Barriers BY <2>8
    <3> QED BY <2>9, <3>1, <3>2 DEF Order
  <2>11. new \in Seq(Order) /\ Len(new) = n
    <3>1. new \in [1..n -> Order] BY <2>10
    <3> HIDE DEF new
    <3>2. new \in Seq(Order) BY <2>7, <3>1, SeqDef
    <3> QED BY <2>7, <3>1, <3>2, LenProperties
  <2>12. pending' = pending \o new BY <2>3, <2>8
  <2>13. IsSignalDay /\ audit' = [audit EXCEPT !.generated = @ + Len(new)] BY <2>3, <2>8, <2>11
  <2> HIDE DEF new, take
  <2>14. NewOrders(new) BY <2>4, <2>7, <2>10, <2>11, <2>12, <2>13 DEF NewOrders
  <2> QED BY <2>14
<1> QED BY <1>1, <1>2

\* The close keeps the types.
LEMMA TypeGenerate ==
  ASSUME TypeInv, GenerateOrders PROVE TypeInv'
<1>1. /\ config' = config /\ positions' = positions /\ cash' = cash /\ realized' = realized
      /\ unmanaged' = unmanaged /\ cooldownUntil' = cooldownUntil
      /\ lastExit' = lastExit /\ day' = day /\ queue' = queue /\ target' = target
      /\ phase' = "closed"
  BY DEF GenerateOrders, bookVars, exitVars
<1>2. bars' \in [Symbols -> Bars \cup {NoBar}]
  <2> HIDE DEF NoBar
  <2> QED BY DEF GenerateOrders
<1>3. pending' \in Seq(Order) /\ audit' \in [AuditCounters -> Nat]
  <2>1. pending \in Seq(Order) /\ audit \in [AuditCounters -> Nat] BY DEF TypeInv
  <2>2. CASE pending' = pending /\ audit' = audit BY <2>1, <2>2
  <2>3. ASSUME NEW new, NewOrders(new)
        PROVE  pending' \in Seq(Order) /\ audit' \in [AuditCounters -> Nat]
    <3>1. new \in Seq(Order) /\ Len(new) \in Nat BY <2>3, LenProperties DEF NewOrders
    <3>2. pending' \in Seq(Order) BY <2>1, <2>3, <3>1, ConcatProperties DEF NewOrders
    <3>3. audit' = [audit EXCEPT !.generated = @ + Len(new)] BY <2>3 DEF NewOrders
    <3> DEFINE n == Len(new)
    <3>4. n \in Nat /\ audit' = [audit EXCEPT !.generated = @ + n] BY <3>1, <3>3
    <3> HIDE DEF n
    <3>5. audit' \in [AuditCounters -> Nat] BY <2>1, <3>4 DEF AuditCounters
    <3> QED BY <3>2, <3>5
  <2> QED BY <2>2, <2>3, GeneratedOrders
<1>4. Order' = Order BY <1>1 DEF Order
<1>5. Held' = Held BY <1>1, HeldDependsOnPositions
<1> HIDE DEF NoBar
<1> QED BY <1>1, <1>2, <1>3, <1>4, <1>5 DEF TypeInv

\* Every step keeps the types.
LEMMA TypeStep ==
  ASSUME TypeInv, SlotsInv, [Next]_vars PROVE TypeInv'
<1>1. CASE OpenDay BY <1>1, TypeOpenDay
<1>2. ASSUME Raise PROVE TypeInv'
  <2> HIDE DEF NoBar
  <2>1. phase' = "raised" /\ UNCHANGED <<loopVars, bookVars, pending, queue, target, unmanaged,
                                         exitVars, audit>>
    BY <1>2 DEF Raise
  <2>2. Order' = Order /\ Held' = Held BY <2>1 DEF Order, Held, loopVars, bookVars
  <2> QED BY <2>1, <2>2 DEF TypeInv, loopVars, bookVars, exitVars
<1>3. CASE AttemptEntry BY <1>2, <1>3, AttemptOutcomes, TypeTried, TypeBought
<1>4. CASE EntriesDone
  <2> HIDE DEF NoBar
  <2>1. phase = "entries" /\ phase' = "exits" /\ target' = 0 /\ unmanaged' = ToManage
        /\ UNCHANGED <<loopVars, bookVars, pending, queue, exitVars, audit>>
    BY <1>4 DEF EntriesDone
  <2>2. Order' = Order /\ Held' = Held BY <2>1 DEF Order, Held, loopVars, bookVars
  <2>3. ToManage \subseteq Held BY DEF ToManage
  <2> QED BY <2>1, <2>2, <2>3 DEF TypeInv, loopVars, bookVars, exitVars
<1>5. ASSUME NEW s \in Symbols, ManageExit(s) PROVE TypeInv'
  BY <1>2, <1>5, ExitOutcomes, TypeStays, TypeLeaves
<1>6. CASE GenerateOrders BY <1>6, TypeGenerate
<1>7. CASE Finish
  <2> HIDE DEF NoBar
  <2>1. phase' = "done" /\ audit' = [audit EXCEPT !.expired = @ + Len(pending)]
        /\ UNCHANGED <<loopVars, bookVars, pending, queue, target, unmanaged, exitVars>>
    BY <1>7 DEF Finish
  <2>2. Order' = Order /\ Held' = Held BY <2>1 DEF Order, Held, loopVars, bookVars
  <2>3. Len(pending) \in Nat BY LenProperties DEF TypeInv
  <2>4. audit' \in [AuditCounters -> Nat]
    <3> DEFINE n == Len(pending)
    <3>1. n \in Nat /\ audit' = [audit EXCEPT !.expired = @ + n] BY <2>1, <2>3
    <3>2. audit \in [AuditCounters -> Nat] BY DEF TypeInv
    <3> HIDE DEF n
    <3> QED BY <3>1, <3>2 DEF AuditCounters
  <2> QED BY <2>1, <2>2, <2>4 DEF TypeInv, loopVars, bookVars, exitVars
<1>8. CASE UNCHANGED vars
  <2> HIDE DEF NoBar
  <2>1. Order' = Order /\ Held' = Held BY <1>8 DEF Order, Held, vars, loopVars, bookVars
  <2> QED BY <1>8, <2>1 DEF TypeInv, vars, loopVars, bookVars, exitVars
<1> QED BY <1>1, <1>3, <1>4, <1>5, <1>6, <1>7, <1>8 DEF Next

-----------------------------------------------------------------------------
(* The lists of orders *)

\* A try takes the first order off the queue.
LEMMA TriedQueue ==
  ASSUME TypeInv, Tried
  PROVE  /\ Len(queue) \in Nat \ {0} /\ Len(queue') = Len(queue) - 1
         /\ 1 \in DOMAIN queue /\ Head(queue) = queue[1]
         /\ \A i \in DOMAIN queue' :
               i \in Nat /\ i # 0 /\ i + 1 \in DOMAIN queue /\ queue'[i] = queue[i + 1]
<1>1. queue \in Seq(Order) /\ queue # <<>> /\ queue' = Tail(queue) BY DEF TypeInv, Tried
<1>2. /\ Tail(queue) \in Seq(Order) /\ Len(Tail(queue)) = Len(queue) - 1
      /\ \A i \in 1..Len(Tail(queue)) : Tail(queue)[i] = queue[i + 1]
  BY <1>1, HeadTailProperties
<1>3. Len(queue) \in Nat \ {0} /\ DOMAIN queue = 1..Len(queue) BY <1>1, EmptySeq, LenProperties
<1>4. DOMAIN queue' = 1..(Len(queue) - 1) BY <1>1, <1>2, LenProperties
<1> QED BY <1>1, <1>2, <1>3, <1>4

\* A deferred order joins the end of the list of tomorrow, one day later.
LEMMA DeferredPending ==
  ASSUME TypeInv, Deferred
  PROVE  /\ Len(pending) \in Nat /\ Len(pending') = Len(pending) + 1
         /\ \A i \in DOMAIN pending' :
               \/ i \in DOMAIN pending /\ pending'[i] = pending[i]
               \/ /\ i = Len(pending) + 1
                  /\ pending'[i].symbol = queue[1].symbol
                  /\ pending'[i].signal = queue[1].signal
                  /\ pending'[i].delay = queue[1].delay + 1
<1> DEFINE order == [Head(queue) EXCEPT !.delay = Head(queue).delay + 1]
<1>1. queue # <<>> /\ pending' = Append(pending, order) BY DEF Deferred, Tried
<1>2. Head(queue) \in Order /\ Head(queue) = queue[1] BY <1>1, HeadIsAnOrder
<1>3. pending \in Seq(Order) BY DEF TypeInv
<1>4. Len(pending) \in Nat /\ DOMAIN pending = 1..Len(pending) BY <1>3, LenProperties
<1>5. order.symbol = queue[1].symbol /\ order.signal = queue[1].signal
      /\ order.delay = queue[1].delay + 1
  BY <1>2 DEF Order
<1> HIDE DEF order
<1> QED BY <1>1, <1>3, <1>4, <1>5

\* New orders join the end of the list of tomorrow.
LEMMA NewPending ==
  ASSUME TypeInv, NEW new, NewOrders(new)
  PROVE  /\ Len(pending) \in Nat /\ Len(new) \in Nat
         /\ Len(pending') = Len(pending) + Len(new)
         /\ \A i \in DOMAIN pending' :
               \/ i \in DOMAIN pending /\ pending'[i] = pending[i]
               \/ /\ i \notin DOMAIN pending
                  /\ i - Len(pending) \in 1..Len(new) /\ i \in Int
                  /\ pending'[i] = new[i - Len(pending)]
<1>1. pending \in Seq(Order) /\ new \in Seq(Order) /\ pending' = pending \o new
  BY DEF TypeInv, NewOrders
<1>2. /\ Len(pending) \in Nat /\ DOMAIN pending = 1..Len(pending)
      /\ Len(new) \in Nat
  BY <1>1, LenProperties
<1>3. /\ pending' \in Seq(Order) /\ Len(pending') = Len(pending) + Len(new)
      /\ \A i \in 1..Len(pending) + Len(new) :
            pending'[i] = IF i <= Len(pending) THEN pending[i] ELSE new[i - Len(pending)]
  BY <1>1, ConcatProperties
<1>4. DOMAIN pending' = 1..(Len(pending) + Len(new)) BY <1>3, LenProperties
<1> QED BY <1>2, <1>3, <1>4

\* Every list of orders is a list of orders for stocks.
LEMMA OrdersAreForStocks ==
  ASSUME TypeInv
  PROVE  /\ Len(queue) \in Nat /\ Len(pending) \in Nat
         /\ DOMAIN queue = 1..Len(queue) /\ DOMAIN pending = 1..Len(pending)
         /\ \A i \in DOMAIN queue : queue[i] \in Order
         /\ \A i \in DOMAIN pending : pending[i] \in Order
         /\ Order \subseteq [symbol : Symbols, signal : Nat, delay : Nat, barrier : Barriers]
<1>1. queue \in Seq(Order) /\ pending \in Seq(Order) BY DEF TypeInv
<1>2. config.maxDelay \in Nat BY ConfigFacts DEF TypeInv
<1>3. Order \subseteq [symbol : Symbols, signal : Nat, delay : Nat, barrier : Barriers]
  BY <1>2, BacktestConstants DEF Order
<1> QED BY <1>1, <1>3, LenProperties

-----------------------------------------------------------------------------
(* Slots *)

\* At the start nothing is held, tried or waiting.
LEMMA SlotsInit ==
  ASSUME Init PROVE SlotsInv
<1>1. Held = {} BY DEF Init, Held, NoPosition
<1>2. queue = <<>> /\ pending = <<>> /\ config.maxPositions \in Nat \ {0}
  BY ConfigFacts DEF Init
<1>3. Cardinality(Held) = 0 BY <1>1, FS_EmptySet
<1> QED BY <1>2, <1>3 DEF SlotsInv, Distinct

\* The slots in use when the lists and the holdings stay as they are.
LEMMA SlotsUnchanged ==
  ASSUME SlotsInv, UNCHANGED <<config, positions, pending, queue>>,
         phase' \notin {"entries", "raised"} => queue = <<>>
  PROVE  SlotsInv'
<1>1. Held' = Held BY HeldDependsOnPositions
<1> QED BY <1>1 DEF SlotsInv, Distinct

\* The opening tries every order that waits.
LEMMA SlotsOpenDay ==
  ASSUME TypeInv, SlotsInv, OpenDay PROVE SlotsInv'
<1>1. queue = <<>> /\ queue' = pending /\ pending' = <<>> BY OpeningTriesAll
<1>2. config' = config /\ positions' = positions /\ phase' \in {"entries", "raised"}
  BY DEF OpenDay, bookVars
<1>3. Held' = Held BY <1>2, HeldDependsOnPositions
<1>4. Len(queue) = 0 /\ Len(pending') = 0 BY <1>1
<1>5. Len(pending) \in Nat /\ Cardinality(Held) \in Nat BY OrdersAreForStocks, HeldIsFinite
<1>6. Cardinality(Held') + Len(queue') + Len(pending') <= config'.maxPositions
  BY <1>1, <1>2, <1>3, <1>4, <1>5 DEF SlotsInv
<1>7. Distinct(queue)' /\ Distinct(pending)' BY <1>1 DEF SlotsInv, Distinct
<1> QED BY <1>1, <1>2, <1>3, <1>6, <1>7 DEF SlotsInv

\* An order off the queue: what is left is distinct from it and as before.
LEMMA QueueShrinks ==
  ASSUME TypeInv, SlotsInv, Tried
  PROVE  /\ Distinct(queue')
         /\ \A i \in DOMAIN queue' : /\ queue'[i].symbol # queue[1].symbol
                                     /\ queue'[i].symbol \notin Held
                                     /\ \A j \in DOMAIN pending :
                                           queue'[i].symbol # pending[j].symbol
         /\ queue[1].symbol \notin Held
         /\ \A j \in DOMAIN pending : queue[1].symbol # pending[j].symbol
<1>1. 1 \in DOMAIN queue
      /\ \A i \in DOMAIN queue' :
               i \in Nat /\ i # 0 /\ i + 1 \in DOMAIN queue /\ queue'[i] = queue[i + 1]
  BY TriedQueue
<1>2. Distinct(queue)
      /\ (\A i \in DOMAIN queue : queue[i].symbol \notin Held)
      /\ (\A i \in DOMAIN queue, j \in DOMAIN pending : queue[i].symbol # pending[j].symbol)
  BY DEF SlotsInv
<1>3. Distinct(queue')
  <2> SUFFICES ASSUME NEW i \in DOMAIN queue', NEW j \in DOMAIN queue',
                      queue'[i].symbol = queue'[j].symbol
               PROVE  i = j
      BY DEF Distinct
  <2>1. i + 1 = j + 1 BY <1>1, <1>2 DEF Distinct
  <2>2. i \in Nat /\ j \in Nat BY <1>1
  <2> QED BY <2>1, <2>2
<1>4. \A i \in DOMAIN queue' : queue'[i].symbol # queue[1].symbol
  <2> TAKE i \in DOMAIN queue'
  <2>1. i \in Nat /\ i # 0 /\ i + 1 \in DOMAIN queue /\ queue'[i] = queue[i + 1] BY <1>1
  <2>2. i + 1 # 1 BY <2>1
  <2> QED BY <1>1, <1>2, <2>1, <2>2 DEF Distinct
<1> QED BY <1>1, <1>2, <1>3, <1>4

\* An order that is tried and does not wait again frees its slot.
LEMMA SlotsTried ==
  ASSUME TypeInv, SlotsInv, GivenUp \/ Refused PROVE SlotsInv'
<1>1. Tried /\ pending' = pending /\ config' = config /\ positions' = positions
      /\ phase' = "entries"
  BY DEF GivenUp, Refused, Tried, bookVars, loopVars
<1>2. Held' = Held BY <1>1, HeldDependsOnPositions
<1>3. /\ Len(queue) \in Nat /\ Len(queue') = Len(queue) - 1
      /\ Len(pending) \in Nat /\ Cardinality(Held) \in Nat
  BY <1>1, TriedQueue, OrdersAreForStocks, HeldIsFinite
<1>4. config.maxPositions \in Nat BY ConfigFacts DEF TypeInv
<1>5. Cardinality(Held) + Len(queue) + Len(pending) <= config.maxPositions BY DEF SlotsInv
<1>6. Cardinality(Held') + Len(queue') + Len(pending') <= config'.maxPositions
  BY <1>1, <1>2, <1>3, <1>4, <1>5
<1>7. Distinct(pending)' BY <1>1 DEF SlotsInv, Distinct
<1>8. Distinct(queue)' BY <1>1, QueueShrinks DEF Distinct
<1>9. /\ \A i \in DOMAIN queue' : queue'[i].symbol \notin Held'
      /\ \A i \in DOMAIN pending' : pending'[i].symbol \notin Held'
      /\ \A i \in DOMAIN queue', j \in DOMAIN pending' : queue'[i].symbol # pending'[j].symbol
  BY <1>1, <1>2, QueueShrinks DEF SlotsInv
<1> QED BY <1>1, <1>6, <1>7, <1>8, <1>9 DEF SlotsInv

\* An order that waits again moves from one list to the other.
LEMMA SlotsDeferred ==
  ASSUME TypeInv, SlotsInv, Deferred PROVE SlotsInv'
<1>1. Tried /\ config' = config /\ positions' = positions /\ phase' = "entries"
  BY DEF Deferred, Tried, bookVars, loopVars
<1>2. Held' = Held BY <1>1, HeldDependsOnPositions
<1>3. /\ Len(queue) \in Nat /\ Len(queue') = Len(queue) - 1
      /\ Len(pending) \in Nat /\ Len(pending') = Len(pending) + 1 /\ Cardinality(Held) \in Nat
  BY <1>1, TriedQueue, DeferredPending, HeldIsFinite
<1>4. config.maxPositions \in Nat BY ConfigFacts DEF TypeInv
<1>5. Cardinality(Held) + Len(queue) + Len(pending) <= config.maxPositions BY DEF SlotsInv
<1>6. Cardinality(Held') + Len(queue') + Len(pending') <= config'.maxPositions
  BY <1>1, <1>2, <1>3, <1>4, <1>5
<1>7. \A i \in DOMAIN pending' :
         \/ i \in DOMAIN pending /\ pending'[i] = pending[i]
         \/ i = Len(pending) + 1 /\ pending'[i].symbol = queue[1].symbol
  BY DeferredPending
<1>8. Distinct(pending)'
  <2> SUFFICES ASSUME NEW i \in DOMAIN pending', NEW j \in DOMAIN pending',
                      pending'[i].symbol = pending'[j].symbol
               PROVE  i = j
      BY DEF Distinct
  <2> QED BY <1>1, <1>7, QueueShrinks DEF SlotsInv, Distinct
<1>9. Distinct(queue)' BY <1>1, QueueShrinks DEF Distinct
<1>10. /\ \A i \in DOMAIN queue' : queue'[i].symbol \notin Held'
       /\ \A i \in DOMAIN pending' : pending'[i].symbol \notin Held'
       /\ \A i \in DOMAIN queue', j \in DOMAIN pending' : queue'[i].symbol # pending'[j].symbol
  BY <1>1, <1>2, <1>7, QueueShrinks DEF SlotsInv
<1> QED BY <1>1, <1>6, <1>8, <1>9, <1>10 DEF SlotsInv

\* A bought stock takes over the slot of its order.
LEMMA BoughtHolds ==
  ASSUME TypeInv, NEW lots \in Nat, NEW price \in Int, Bought(lots, price)
  PROVE  /\ queue[1].symbol \in Symbols /\ Held' = Held \cup {queue[1].symbol}
         /\ \A t \in Symbols \ {queue[1].symbol} : positions'[t] = positions[t]
         /\ positions'[queue[1].symbol].entered = day
         /\ positions'[queue[1].symbol].days = 0
         /\ CostBasis(positions'[queue[1].symbol]) = BuyCost(price, lots)
<1> DEFINE s == queue[1].symbol
           p == [lots |-> lots, entered |-> day, price |-> price,
                 fee |-> Commission(price * lots), days |-> 0,
                 barrier |-> Head(queue).barrier]
<1>1. queue # <<>> BY DEF Bought, Tried
<1>2. Head(queue) = queue[1] /\ s \in Symbols BY <1>1, HeadIsAnOrder
<1>3. positions' = [positions EXCEPT ![s] = p] BY <1>2 DEF Bought
<1>4. positions \in [Symbols -> Position] /\ lots > 0 BY DEF TypeInv, Bought
<1>5. p.lots = lots /\ p.entered = day /\ p.days = 0 /\ CostBasis(p) = BuyCost(price, lots)
  BY DEF CostBasis, BuyCost
<1> HIDE DEF p, s
<1>6. positions'[s] = p /\ \A t \in Symbols \ {s} : positions'[t] = positions[t]
  BY <1>2, <1>3, <1>4
<1>7. Held' = Held \cup {s} BY <1>2, <1>4, <1>5, <1>6 DEF Held
<1> QED BY <1>2, <1>5, <1>6, <1>7 DEF s

\* A filled order becomes a position, in the slot it had.
LEMMA SlotsBought ==
  ASSUME TypeInv, SlotsInv, NEW lots \in Nat, NEW price \in Int, Bought(lots, price)
  PROVE  SlotsInv'
<1>1. Tried /\ config' = config /\ pending' = pending /\ phase' = "entries"
  BY DEF Bought, Tried, loopVars
<1>2. Held' = Held \cup {queue[1].symbol} BY BoughtHolds
<1>3. queue[1].symbol \notin Held BY <1>1, QueueShrinks
<1>4. Cardinality(Held') = Cardinality(Held) + 1 BY <1>2, <1>3, HeldIsFinite, FS_AddElement
<1>5. /\ Len(queue) \in Nat /\ Len(queue') = Len(queue) - 1
      /\ Len(pending) \in Nat /\ Cardinality(Held) \in Nat
  BY <1>1, TriedQueue, OrdersAreForStocks, HeldIsFinite
<1>6. config.maxPositions \in Nat BY ConfigFacts DEF TypeInv
<1>7. Cardinality(Held) + Len(queue) + Len(pending) <= config.maxPositions BY DEF SlotsInv
<1>8. Cardinality(Held') + Len(queue') + Len(pending') <= config'.maxPositions
  BY <1>1, <1>4, <1>5, <1>6, <1>7
<1>9. Distinct(pending)' BY <1>1 DEF SlotsInv, Distinct
<1>10. Distinct(queue)' BY <1>1, QueueShrinks DEF Distinct
<1>11. /\ \A i \in DOMAIN queue' : queue'[i].symbol \notin Held'
       /\ \A i \in DOMAIN pending' : pending'[i].symbol \notin Held'
       /\ \A i \in DOMAIN queue', j \in DOMAIN pending' : queue'[i].symbol # pending'[j].symbol
  BY <1>1, <1>2, QueueShrinks DEF SlotsInv
<1> QED BY <1>1, <1>8, <1>9, <1>10, <1>11 DEF SlotsInv

\* A position that leaves frees its slot.
LEMMA SlotsLeaves ==
  ASSUME TypeInv, SlotsInv, NEW s \in Symbols, Leaves(s) PROVE SlotsInv'
<1>1. config' = config /\ pending' = pending /\ queue' = queue /\ phase' = phase
      /\ phase = "exits"
  BY DEF Leaves, Managed, loopVars
<1>2. Held' = Held \ {s} /\ s \in Held BY TypeLeaves
<1>3. Cardinality(Held') = Cardinality(Held) - 1 BY <1>2, HeldIsFinite, FS_RemoveElement
<1>4. Len(queue) \in Nat /\ Len(pending) \in Nat /\ Cardinality(Held) \in Nat
  BY OrdersAreForStocks, HeldIsFinite
<1>5. config.maxPositions \in Nat BY ConfigFacts DEF TypeInv
<1>6. Cardinality(Held) + Len(queue) + Len(pending) <= config.maxPositions BY DEF SlotsInv
<1>7. Cardinality(Held') + Len(queue') + Len(pending') <= config'.maxPositions
  BY <1>1, <1>3, <1>4, <1>5, <1>6
<1> QED BY <1>1, <1>2, <1>7 DEF SlotsInv, Distinct

\* The close orders no more than there are free slots, for stocks that have none.
LEMMA SlotsGenerate ==
  ASSUME TypeInv, SlotsInv, GenerateOrders PROVE SlotsInv'
<1>1. config' = config /\ queue' = queue /\ positions' = positions /\ phase' = "closed"
      /\ queue = <<>>
  BY DEF GenerateOrders, bookVars, SlotsInv
<1>2. CASE pending' = pending /\ audit' = audit BY <1>1, <1>2, SlotsUnchanged
<1>3. ASSUME NEW new, NewOrders(new) PROVE SlotsInv'
  <2>1. Held' = Held BY <1>1, HeldDependsOnPositions
  <2>2. /\ Len(pending) \in Nat /\ Len(new) \in Nat
        /\ Len(pending') = Len(pending) + Len(new)
        /\ \A i \in DOMAIN pending' :
               \/ i \in DOMAIN pending /\ pending'[i] = pending[i]
               \/ /\ i \notin DOMAIN pending
                  /\ i - Len(pending) \in 1..Len(new) /\ i \in Int
                  /\ pending'[i] = new[i - Len(pending)]
    BY <1>3, NewPending
  <2>3. \A k \in 1..Len(new) : new[k].symbol \notin Held
                               /\ \A j \in DOMAIN pending : new[k].symbol # pending[j].symbol
    BY <1>3 DEF NewOrders, Orderable, SymbolsOf
  <2>4. Distinct(pending)'
    <3> SUFFICES ASSUME NEW i \in DOMAIN pending', NEW j \in DOMAIN pending',
                        pending'[i].symbol = pending'[j].symbol
                 PROVE  i = j
        BY DEF Distinct
    <3>1. CASE i \in DOMAIN pending /\ pending'[i] = pending[i]
      <4>1. j \in DOMAIN pending /\ pending'[j] = pending[j] BY <2>2, <2>3, <3>1
      <4> QED BY <3>1, <4>1 DEF SlotsInv, Distinct
    <3>2. CASE /\ i \notin DOMAIN pending
               /\ i - Len(pending) \in 1..Len(new) /\ i \in Int
               /\ pending'[i] = new[i - Len(pending)]
      <4>1. /\ j - Len(pending) \in 1..Len(new) /\ j \in Int
            /\ pending'[j] = new[j - Len(pending)]
        BY <2>2, <2>3, <3>2
      <4>2. i - Len(pending) = j - Len(pending) BY <1>3, <3>2, <4>1 DEF NewOrders
      <4> QED BY <2>2, <3>2, <4>1, <4>2
    <3> QED BY <2>2, <3>1, <3>2
  <2>5. \A i \in DOMAIN pending' : pending'[i].symbol \notin Held'
    BY <2>1, <2>2, <2>3 DEF SlotsInv
  <2>6. Cardinality(Held') + Len(queue') + Len(pending') <= config'.maxPositions
    <3>1. Len(queue) = 0 BY <1>1
    <3>2. Cardinality(Held) \in Nat /\ config.maxPositions \in Nat
      BY HeldIsFinite, ConfigFacts DEF TypeInv
    <3>3. Len(new) <= MaxOf(FreeSlots, 0) BY <1>3 DEF NewOrders
    <3>4. FreeSlots = config.maxPositions - Cardinality(Held) - Len(pending) BY DEF FreeSlots
    <3>5. Cardinality(Held) + Len(queue) + Len(pending) <= config.maxPositions BY DEF SlotsInv
    <3>6. FreeSlots \in Nat BY <2>2, <3>1, <3>2, <3>4, <3>5
    <3>7. Len(new) <= FreeSlots BY <3>3, <3>6 DEF MaxOf
    <3> QED BY <1>1, <2>1, <2>2, <3>1, <3>2, <3>4, <3>7
  <2>7. Distinct(queue)' BY <1>1 DEF SlotsInv, Distinct
  <2> QED BY <1>1, <2>1, <2>4, <2>5, <2>6, <2>7 DEF SlotsInv
<1> QED BY <1>2, <1>3, GeneratedOrders

\* Every step keeps the slots.
LEMMA SlotsStep ==
  ASSUME TypeInv, SlotsInv, [Next]_vars PROVE SlotsInv'
<1>1. CASE OpenDay BY <1>1, SlotsOpenDay
<1>2. ASSUME Raise PROVE SlotsInv'
  <2>1. phase' = "raised" /\ UNCHANGED <<config, positions, pending, queue>>
    BY <1>2 DEF Raise, loopVars, bookVars
  <2> QED BY <2>1, SlotsUnchanged
<1>3. CASE AttemptEntry
  BY <1>2, <1>3, AttemptOutcomes, SlotsTried, SlotsDeferred, SlotsBought
<1>4. CASE EntriesDone
  <2>1. queue = <<>> /\ UNCHANGED <<config, positions, pending, queue>>
    BY <1>4 DEF EntriesDone, loopVars, bookVars
  <2> QED BY <2>1, SlotsUnchanged
<1>5. ASSUME NEW s \in Symbols, ManageExit(s) PROVE SlotsInv'
  <2>1. ASSUME NEW overdue \in {0, 1}, Stays(s, overdue) PROVE SlotsInv'
    <3>1. Held' = Held BY <2>1, TypeStays
    <3>2. /\ config' = config /\ pending' = pending /\ queue' = queue /\ phase' = phase
      BY <2>1 DEF Stays, Managed, loopVars
    <3> QED BY <3>1, <3>2 DEF SlotsInv, Distinct
  <2> QED BY <1>2, <1>5, <2>1, ExitOutcomes, SlotsLeaves
<1>6. CASE GenerateOrders BY <1>6, SlotsGenerate
<1>7. CASE Finish
  <2>1. queue = <<>> /\ UNCHANGED <<config, positions, pending, queue>>
    BY <1>7 DEF Finish, SlotsInv, loopVars, bookVars
  <2> QED BY <2>1, SlotsUnchanged
<1>8. CASE UNCHANGED vars
  <2>1. UNCHANGED <<config, positions, pending, queue, phase>>
    BY <1>8 DEF vars, loopVars, bookVars
  <2> QED BY <2>1, SlotsUnchanged DEF SlotsInv
<1> QED BY <1>1, <1>3, <1>4, <1>5, <1>6, <1>7, <1>8 DEF Next

-----------------------------------------------------------------------------
(* Delays *)

\* The delays when the lists, the day and the phase stay, or the run stops.
LEMMA DelayUnchanged ==
  ASSUME DelayInv, UNCHANGED <<day, pending, queue>>, phase' \in {phase, "raised"}
  PROVE  DelayInv'
BY DEF DelayInv, SignalEnd

\* A day later every waiting order is due to be one day older.
LEMMA DelayOpenDay ==
  ASSUME TypeInv, SlotsInv, DelayInv, OpenDay PROVE DelayInv'
<1>1. queue' = pending /\ pending' = <<>> BY OpeningTriesAll
<1>2. day' = day + 1 /\ phase = "closed" /\ phase' \in {"entries", "raised"} BY DEF OpenDay
<1>3. day \in Nat BY BacktestConstants DEF TypeInv
<1>4. \A i \in DOMAIN queue' : queue'[i].signal <= SignalEnd
  BY <1>1 DEF DelayInv
<1>5. \A i \in DOMAIN queue' : queue'[i].delay = day' - 1 - queue'[i].signal
  <2> TAKE i \in DOMAIN queue'
  <2>1. pending[i].signal \in Nat BY <1>1, OrdersAreForStocks
  <2>2. pending[i].delay = day - pending[i].signal BY <1>1, <1>2 DEF DelayInv
  <2> QED BY <1>1, <1>2, <1>3, <2>1, <2>2
<1> QED BY <1>1, <1>2, <1>4, <1>5 DEF DelayInv, SignalEnd

\* An order that is tried is a day older, or gone.
LEMMA DelayTried ==
  ASSUME TypeInv, DelayInv, GivenUp \/ Deferred \/ Refused \/ (Tried /\ pending' = pending)
  PROVE  DelayInv'
<1>1. Tried /\ day' = day /\ phase = "entries" /\ phase' = "entries"
  BY DEF GivenUp, Deferred, Refused, Tried, loopVars
<1>2. /\ 1 \in DOMAIN queue
      /\ \A i \in DOMAIN queue' : i + 1 \in DOMAIN queue /\ queue'[i] = queue[i + 1]
  BY <1>1, TriedQueue
<1>3. /\ \A i \in DOMAIN queue' : queue'[i].signal <= SignalEnd
      /\ \A i \in DOMAIN queue' : queue'[i].delay = day' - 1 - queue'[i].signal
  BY <1>1, <1>2 DEF DelayInv
<1>4. \A i \in DOMAIN pending' : /\ pending'[i].signal <= SignalEnd
                                 /\ pending'[i].delay = day' - pending'[i].signal
  <2>1. CASE Deferred
    <3> TAKE i \in DOMAIN pending'
    <3>1. \/ i \in DOMAIN pending /\ pending'[i] = pending[i]
          \/ /\ pending'[i].signal = queue[1].signal
             /\ pending'[i].delay = queue[1].delay + 1
      BY <2>1, DeferredPending
    <3>2. queue[1].signal \in Nat /\ day \in Nat
      BY <1>2, OrdersAreForStocks, BacktestConstants DEF TypeInv
    <3>3. queue[1].signal <= SignalEnd /\ queue[1].delay = day - 1 - queue[1].signal
      BY <1>1, <1>2 DEF DelayInv
    <3>4. queue[1].delay + 1 = day - queue[1].signal BY <3>2, <3>3
    <3> QED BY <1>1, <3>1, <3>3, <3>4 DEF DelayInv
  <2>2. CASE ~Deferred
    <3>1. pending' = pending BY <2>2 DEF GivenUp, Refused
    <3> QED BY <1>1, <3>1 DEF DelayInv
  <2> QED BY <2>1, <2>2
<1> QED BY <1>1, <1>3, <1>4 DEF DelayInv, SignalEnd

\* An order of today has not waited.
LEMMA DelayGenerate ==
  ASSUME TypeInv, SlotsInv, DelayInv, GenerateOrders PROVE DelayInv'
<1>1. day' = day /\ queue' = queue /\ queue = <<>> /\ phase = "exits" /\ phase' = "closed"
  BY DEF GenerateOrders, SlotsInv
<1>2. CASE pending' = pending BY <1>1, <1>2 DEF DelayInv, SignalEnd
<1>3. ASSUME NEW new, NewOrders(new) PROVE DelayInv'
  <2>1. day \in Nat /\ day <= SignalEnd
    BY <1>3, BacktestConstants DEF TypeInv, NewOrders, IsSignalDay
  <2>2. \A k \in 1..Len(new) : new[k].signal = day /\ new[k].delay = 0
    BY <1>3 DEF NewOrders
  <2>3. \A i \in DOMAIN pending' :
           \/ i \in DOMAIN pending /\ pending'[i] = pending[i]
           \/ /\ i - Len(pending) \in 1..Len(new)
              /\ pending'[i] = new[i - Len(pending)]
    BY <1>3, NewPending
  <2>4. \A i \in DOMAIN pending' : /\ pending'[i].signal <= SignalEnd
                                   /\ pending'[i].delay = day' - pending'[i].signal
    <3> TAKE i \in DOMAIN pending'
    <3>1. CASE i \in DOMAIN pending /\ pending'[i] = pending[i]
      BY <1>1, <3>1 DEF DelayInv
    <3>2. CASE /\ i - Len(pending) \in 1..Len(new)
               /\ pending'[i] = new[i - Len(pending)]
      <4>1. pending'[i].signal = day /\ pending'[i].delay = 0 BY <2>2, <3>2
      <4> QED BY <1>1, <2>1, <4>1
    <3> QED BY <2>3, <3>1, <3>2
  <2> QED BY <1>1, <2>4 DEF DelayInv, SignalEnd
<1> QED BY <1>2, <1>3, GeneratedOrders

\* Every step keeps the delays.
LEMMA DelayStep ==
  ASSUME TypeInv, SlotsInv, DelayInv, [Next]_vars PROVE DelayInv'
<1>1. CASE OpenDay BY <1>1, DelayOpenDay
<1>2. ASSUME Raise PROVE DelayInv'
  BY <1>2, DelayUnchanged DEF Raise, loopVars
<1>3. CASE AttemptEntry
  BY <1>2, <1>3, AttemptOutcomes, DelayTried DEF Bought
<1>4. CASE EntriesDone
  <2>1. queue = <<>> /\ UNCHANGED <<day, pending, queue>> /\ phase = "entries" /\ phase' = "exits"
    BY <1>4 DEF EntriesDone, loopVars
  <2> QED BY <2>1 DEF DelayInv, SignalEnd
<1>5. ASSUME NEW s \in Symbols, ManageExit(s) PROVE DelayInv'
  <2>1. CASE Raise BY <1>2, <2>1
  <2>2. CASE Managed(s) BY <2>2, DelayUnchanged DEF Managed, loopVars
  <2> QED BY <1>5, <2>1, <2>2, ExitOutcomes DEF Stays, Leaves
<1>6. CASE GenerateOrders BY <1>6, DelayGenerate
<1>7. CASE Finish
  <2>1. UNCHANGED <<day, pending, queue>> /\ phase = "closed" /\ phase' = "done" /\ day = LastDay
    BY <1>7 DEF Finish, loopVars
  <2> QED BY <2>1 DEF DelayInv, SignalEnd
<1>8. CASE UNCHANGED vars BY <1>8, DelayUnchanged DEF vars, loopVars
<1> QED BY <1>1, <1>3, <1>4, <1>5, <1>6, <1>7, <1>8 DEF Next

-----------------------------------------------------------------------------
(* The audit *)

\* The counters are natural numbers.
LEMMA CountersAreNumbers ==
  ASSUME TypeInv
  PROVE  /\ audit.generated \in Nat /\ audit.filled \in Nat /\ audit.blocked \in Nat
         /\ audit.unfunded \in Nat /\ audit.deferrals \in Nat /\ audit.expired \in Nat
         /\ audit.overdue \in Nat
         /\ config.maxDelay \in Nat
BY ConfigFacts DEF TypeInv, AuditCounters

\* The audit when neither the lists nor the counters of orders move.
LEMMA AuditUnchanged ==
  ASSUME TypeInv, AuditInv, UNCHANGED <<config, pending, queue>>,
         \A c \in AuditCounters \ {"overdue"} : audit'[c] = audit[c],
         (phase' = "done") <=> (phase = "done")
  PROVE  AuditInv'
<1>1. /\ audit'.generated = audit.generated /\ audit'.filled = audit.filled
      /\ audit'.blocked = audit.blocked /\ audit'.unfunded = audit.unfunded
      /\ audit'.deferrals = audit.deferrals /\ audit'.expired = audit.expired
  BY DEF AuditCounters
<1> QED BY <1>1 DEF AuditInv

\* The opening only moves orders from one list to the other.
LEMMA AuditOpenDay ==
  ASSUME TypeInv, SlotsInv, AuditInv, OpenDay PROVE AuditInv'
<1>1. queue = <<>> /\ queue' = pending /\ pending' = <<>> BY OpeningTriesAll
<1>2. config' = config /\ audit' = audit /\ phase = "closed" /\ phase' # "done"
  BY DEF OpenDay
<1>3. Len(queue) = 0 /\ Len(pending') = 0 /\ Len(queue') = Len(pending) BY <1>1
<1>4. Len(pending) \in Nat BY OrdersAreForStocks
<1> QED BY <1>2, <1>3, <1>4, CountersAreNumbers DEF AuditInv

\* An order that is given up is a blocked try that was not deferred.
LEMMA AuditGivenUp ==
  ASSUME TypeInv, AuditInv, GivenUp PROVE AuditInv'
<1>1. Tried /\ config' = config /\ phase = "entries" /\ phase' = "entries" /\ pending' = pending
  BY DEF GivenUp, Tried, loopVars
<1>2. /\ Len(queue) \in Nat /\ Len(queue') = Len(queue) - 1
      /\ Len(pending) \in Nat
  BY <1>1, TriedQueue, OrdersAreForStocks
<1>3. audit \in [AuditCounters -> Nat] BY DEF TypeInv
<1>4. /\ audit'.generated = audit.generated /\ audit'.filled = audit.filled
      /\ audit'.blocked = audit.blocked + 1 /\ audit'.unfunded = audit.unfunded
      /\ audit'.deferrals = audit.deferrals
      /\ audit'.expired = audit.expired + (IF config.maxDelay = 0 THEN 0 ELSE 1)
  BY <1>3 DEF GivenUp, AuditCounters
<1>6. /\ audit.generated \in Int /\ audit.filled \in Int /\ audit.blocked \in Int
      /\ audit.unfunded \in Int /\ audit.deferrals \in Int /\ audit.expired \in Int
      /\ config.maxDelay \in Nat
  BY CountersAreNumbers
<1>7. audit'.generated = audit'.filled + audit'.unfunded
                         + (audit'.blocked - audit'.deferrals)
                         + Len(queue') + Len(pending')
  <2> DEFINE g == audit.generated
             f == audit.filled
             u == audit.unfunded
             b == audit.blocked
             d == audit.deferrals
             q == Len(queue)
             p == Len(pending)
  <2>1. g = f + u + (b - d) + q + p BY DEF AuditInv
  <2>2. /\ g \in Int /\ f \in Int /\ u \in Int /\ b \in Int /\ d \in Int
        /\ q \in Int /\ p \in Int
    BY <1>2, <1>6
  <2> HIDE DEF g, f, u, b, d, q, p
  <2>3. g = f + u + ((b + 1) - d) + (q - 1) + p BY <2>1, <2>2
  <2> QED BY <1>1, <1>2, <1>4, <2>3 DEF g, f, u, b, d, q, p
<1>8. config'.maxDelay = 0 => audit'.deferrals = 0
  BY <1>1, <1>4, <1>6 DEF AuditInv
<1>9. config'.maxDelay > 0 => audit'.expired = audit'.blocked - audit'.deferrals
  <2>1. config.maxDelay > 0 => audit.expired = audit.blocked - audit.deferrals
    <3>1. phase # "done" BY <1>1
    <3>2. audit.blocked - audit.deferrals \in Int BY <1>6
    <3> QED BY <3>1, <3>2 DEF AuditInv
  <2> QED BY <1>1, <1>4, <1>6, <2>1
<1>10. audit'.blocked - audit'.deferrals \in Int BY <1>4, <1>6
<1> QED BY <1>1, <1>7, <1>8, <1>9, <1>10 DEF AuditInv

\* An order that waits again is a blocked try that was deferred.
LEMMA AuditDeferred ==
  ASSUME TypeInv, AuditInv, Deferred PROVE AuditInv'
<1>1. Tried /\ config' = config /\ phase = "entries" /\ phase' = "entries"
  BY DEF Deferred, Tried, loopVars
<1>2. /\ Len(queue) \in Nat /\ Len(queue') = Len(queue) - 1
      /\ Len(pending) \in Nat
      /\ Len(pending') = Len(pending) + 1
  BY <1>1, TriedQueue, OrdersAreForStocks, DeferredPending
<1>3. audit \in [AuditCounters -> Nat] BY DEF TypeInv
<1>4. /\ audit'.generated = audit.generated /\ audit'.filled = audit.filled
      /\ audit'.blocked = audit.blocked + 1 /\ audit'.unfunded = audit.unfunded
      /\ audit'.deferrals = audit.deferrals + 1
      /\ audit'.expired = audit.expired
  BY <1>3 DEF Deferred, AuditCounters
<1>5. config.maxDelay > 0
  <2>1. queue # <<>> BY <1>1 DEF Tried
  <2>2. Head(queue).delay \in Nat /\ config.maxDelay \in Nat
    BY <2>1, HeadIsAnOrder, CountersAreNumbers
  <2>3. Head(queue).delay + 1 <= config.maxDelay BY DEF Deferred
  <2> QED BY <2>2, <2>3
<1>6. /\ audit.generated \in Int /\ audit.filled \in Int /\ audit.blocked \in Int
      /\ audit.unfunded \in Int /\ audit.deferrals \in Int /\ audit.expired \in Int
      /\ config.maxDelay \in Nat
  BY CountersAreNumbers
<1>7. audit'.generated = audit'.filled + audit'.unfunded
                         + (audit'.blocked - audit'.deferrals)
                         + Len(queue') + Len(pending')
  <2> DEFINE g == audit.generated
             f == audit.filled
             u == audit.unfunded
             b == audit.blocked
             d == audit.deferrals
             q == Len(queue)
             p == Len(pending)
  <2>1. g = f + u + (b - d) + q + p BY DEF AuditInv
  <2>2. /\ g \in Int /\ f \in Int /\ u \in Int /\ b \in Int /\ d \in Int
        /\ q \in Int /\ p \in Int
    BY <1>2, <1>6
  <2> HIDE DEF g, f, u, b, d, q, p
  <2>3. g = f + u + ((b + 1) - (d + 1)) + (q - 1) + (p + 1) BY <2>1, <2>2
  <2> QED BY <1>1, <1>2, <1>4, <2>3 DEF g, f, u, b, d, q, p
<1>8. config'.maxDelay = 0 => audit'.deferrals = 0
  BY <1>1, <1>4, <1>6, <1>5 DEF AuditInv
<1>9. config'.maxDelay > 0 => audit'.expired = audit'.blocked - audit'.deferrals
  <2>1. config.maxDelay > 0 => audit.expired = audit.blocked - audit.deferrals
    <3>1. phase # "done" BY <1>1
    <3>2. audit.blocked - audit.deferrals \in Int BY <1>6
    <3> QED BY <3>1, <3>2 DEF AuditInv
  <2> QED BY <1>1, <1>4, <1>6, <2>1
<1>10. audit'.blocked - audit'.deferrals \in Int BY <1>4, <1>6
<1> QED BY <1>1, <1>7, <1>8, <1>9, <1>10 DEF AuditInv

\* An order without cash for one lot is counted as unfunded.
LEMMA AuditRefused ==
  ASSUME TypeInv, AuditInv, Refused PROVE AuditInv'
<1>1. Tried /\ config' = config /\ phase = "entries" /\ phase' = "entries" /\ pending' = pending
  BY DEF Refused, Tried, loopVars
<1>2. /\ Len(queue) \in Nat /\ Len(queue') = Len(queue) - 1
      /\ Len(pending) \in Nat
  BY <1>1, TriedQueue, OrdersAreForStocks
<1>3. audit \in [AuditCounters -> Nat] BY DEF TypeInv
<1>4. /\ audit'.generated = audit.generated /\ audit'.filled = audit.filled
      /\ audit'.blocked = audit.blocked /\ audit'.unfunded = audit.unfunded + 1
      /\ audit'.deferrals = audit.deferrals
      /\ audit'.expired = audit.expired
  BY <1>3 DEF Refused, AuditCounters
<1>6. /\ audit.generated \in Int /\ audit.filled \in Int /\ audit.blocked \in Int
      /\ audit.unfunded \in Int /\ audit.deferrals \in Int /\ audit.expired \in Int
      /\ config.maxDelay \in Nat
  BY CountersAreNumbers
<1>7. audit'.generated = audit'.filled + audit'.unfunded
                         + (audit'.blocked - audit'.deferrals)
                         + Len(queue') + Len(pending')
  <2> DEFINE g == audit.generated
             f == audit.filled
             u == audit.unfunded
             b == audit.blocked
             d == audit.deferrals
             q == Len(queue)
             p == Len(pending)
  <2>1. g = f + u + (b - d) + q + p BY DEF AuditInv
  <2>2. /\ g \in Int /\ f \in Int /\ u \in Int /\ b \in Int /\ d \in Int
        /\ q \in Int /\ p \in Int
    BY <1>2, <1>6
  <2> HIDE DEF g, f, u, b, d, q, p
  <2>3. g = f + (u + 1) + (b - d) + (q - 1) + p BY <2>1, <2>2
  <2> QED BY <1>1, <1>2, <1>4, <2>3 DEF g, f, u, b, d, q, p
<1>8. config'.maxDelay = 0 => audit'.deferrals = 0
  BY <1>1, <1>4, <1>6 DEF AuditInv
<1>9. config'.maxDelay > 0 => audit'.expired = audit'.blocked - audit'.deferrals
  <2>1. config.maxDelay > 0 => audit.expired = audit.blocked - audit.deferrals
    <3>1. phase # "done" BY <1>1
    <3>2. audit.blocked - audit.deferrals \in Int BY <1>6
    <3> QED BY <3>1, <3>2 DEF AuditInv
  <2> QED BY <1>1, <1>4, <1>6, <2>1
<1>10. audit'.blocked - audit'.deferrals \in Int BY <1>4, <1>6
<1> QED BY <1>1, <1>7, <1>8, <1>9, <1>10 DEF AuditInv

\* A filled order is counted as filled.
LEMMA AuditBought ==
  ASSUME TypeInv, AuditInv, NEW lots \in Nat, NEW price \in Int, Bought(lots, price)
  PROVE  AuditInv'
<1>1. Tried /\ config' = config /\ phase = "entries" /\ phase' = "entries" /\ pending' = pending
  BY DEF Bought, Tried, loopVars
<1>2. /\ Len(queue) \in Nat /\ Len(queue') = Len(queue) - 1
      /\ Len(pending) \in Nat
  BY <1>1, TriedQueue, OrdersAreForStocks
<1>3. audit \in [AuditCounters -> Nat] BY DEF TypeInv
<1>4. audit' = [audit EXCEPT !.filled = @ + 1] BY DEF Bought
<1>5. /\ audit'.generated = audit.generated /\ audit'.filled = audit.filled + 1
      /\ audit'.blocked = audit.blocked /\ audit'.unfunded = audit.unfunded
      /\ audit'.deferrals = audit.deferrals
      /\ audit'.expired = audit.expired
  BY <1>3, <1>4 DEF AuditCounters
<1>6. audit'.generated = audit'.filled + audit'.unfunded
                           + (audit'.blocked - audit'.deferrals) + Len(queue') + Len(pending')
  <2> DEFINE g == audit.generated
             f == audit.filled
             u == audit.unfunded
             b == audit.blocked
             d == audit.deferrals
             q == Len(queue)
             p == Len(pending)
  <2>1. g = f + u + (b - d) + q + p BY DEF AuditInv
  <2>2. /\ g \in Int /\ f \in Int /\ u \in Int /\ b \in Int /\ d \in Int
        /\ q \in Int /\ p \in Int
    BY <1>2, CountersAreNumbers
  <2> HIDE DEF g, f, u, b, d, q, p
  <2>3. g = (f + 1) + u + (b - d) + (q - 1) + p BY <2>1, <2>2
  <2> QED BY <1>1, <1>2, <1>5, <2>3 DEF g, f, u, b, d, q, p
<1>7. config'.maxDelay = 0 => audit'.deferrals = 0
  BY <1>1, <1>5 DEF AuditInv
<1>8. config'.maxDelay > 0 => audit'.expired = audit'.blocked - audit'.deferrals
  <2>1. config.maxDelay > 0 => audit.expired = audit.blocked - audit.deferrals
    <3>1. phase # "done" BY <1>1
    <3>2. audit.blocked - audit.deferrals \in Int BY CountersAreNumbers
    <3> QED BY <3>1, <3>2 DEF AuditInv
  <2> QED BY <1>1, <1>5, <2>1
<1>9. audit'.blocked - audit'.deferrals \in Int BY <1>5, CountersAreNumbers
<1> QED BY <1>1, <1>6, <1>7, <1>8, <1>9 DEF AuditInv

\* Every new order is counted as generated.
LEMMA AuditGenerate ==
  ASSUME TypeInv, SlotsInv, AuditInv, GenerateOrders PROVE AuditInv'
<1>1. config' = config /\ queue' = queue /\ phase = "exits" /\ phase' = "closed"
  BY DEF GenerateOrders
<1>2. CASE pending' = pending /\ audit' = audit BY <1>1, <1>2 DEF AuditInv
<1>3. ASSUME NEW new, NewOrders(new) PROVE AuditInv'
  <2>1. /\ Len(pending) \in Nat /\ Len(new) \in Nat /\ Len(queue) \in Nat
        /\ Len(pending') = Len(pending) + Len(new)
    BY <1>3, NewPending, OrdersAreForStocks
  <2>2. audit \in [AuditCounters -> Nat] BY DEF TypeInv
  <2>3. audit' = [audit EXCEPT !.generated = @ + Len(new)] BY <1>3 DEF NewOrders
  <2>4. /\ audit'.generated = audit.generated + Len(new) /\ audit'.filled = audit.filled
        /\ audit'.blocked = audit.blocked /\ audit'.unfunded = audit.unfunded
        /\ audit'.deferrals = audit.deferrals
        /\ audit'.expired = audit.expired
    BY <2>2, <2>3 DEF AuditCounters
  <2> QED BY <1>1, <2>1, <2>4, CountersAreNumbers DEF AuditInv
<1> QED BY <1>2, <1>3, GeneratedOrders

\* The orders left at the end of the run are counted as expired.
LEMMA AuditFinish ==
  ASSUME TypeInv, AuditInv, Finish PROVE AuditInv'
<1>1. config' = config /\ queue' = queue /\ pending' = pending
      /\ phase = "closed" /\ phase' = "done"
      /\ audit' = [audit EXCEPT !.expired = @ + Len(pending)]
  BY DEF Finish, loopVars
<1>2. audit \in [AuditCounters -> Nat] /\ Len(pending) \in Nat /\ Len(queue) \in Nat
  BY OrdersAreForStocks DEF TypeInv
<1>3. /\ audit'.generated = audit.generated /\ audit'.filled = audit.filled
      /\ audit'.blocked = audit.blocked /\ audit'.unfunded = audit.unfunded
      /\ audit'.deferrals = audit.deferrals
      /\ audit'.expired = audit.expired + Len(pending)
  BY <1>1, <1>2 DEF AuditCounters
<1> QED BY <1>1, <1>2, <1>3, CountersAreNumbers DEF AuditInv

\* Every step keeps the audit.
LEMMA AuditStep ==
  ASSUME TypeInv, SlotsInv, AuditInv, [Next]_vars PROVE AuditInv'
<1>1. CASE OpenDay BY <1>1, AuditOpenDay
<1>2. ASSUME Raise, phase # "done" PROVE AuditInv'
  <2>1. UNCHANGED <<config, pending, queue, audit>> /\ phase' = "raised"
    BY <1>2 DEF Raise, loopVars
  <2> QED BY <1>2, <2>1, AuditUnchanged
<1>3. CASE AttemptEntry
  <2>1. phase # "done" BY <1>3 DEF AttemptEntry
  <2> QED BY <1>2, <1>3, <2>1, AttemptOutcomes,
         AuditGivenUp, AuditDeferred, AuditRefused, AuditBought
<1>4. CASE EntriesDone
  <2>1. UNCHANGED <<config, pending, queue, audit>> /\ phase = "entries" /\ phase' = "exits"
    BY <1>4 DEF EntriesDone, loopVars
  <2> QED BY <2>1, AuditUnchanged
<1>5. ASSUME NEW s \in Symbols, ManageExit(s) PROVE AuditInv'
  <2>1. ASSUME NEW overdue \in {0, 1}, Stays(s, overdue) PROVE AuditInv'
    <3>1. UNCHANGED <<config, pending, queue, phase>> BY <2>1 DEF Stays, Managed, loopVars
    <3>2. audit' = [audit EXCEPT !.overdue = @ + overdue] BY <2>1 DEF Stays, Keep
    <3>3. audit \in [AuditCounters -> Nat] BY DEF TypeInv
    <3>4. \A c \in AuditCounters \ {"overdue"} : audit'[c] = audit[c] BY <3>2, <3>3
    <3> QED BY <3>1, <3>4, AuditUnchanged
  <2>2. CASE Leaves(s)
    <3>1. UNCHANGED <<config, pending, queue, phase, audit>>
      BY <2>2 DEF Leaves, Managed, Sell, loopVars
    <3> QED BY <3>1, AuditUnchanged
  <2>3. phase # "done" BY <1>5 DEF ManageExit
  <2> QED BY <1>2, <1>5, <2>1, <2>2, <2>3, ExitOutcomes
<1>6. CASE GenerateOrders BY <1>6, AuditGenerate
<1>7. CASE Finish BY <1>7, AuditFinish
<1>8. CASE UNCHANGED vars
  <2>1. UNCHANGED <<config, pending, queue, phase, audit>> BY <1>8 DEF vars, loopVars
  <2> QED BY <2>1, AuditUnchanged
<1> QED BY <1>1, <1>3, <1>4, <1>5, <1>6, <1>7, <1>8 DEF Next

-----------------------------------------------------------------------------
(* Holding days *)

\* What the invariants read of a held position.
LEMMA HeldFacts ==
  ASSUME TypeInv, NEW s \in Held
  PROVE  /\ s \in Symbols /\ positions[s] \in Position
         /\ positions[s].lots \in Nat \ {0} /\ positions[s].entered \in Nat
         /\ positions[s].entered <= day /\ positions[s].days \in Nat
         /\ positions[s].price \in Int /\ positions[s].fee \in Int
         /\ day \in Nat /\ CostBasis(positions[s]) \in Int
<1>1. s \in Symbols /\ positions[s].lots > 0 BY DEF Held
<1>2. positions[s] \in Position /\ positions[s].entered <= day BY <1>1 DEF TypeInv
<1>3. day \in Nat BY BacktestConstants DEF TypeInv
<1>4. /\ positions[s].lots \in Nat \ {0} /\ positions[s].entered \in Nat
      /\ positions[s].days \in Nat /\ positions[s].price \in Int /\ positions[s].fee \in Int
  BY <1>1, <1>2 DEF Position
<1>5. positions[s].price * positions[s].lots \in Int BY <1>4, MoneyIsWhole
<1>6. CostBasis(positions[s]) \in Int BY <1>4, <1>5 DEF CostBasis
<1> QED BY <1>1, <1>2, <1>3, <1>4, <1>6

\* A position bought today has been held for no day.
LEMMA DaysBought ==
  ASSUME TypeInv, DaysInv, NEW lots \in Nat, NEW price \in Int, Bought(lots, price)
  PROVE  DaysInv'
<1> DEFINE s == queue[1].symbol
<1>1. day' = day /\ phase = "entries" /\ phase' = "entries" BY DEF Bought, Tried, loopVars
<1>2. /\ s \in Symbols /\ Held' = Held \cup {s}
      /\ \A t \in Symbols \ {s} : positions'[t] = positions[t]
      /\ positions'[s].entered = day /\ positions'[s].days = 0
  BY BoughtHolds
<1>3. day >= 1 BY <1>1 DEF TypeInv
<1> HIDE DEF s
<1> SUFFICES ASSUME NEW t \in Held'
             PROVE  /\ positions'[t].entered >= 1
                    /\ positions'[t].days = IF positions'[t].entered = day' THEN 0
                                            ELSE day' - 1 - positions'[t].entered
    BY <1>1 DEF DaysInv
<1>4. CASE t = s BY <1>1, <1>2, <1>3, <1>4
<1>5. CASE t # s
  <2>1. t \in Held BY <1>2, <1>5
  <2>2. t \in Symbols BY <2>1, HeldFacts
  <2>3. positions'[t] = positions[t] BY <1>2, <1>5, <2>2
  <2> QED BY <1>1, <2>1, <2>3 DEF DaysInv
<1> QED BY <1>4, <1>5

\* A position that is managed today has been held for the days since its entry.
LEMMA DaysStays ==
  ASSUME TypeInv, DaysInv, NEW s \in Symbols, NEW overdue \in {0, 1}, Stays(s, overdue)
  PROVE  DaysInv'
<1>1. day' = day /\ phase = "exits" /\ phase' = "exits" /\ s \in unmanaged
      /\ unmanaged' = unmanaged \ {s}
  BY DEF Stays, Managed, loopVars
<1>2. /\ Held' = Held /\ positions'[s] = Aged(s)
      /\ positions' = [positions EXCEPT ![s].days = @ + 1]
      /\ \A t \in Symbols : positions'[t].entered = positions[t].entered
  BY TypeStays
<1>3. positions \in [Symbols -> Position] BY DEF TypeInv
<1> SUFFICES ASSUME NEW t \in Held
             PROVE  /\ positions'[t].entered >= 1
                    /\ positions'[t].days = IF t \in unmanaged'
                                            THEN day' - 1 - positions'[t].entered
                                            ELSE day' - positions'[t].entered
    BY <1>1, <1>2 DEF DaysInv
<1>4. /\ t \in Symbols /\ positions[t].entered \in Nat /\ positions[t].days \in Nat
      /\ day \in Nat
  BY HeldFacts
<1>5. positions[t].entered >= 1
      /\ positions[t].days = IF t \in unmanaged THEN day - 1 - positions[t].entered
                             ELSE day - positions[t].entered
  BY <1>1 DEF DaysInv
<1>6. CASE t = s
  <2>1. positions'[s].days = positions[s].days + 1 BY <1>2, <1>3 DEF Aged, Position
  <2> QED BY <1>1, <1>2, <1>4, <1>5, <1>6, <2>1
<1>7. CASE t # s
  <2>1. positions'[t] = positions[t] BY <1>2, <1>3, <1>4, <1>7
  <2> QED BY <1>1, <1>5, <1>7, <2>1
<1> QED BY <1>6, <1>7

\* The other positions are as they were when one leaves.
LEMMA DaysLeaves ==
  ASSUME TypeInv, DaysInv, NEW s \in Symbols, Leaves(s)
  PROVE  DaysInv'
<1>1. day' = day /\ phase = "exits" /\ phase' = "exits" /\ unmanaged' = unmanaged \ {s}
  BY DEF Leaves, Managed, loopVars
<1>2. Held' = Held \ {s} /\ positions' = [positions EXCEPT ![s] = NoPosition] BY TypeLeaves
<1>3. positions \in [Symbols -> Position] BY DEF TypeInv
<1> HIDE DEF NoPosition
<1> SUFFICES ASSUME NEW t \in Held'
             PROVE  /\ positions'[t].entered >= 1
                    /\ positions'[t].days = IF t \in unmanaged'
                                            THEN day' - 1 - positions'[t].entered
                                            ELSE day' - positions'[t].entered
    BY <1>1 DEF DaysInv
<1>4. t \in Held /\ t # s BY <1>2
<1>5. t \in Symbols BY <1>4, HeldFacts
<1>6. positions'[t] = positions[t] BY <1>2, <1>3, <1>4, <1>5
<1> QED BY <1>1, <1>4, <1>6 DEF DaysInv

\* Every step keeps the count of the holding days.
LEMMA DaysStep ==
  ASSUME TypeInv, DaysInv, [Next]_vars PROVE DaysInv'
<1>1. CASE OpenDay
  <2>1. day' = day + 1 /\ positions' = positions /\ phase = "closed"
        /\ phase' \in {"entries", "raised"}
    BY <1>1 DEF OpenDay, bookVars
  <2>2. Held' = Held BY <2>1, HeldDependsOnPositions
  <2>3. ASSUME NEW s \in Held
        PROVE  /\ positions[s].entered >= 1 /\ positions[s].entered # day + 1
               /\ positions[s].days = day + 1 - 1 - positions[s].entered
    <3>1. positions[s].days = day - positions[s].entered /\ positions[s].entered >= 1
      BY <2>1 DEF DaysInv
    <3>2. day \in Nat /\ positions[s].entered \in Nat /\ positions[s].entered <= day
      BY HeldFacts
    <3> QED BY <3>1, <3>2
  <2>4. \A s \in Held' :
           /\ positions'[s].entered >= 1
           /\ positions'[s].days = IF positions'[s].entered = day' THEN 0
                                   ELSE day' - 1 - positions'[s].entered
    <3> TAKE s \in Held'
    <3>1. s \in Held /\ positions'[s] = positions[s] BY <2>1, <2>2
    <3>2. day \in Nat /\ positions[s].entered \in Nat BY <3>1, HeldFacts
    <3>3. /\ positions'[s].entered >= 1 /\ positions'[s].entered # day'
          /\ positions'[s].days = day' - 1 - positions'[s].entered
      BY <2>1, <2>3, <3>1, <3>2
    <3> QED BY <3>3
  <2> QED BY <2>1, <2>4 DEF DaysInv
<1>2. ASSUME Raise PROVE DaysInv'
  <2>1. positions' = positions /\ phase' = "raised" BY <1>2 DEF Raise, bookVars
  <2>2. Held' = Held BY <2>1, HeldDependsOnPositions
  <2> QED BY <2>1, <2>2 DEF DaysInv
<1>3. ASSUME GivenUp \/ Deferred \/ Refused PROVE DaysInv'
  <2>1. day' = day /\ positions' = positions /\ phase' = phase /\ unmanaged' = unmanaged
    BY <1>3 DEF GivenUp, Deferred, Refused, Tried, bookVars, loopVars
  <2>2. Held' = Held BY <2>1, HeldDependsOnPositions
  <2> QED BY <2>1, <2>2 DEF DaysInv
<1>4. CASE AttemptEntry BY <1>2, <1>3, <1>4, AttemptOutcomes, DaysBought
<1>5. CASE EntriesDone
  <2>1. day' = day /\ positions' = positions /\ phase = "entries" /\ phase' = "exits"
        /\ unmanaged' = ToManage
    BY <1>5 DEF EntriesDone, bookVars, loopVars
  <2>2. Held' = Held BY <2>1, HeldDependsOnPositions
  <2>3. ASSUME NEW s \in Held
        PROVE  /\ positions[s].entered >= 1
               /\ positions[s].days = IF s \in ToManage THEN day - 1 - positions[s].entered
                                      ELSE day - positions[s].entered
    <3>1. positions[s].entered >= 1
          /\ positions[s].days = IF positions[s].entered = day THEN 0
                                 ELSE day - 1 - positions[s].entered
      BY <2>1 DEF DaysInv
    <3>2. s \in ToManage <=> positions[s].entered # day BY DEF ToManage
    <3>3. day \in Nat /\ positions[s].entered \in Nat BY HeldFacts
    <3> QED BY <3>1, <3>2, <3>3
  <2>4. \A s \in Held' :
           /\ positions'[s].entered >= 1
           /\ positions'[s].days = IF s \in unmanaged' THEN day' - 1 - positions'[s].entered
                                   ELSE day' - positions'[s].entered
    <3> HIDE DEF ToManage
    <3> QED BY <2>1, <2>2, <2>3
  <2> QED BY <2>1, <2>4 DEF DaysInv
<1>6. ASSUME NEW s \in Symbols, ManageExit(s) PROVE DaysInv'
  BY <1>2, <1>6, ExitOutcomes, DaysStays, DaysLeaves
<1>7. CASE GenerateOrders
  <2>1. day' = day /\ positions' = positions /\ phase = "exits" /\ phase' = "closed"
        /\ unmanaged = {}
    BY <1>7 DEF GenerateOrders, bookVars
  <2>2. Held' = Held BY <2>1, HeldDependsOnPositions
  <2> QED BY <2>1, <2>2 DEF DaysInv
<1>8. CASE Finish
  <2>1. day' = day /\ positions' = positions /\ phase = "closed" /\ phase' = "done"
    BY <1>8 DEF Finish, bookVars, loopVars
  <2>2. Held' = Held BY <2>1, HeldDependsOnPositions
  <2> QED BY <2>1, <2>2 DEF DaysInv
<1>9. CASE UNCHANGED vars
  <2>1. day' = day /\ positions' = positions /\ phase' = phase /\ unmanaged' = unmanaged
    BY <1>9 DEF vars, bookVars, loopVars
  <2>2. Held' = Held BY <2>1, HeldDependsOnPositions
  <2> QED BY <2>1, <2>2 DEF DaysInv
<1> QED BY <1>1, <1>4, <1>5, <1>6, <1>7, <1>8, <1>9 DEF Next

-----------------------------------------------------------------------------
(* Cooldowns *)

\* The cooldowns when no stock leaves and every order was there before.
LEMMA CooldownUnchanged ==
  ASSUME CooldownInv, UNCHANGED <<config, exitVars>>,
         \A i \in DOMAIN queue' :
            \/ \E j \in DOMAIN queue : queue'[i] = queue[j]
            \/ \E j \in DOMAIN pending : queue'[i] = pending[j],
         \A i \in DOMAIN pending' :
            \/ \E j \in DOMAIN pending : pending'[i] = pending[j]
            \/ \E j \in DOMAIN queue : /\ pending'[i].symbol = queue[j].symbol
                                       /\ pending'[i].signal = queue[j].signal
  PROVE  CooldownInv'
<1>1. /\ \A i \in DOMAIN queue : Cooled(queue[i])
      /\ \A i \in DOMAIN pending : Cooled(pending[i])
  BY DEF CooldownInv
<1>2. \A i \in DOMAIN queue' : Cooled(queue'[i])
  BY <1>1
<1>3. \A i \in DOMAIN pending' : Cooled(pending'[i])
  BY <1>1 DEF Cooled
<1> QED BY <1>2, <1>3 DEF CooldownInv, Cooled, CooldownIsKnown, exitVars

\* A stock that leaves is in no list, and its cooldown is put on the books.
LEMMA CooldownLeaves ==
  ASSUME TypeInv, SlotsInv, CooldownInv, NEW s \in Symbols, Leaves(s)
  PROVE  CooldownInv'
<1>1. config' = config /\ queue' = queue /\ pending' = pending /\ phase = "exits"
  BY DEF Leaves, Managed, loopVars
<1>2. lastExit' = [lastExit EXCEPT ![s] = day]
      /\ cooldownUntil' = [cooldownUntil EXCEPT ![s] =
                              IF CooldownEnd > 0 THEN CooldownEnd ELSE @]
  BY DEF Leaves, Sell
<1>3. lastExit \in [Symbols -> 0..day] /\ cooldownUntil \in [Symbols -> 0..SnapshotEnd]
      /\ day \in Nat /\ SnapshotEnd \in Nat /\ config \in Configs /\ config.cooldown \in Nat
  BY ConfigFacts, BacktestConstants DEF TypeInv
<1>4. s \in Held BY TypeLeaves
<1>5. \A i \in DOMAIN queue : queue[i].symbol \in Symbols /\ queue[i].symbol # s
  BY <1>4, OrdersAreForStocks DEF SlotsInv
<1>6. \A i \in DOMAIN pending : pending[i].symbol \in Symbols /\ pending[i].symbol # s
  BY <1>4, OrdersAreForStocks DEF SlotsInv
<1>7. \A t \in Symbols \ {s} : lastExit'[t] = lastExit[t] /\ cooldownUntil'[t] = cooldownUntil[t]
  BY <1>2, <1>3
<1>8. ASSUME CooldownIsKnown(s)' PROVE cooldownUntil'[s] = lastExit'[s] + config.cooldown
  <2>1. lastExit'[s] = day BY <1>2, <1>3
  <2>2. config.cooldown > 0 /\ day + config.cooldown <= SnapshotEnd
    BY <1>1, <1>8, <2>1 DEF CooldownIsKnown
  <2>3. CooldownEnd = day + config.cooldown BY <2>2 DEF CooldownEnd
  <2>4. CooldownEnd > 0 BY <1>3, <2>2, <2>3
  <2> QED BY <1>2, <1>3, <2>1, <2>3, <2>4
<1>9. \A t \in Symbols : CooldownIsKnown(t)' => cooldownUntil'[t] = lastExit'[t] + config.cooldown
  BY <1>1, <1>7, <1>8 DEF CooldownInv, CooldownIsKnown
<1>10. \A i \in DOMAIN queue : Cooled(queue[i])'
  BY <1>1, <1>5, <1>7 DEF CooldownInv, Cooled, CooldownIsKnown
<1>11. \A i \in DOMAIN pending : Cooled(pending[i])'
  BY <1>1, <1>6, <1>7 DEF CooldownInv, Cooled, CooldownIsKnown
<1> QED BY <1>1, <1>9, <1>10, <1>11 DEF CooldownInv

\* A new order is of today, and its stock is past the cooldown on the books.
LEMMA CooldownGenerate ==
  ASSUME TypeInv, CooldownInv, GenerateOrders PROVE CooldownInv'
<1>1. UNCHANGED <<config, exitVars>> /\ queue' = queue BY DEF GenerateOrders
<1>2. CASE pending' = pending
  <2>1. \A i \in DOMAIN pending' : \E j \in DOMAIN pending : pending'[i] = pending[j]
    BY <1>2
  <2> QED BY <1>1, <2>1, CooldownUnchanged
<1>3. ASSUME NEW new, NewOrders(new) PROVE CooldownInv'
  <2>1. \A i \in DOMAIN pending' :
           \/ i \in DOMAIN pending /\ pending'[i] = pending[i]
           \/ /\ i - Len(pending) \in 1..Len(new)
              /\ pending'[i] = new[i - Len(pending)]
    BY <1>3, NewPending
  <2>2. ASSUME NEW k \in 1..Len(new) PROVE Cooled(new[k])
    <3> DEFINE s == new[k].symbol
    <3>1. s \in Symbols /\ day > cooldownUntil[s] /\ new[k].signal = day
      BY <1>3 DEF NewOrders, Orderable
    <3>2. lastExit[s] \in 0..day /\ day \in Nat BY <3>1, BacktestConstants DEF TypeInv
    <3>3. CooldownIsKnown(s) => cooldownUntil[s] = lastExit[s] + config.cooldown
      BY <3>1 DEF CooldownInv
    <3> QED BY <3>1, <3>2, <3>3 DEF Cooled
  <2>3. \A i \in DOMAIN pending' : Cooled(pending'[i])
    BY <2>1, <2>2 DEF CooldownInv
  <2> QED BY <1>1, <2>3 DEF CooldownInv, Cooled, CooldownIsKnown, exitVars
<1> QED BY <1>2, <1>3, GeneratedOrders

\* Every step keeps the cooldowns.
LEMMA CooldownStep ==
  ASSUME TypeInv, SlotsInv, CooldownInv, [Next]_vars
  PROVE  CooldownInv'
<1>1. ASSUME UNCHANGED <<config, exitVars, queue, pending>> PROVE CooldownInv'
  <2>1. /\ \A i \in DOMAIN queue' : \E j \in DOMAIN queue : queue'[i] = queue[j]
        /\ \A i \in DOMAIN pending' : \E j \in DOMAIN pending : pending'[i] = pending[j]
    BY <1>1
  <2> QED BY <1>1, <2>1, CooldownUnchanged
<1>2. CASE OpenDay
  <2>1. queue' = pending /\ pending' = <<>> BY <1>2, OpeningTriesAll
  <2>2. UNCHANGED <<config, exitVars>> BY <1>2 DEF OpenDay
  <2>3. /\ \A i \in DOMAIN queue' : \E j \in DOMAIN pending : queue'[i] = pending[j]
        /\ DOMAIN pending' = {}
    BY <2>1
  <2> QED BY <2>2, <2>3, CooldownUnchanged
<1>3. CASE Raise BY <1>1, <1>3 DEF Raise, loopVars
<1>4. CASE AttemptEntry /\ ~Raise
  <2>1. Tried /\ (Deferred \/ pending' = pending)
    BY <1>4, AttemptOutcomes DEF GivenUp, Deferred, Refused, Bought
  <2>2. UNCHANGED <<config, exitVars>> BY <2>1 DEF Tried, loopVars
  <2>3. 1 \in DOMAIN queue
        /\ \A i \in DOMAIN queue' : i + 1 \in DOMAIN queue /\ queue'[i] = queue[i + 1]
    BY <2>1, TriedQueue
  <2>4. \A i \in DOMAIN pending' :
            \/ \E j \in DOMAIN pending : pending'[i] = pending[j]
            \/ \E j \in DOMAIN queue : /\ pending'[i].symbol = queue[j].symbol
                                       /\ pending'[i].signal = queue[j].signal
    <3>1. CASE Deferred BY <2>3, <3>1, DeferredPending
    <3>2. CASE pending' = pending BY <3>2
    <3> QED BY <2>1, <3>1, <3>2
  <2> QED BY <2>2, <2>3, <2>4, CooldownUnchanged
<1>5. CASE EntriesDone BY <1>1, <1>5 DEF EntriesDone, loopVars
<1>6. ASSUME NEW s \in Symbols, ManageExit(s) PROVE CooldownInv'
  <2>1. ASSUME NEW overdue \in {0, 1}, Stays(s, overdue) PROVE CooldownInv'
    BY <1>1, <2>1 DEF Stays, Managed, Keep, loopVars
  <2> QED BY <1>3, <1>6, <2>1, ExitOutcomes, CooldownLeaves
<1>7. CASE GenerateOrders BY <1>7, CooldownGenerate
<1>8. CASE Finish BY <1>1, <1>8 DEF Finish, loopVars
<1>9. CASE UNCHANGED vars BY <1>1, <1>9 DEF vars, loopVars
<1> QED BY <1>2, <1>3, <1>4, <1>5, <1>6, <1>7, <1>8, <1>9 DEF Next

-----------------------------------------------------------------------------
(* Money and overdue days *)

\* The sums over the holdings, as sums over the set of the stocks held.
LEMMA SumsOverHeld ==
  /\ CostOfHoldings = SumFunctionOnSet([s \in Held |-> CostBasis(positions[s])], Held)
  /\ SumFunction([s \in Held |-> DaysOverdue(positions[s])])
       = SumFunctionOnSet([s \in Held |-> DaysOverdue(positions[s])], Held)
BY DEF CostOfHoldings, SumFunction

\* What the holdings cost when none of them changes hands.
LEMMA SameCost ==
  ASSUME TypeInv, Held' = Held,
         \A s \in Held : CostBasis(positions'[s]) = CostBasis(positions[s])
  PROVE  CostOfHoldings' = CostOfHoldings
<1> DEFINE f == [s \in Held |-> CostBasis(positions[s])]
           g == [s \in Held |-> CostBasis(positions'[s])]
<1>1. f = g OBVIOUS
<1>2. CostOfHoldings = SumFunction(f) BY DEF CostOfHoldings
<1>3. CostOfHoldings' = SumFunction([s \in Held' |-> CostBasis(positions'[s])])
  BY DEF CostOfHoldings, CostBasis
<1>4. [s \in Held' |-> CostBasis(positions'[s])] = g OBVIOUS
<1> QED BY <1>1, <1>2, <1>3, <1>4, Zenon

\* What the holdings cost when one stock comes or goes.
LEMMA CostStep ==
  ASSUME TypeInv, TypeInv', NEW s, Held \ {s} = Held' \ {s},
         \A t \in Held \ {s} : positions'[t] = positions[t]
  PROVE  /\ CostOfHoldings' - (IF s \in Held' THEN CostBasis(positions'[s]) ELSE 0)
              = CostOfHoldings - (IF s \in Held THEN CostBasis(positions[s]) ELSE 0)
         /\ CostOfHoldings \in Int /\ CostOfHoldings' \in Int
<1> DEFINE f == [t \in Held |-> CostBasis(positions[t])]
           g == [t \in Held' |-> CostBasis(positions'[t])]
<1>1. IsFiniteSet(Held) /\ IsFiniteSet(Held')
  <2>1. Held \in SUBSET Symbols /\ Held' \in SUBSET Symbols BY DEF Held
  <2> QED BY <2>1, BacktestConstants, FS_Subset
<1>2. \A t \in Held : f[t] = CostBasis(positions[t]) /\ f[t] \in Int BY HeldFacts
<1>3. \A t \in Held' : g[t] = CostBasis(positions'[t]) /\ g[t] \in Int
  <2> TAKE t \in Held'
  <2>1. t \in Symbols BY DEF Held
  <2>2. positions'[t] \in Position BY <2>1 DEF TypeInv
  <2>3. positions'[t].price \in Int /\ positions'[t].lots \in Int /\ positions'[t].fee \in Int
    BY <2>2 DEF Position
  <2>4. positions'[t].price * positions'[t].lots \in Int BY <2>3, MoneyIsWhole
  <2> QED BY <2>3, <2>4 DEF CostBasis
<1>4. CostOfHoldings = SumFunctionOnSet(f, Held) BY SumsOverHeld
<1>5. CostOfHoldings' = SumFunctionOnSet(g, Held')
  BY DEF CostOfHoldings, SumFunction, CostBasis
<1>6. \A t \in Held \ {s} : f[t] = g[t]
  <2> TAKE t \in Held \ {s}
  <2>1. t \in Held' \ {s} OBVIOUS
  <2> HIDE DEF f, g
  <2> QED BY <1>2, <1>3, <2>1
<1> HIDE DEF f, g
<1>7. SumFunctionOnSet(g, Held') - (IF s \in Held' THEN g[s] ELSE 0)
           = SumFunctionOnSet(f, Held) - (IF s \in Held THEN f[s] ELSE 0)
  BY <1>1, <1>2, <1>3, <1>6, SumStep
<1>8. SumFunctionOnSet(f, Held) \in Int /\ SumFunctionOnSet(g, Held') \in Int
  BY <1>1, <1>2, <1>3, SumOfIntegers
<1>9. /\ (IF s \in Held' THEN g[s] ELSE 0) = (IF s \in Held' THEN CostBasis(positions'[s]) ELSE 0)
      /\ (IF s \in Held THEN f[s] ELSE 0) = (IF s \in Held THEN CostBasis(positions[s]) ELSE 0)
  BY <1>2, <1>3
<1> QED BY <1>4, <1>5, <1>7, <1>8, <1>9

\* The books when no money moves.
LEMMA BooksUnchanged ==
  ASSUME TypeInv, BooksBalance, config' = config, UNCHANGED <<cash, realized>>, Held' = Held,
         \A s \in Held : CostBasis(positions'[s]) = CostBasis(positions[s])
  PROVE  BooksBalance'
<1>1. CostOfHoldings' = CostOfHoldings BY SameCost
<1> QED BY <1>1 DEF BooksBalance

\* A purchase moves its cost from the cash to the holdings.
LEMMA BooksBought ==
  ASSUME TypeInv, SlotsInv, BooksBalance,
         NEW lots \in Nat, NEW price \in Int, Bought(lots, price)
  PROVE  BooksBalance'
<1> DEFINE s == queue[1].symbol
           total == BuyCost(price, lots)
<1>1. /\ s \in Symbols /\ Held' = Held \cup {s}
      /\ \A t \in Symbols \ {s} : positions'[t] = positions[t]
      /\ CostBasis(positions'[s]) = total
  BY BoughtHolds
<1>2. Tried /\ config' = config /\ realized' = realized /\ cash' = cash - total
  BY DEF Bought, Tried, loopVars
<1>3. s \notin Held BY <1>2, QueueShrinks
<1>4. cash \in Int /\ realized \in Int /\ total \in Int /\ config.initialCash \in Int
  <2>1. cash \in Int /\ realized \in Int /\ config \in Configs BY DEF TypeInv
  <2>2. total \in Int BY <2>1, TradesAreMoney
  <2>3. config.initialCash \in Int BY <2>1, ConfigFacts
  <2> QED BY <2>1, <2>2, <2>3
<1>5. TypeInv' BY TypeBought
<1> HIDE DEF s, total
<1>6. /\ Held \ {s} = Held' \ {s}
      /\ \A t \in Held \ {s} : positions'[t] = positions[t]
  BY <1>1, <1>3, HeldFacts
<1>7. /\ CostOfHoldings' - (IF s \in Held' THEN CostBasis(positions'[s]) ELSE 0)
           = CostOfHoldings - (IF s \in Held THEN CostBasis(positions[s]) ELSE 0)
      /\ CostOfHoldings \in Int /\ CostOfHoldings' \in Int
  BY <1>5, <1>6, CostStep
<1>8. s \in Held' BY <1>1
<1> DEFINE before == CostOfHoldings
           after == CostOfHoldings'
<1> HIDE DEF before, after
<1>12. /\ after - (IF s \in Held' THEN CostBasis(positions'[s]) ELSE 0)
            = before - (IF s \in Held THEN CostBasis(positions[s]) ELSE 0)
       /\ before \in Int /\ after \in Int
  BY <1>7 DEF before, after
<1>13. after - total = before - 0 BY <1>1, <1>3, <1>8, <1>12
<1>14. after = before + total BY <1>4, <1>12, <1>13
<1>9. CostOfHoldings' = CostOfHoldings + total BY <1>14 DEF before, after
<1>10. cash = config.initialCash + realized - CostOfHoldings BY DEF BooksBalance
<1>11. cash' = config.initialCash + realized - CostOfHoldings'
  BY <1>2, <1>4, <1>7, <1>9, <1>10
<1> QED BY <1>2, <1>11 DEF BooksBalance

\* A sale moves its pnl and the cost of the position to the cash.
LEMMA BooksLeaves ==
  ASSUME TypeInv, BooksBalance, NEW s \in Symbols, Leaves(s)
  PROVE  BooksBalance'
<1> DEFINE net == SellNet(SellPrice(ExitPrice(Aged(s), bars[s])), positions[s].lots)
           cost == CostBasis(positions[s])
<1>1. /\ TypeInv' /\ Held' = Held \ {s} /\ s \in Held
      /\ positions' = [positions EXCEPT ![s] = NoPosition]
  BY TypeLeaves
<1>2. config' = config /\ cash' = cash + net /\ realized' = realized + (net - cost)
  BY DEF Leaves, Managed, Sell, Pnl, loopVars
<1>3. positions \in [Symbols -> Position] /\ config \in Configs
      /\ cash \in Int /\ realized \in Int /\ config.initialCash \in Int
      /\ config.slippage \in Int
  BY ConfigFacts DEF TypeInv
<1>4. net \in Int /\ cost \in Int
  <2>1. ExitPrice(Aged(s), bars[s]) \in Int BY ExitPrices DEF Leaves
  <2>2. SellPrice(ExitPrice(Aged(s), bars[s])) \in Int BY <1>3, <2>1 DEF SellPrice
  <2>3. positions[s].lots \in Int /\ cost \in Int BY <1>1, HeldFacts
  <2> QED BY <1>3, <2>2, <2>3, TradesAreMoney
<1> HIDE DEF net
<1>5. /\ Held \ {s} = Held' \ {s}
      /\ \A t \in Held \ {s} : positions'[t] = positions[t]
  <2> HIDE DEF NoPosition
  <2>1. \A t \in Held : t \in Symbols BY HeldFacts
  <2> QED BY <1>1, <1>3, <2>1
<1>6. /\ CostOfHoldings' - (IF s \in Held' THEN CostBasis(positions'[s]) ELSE 0)
           = CostOfHoldings - (IF s \in Held THEN cost ELSE 0)
      /\ CostOfHoldings \in Int /\ CostOfHoldings' \in Int
  BY <1>1, <1>5, CostStep
<1> HIDE DEF cost
<1>7. s \notin Held' BY <1>1
<1> DEFINE before == CostOfHoldings
           after == CostOfHoldings'
<1> HIDE DEF before, after
<1>11. /\ after - (IF s \in Held' THEN CostBasis(positions'[s]) ELSE 0)
            = before - (IF s \in Held THEN cost ELSE 0)
       /\ before \in Int /\ after \in Int
  BY <1>6 DEF before, after
<1>12. after - 0 = before - cost BY <1>1, <1>7, <1>11
<1>13. after = before - cost BY <1>4, <1>11, <1>12
<1>8. CostOfHoldings' = CostOfHoldings - cost BY <1>13 DEF before, after
<1>9. cash = config.initialCash + realized - CostOfHoldings BY DEF BooksBalance
<1>10. cash' = config.initialCash + realized' - CostOfHoldings'
  BY <1>2, <1>3, <1>4, <1>6, <1>8, <1>9
<1> QED BY <1>2, <1>10 DEF BooksBalance

\* Every step keeps the books balanced.
LEMMA BooksStep ==
  ASSUME TypeInv, SlotsInv, BooksBalance, [Next]_vars PROVE BooksBalance'
<1>1. ASSUME UNCHANGED <<config, bookVars>> PROVE BooksBalance'
  <2>1. config' = config /\ UNCHANGED <<cash, realized>> /\ positions' = positions
    BY <1>1 DEF bookVars
  <2>2. Held' = Held BY <2>1, HeldDependsOnPositions
  <2> QED BY <2>1, <2>2, BooksUnchanged
<1>2. CASE OpenDay BY <1>1, <1>2 DEF OpenDay
<1>3. CASE Raise BY <1>1, <1>3 DEF Raise, loopVars
<1>4. CASE AttemptEntry
  <2>1. CASE GivenUp \/ Deferred \/ Refused
    BY <1>1, <2>1 DEF GivenUp, Deferred, Refused, Tried, loopVars
  <2> QED BY <1>3, <1>4, <2>1, AttemptOutcomes, BooksBought
<1>5. CASE EntriesDone BY <1>1, <1>5 DEF EntriesDone, loopVars
<1>6. ASSUME NEW s \in Symbols, ManageExit(s) PROVE BooksBalance'
  <2>1. ASSUME NEW overdue \in {0, 1}, Stays(s, overdue) PROVE BooksBalance'
    <3>1. Held' = Held
          /\ \A t \in Symbols : positions'[t].lots = positions[t].lots
                                /\ positions'[t].price = positions[t].price
                                /\ positions'[t].fee = positions[t].fee
      BY <2>1, TypeStays
    <3>2. config' = config /\ UNCHANGED <<cash, realized>>
      BY <2>1 DEF Stays, Managed, Keep, loopVars
    <3>3. \A t \in Held : CostBasis(positions'[t]) = CostBasis(positions[t])
      BY <3>1, HeldFacts DEF CostBasis
    <3> QED BY <3>1, <3>2, <3>3, BooksUnchanged
  <2> QED BY <1>3, <1>6, <2>1, ExitOutcomes, BooksLeaves
<1>7. CASE GenerateOrders BY <1>1, <1>7 DEF GenerateOrders
<1>8. CASE Finish BY <1>1, <1>8 DEF Finish, loopVars
<1>9. CASE UNCHANGED vars BY <1>1, <1>9 DEF vars, loopVars
<1> QED BY <1>2, <1>4, <1>5, <1>6, <1>7, <1>8, <1>9 DEF Next

\* What a position sells for covers the commission and the tax of the sale.
SalesCoverTheirCosts ==
    \A c \in Configs, b \in Bars \ {NoBar}, v \in Nat :
        v >= b.low - c.slippage =>
            MaxOf((v * c.commissionRate) \div RateUnit, c.minCommission)
              + (v * c.stampTax) \div RateUnit <= v

\* Any number of lots is worth at least one.
LEMMA LotsAreWorthOne ==
  ASSUME NEW price \in Nat, NEW lots \in Nat \ {0}
  PROVE  price * lots \in Nat /\ price * lots >= price
<1> DEFINE more == lots - 1
<1>1. more \in Nat /\ lots = more + 1 OBVIOUS
<1> HIDE DEF more
<1>2. price * (more + 1) = price * more + price BY <1>1
<1>3. price * more \in Nat BY <1>1
<1> QED BY <1>1, <1>2, <1>3

\* A sale never costs money.
LEMMA SalesBringMoney ==
  ASSUME SalesCoverTheirCosts, TypeInv, NEW s \in Symbols, Leaves(s)
  PROVE  cash' \in Int /\ cash' >= cash
<1> DEFINE raw == ExitPrice(Aged(s), bars[s])
           price == SellPrice(raw)
           v == price * positions[s].lots
<1>1. config \in Configs /\ bars \in [Symbols -> Bars \cup {NoBar}] /\ cash \in Int
      /\ bars[s] # NoBar /\ s \in Held
  BY TypeLeaves DEF TypeInv, Leaves
<1>2. bars[s] \in Bars \ {NoBar}
  <2> HIDE DEF NoBar
  <2> QED BY <1>1
<1>3. raw \in Int /\ raw >= bars[s].low BY <1>1, ExitPrices DEF Leaves, DueToLeave
<1>4. bars[s].low \in Nat /\ config.slippage \in Nat /\ config.slippage < bars[s].low
  BY <1>1, BarFacts, ConfigFacts
<1>5. price \in Nat \ {0} /\ price >= bars[s].low - config.slippage
  BY <1>3, <1>4 DEF SellPrice
<1>6. positions[s].lots \in Nat \ {0} BY <1>1, HeldFacts
<1> HIDE DEF price, NoBar
<1>7. v \in Nat /\ v >= price /\ v # 0 BY <1>5, <1>6, LotsAreWorthOne
<1>8. v >= bars[s].low - config.slippage BY <1>4, <1>5, <1>7
<1>9. cash' = cash + SellNet(price, positions[s].lots) BY DEF Leaves, Sell, price
<1> DEFINE fee == MaxOf((v * config.commissionRate) \div RateUnit, config.minCommission)
           tax == (v * config.stampTax) \div RateUnit
<1>10. SellNet(price, positions[s].lots) = v - fee - tax
  BY <1>7 DEF SellNet, Commission
<1> HIDE DEF v
<1>11. fee + tax <= v BY <1>1, <1>2, <1>7, <1>8 DEF SalesCoverTheirCosts
<1>12. fee \in Int /\ tax \in Int
  <2>1. /\ config.commissionRate \in Int /\ config.stampTax \in Int
        /\ config.minCommission \in Int
    BY <1>1, ConfigFacts
  <2>2. (v * config.commissionRate) \div RateUnit \in Int /\ tax \in Int
    BY <1>7, <2>1, MoneyIsWhole
  <2> QED BY <2>1, <2>2 DEF MaxOf
<1> HIDE DEF fee, tax
<1> QED BY <1>1, <1>7, <1>9, <1>10, <1>11, <1>12

\* The cash never falls below zero, given that sales cover their costs.
LEMMA CashStep ==
  ASSUME SalesCoverTheirCosts, TypeInv, cash >= 0, [Next]_vars PROVE cash' >= 0
<1>1. cash \in Int BY DEF TypeInv
<1>2. CASE OpenDay BY <1>2 DEF OpenDay, bookVars
<1>3. CASE Raise BY <1>3 DEF Raise, bookVars
<1>4. CASE AttemptEntry
  <2>1. CASE GivenUp \/ Deferred \/ Refused
    BY <2>1 DEF GivenUp, Deferred, Refused, bookVars
  <2>2. ASSUME NEW lots \in Nat, NEW price \in Int, Bought(lots, price) PROVE cash' >= 0
    <3>1. BuyCost(price, lots) \in Int BY TradesAreMoney DEF TypeInv
    <3> QED BY <1>1, <2>2, <3>1 DEF Bought
  <2> QED BY <1>3, <1>4, <2>1, <2>2, AttemptOutcomes
<1>5. CASE EntriesDone BY <1>5 DEF EntriesDone, bookVars
<1>6. ASSUME NEW s \in Symbols, ManageExit(s) PROVE cash' >= 0
  <2>1. ASSUME NEW overdue \in {0, 1}, Stays(s, overdue) PROVE cash' >= 0
    BY <2>1 DEF Stays, Keep
  <2>2. CASE Leaves(s) BY <1>1, <2>2, SalesBringMoney
  <2> QED BY <1>3, <1>6, <2>1, <2>2, ExitOutcomes
<1>7. CASE GenerateOrders BY <1>7 DEF GenerateOrders, bookVars
<1>8. CASE Finish BY <1>8 DEF Finish, bookVars
<1>9. CASE UNCHANGED vars BY <1>9 DEF vars, bookVars
<1> QED BY <1>2, <1>4, <1>5, <1>6, <1>7, <1>8, <1>9 DEF Next

\* The overdue days of the positions, all together.
OverdueDays == SumFunction([s \in Held |-> DaysOverdue(positions[s])])

\* The overdue days of a position of the type are a number.
LEMMA OverdueIsANumber ==
  ASSUME config \in Configs, NEW p \in Position
  PROVE  DaysOverdue(p) \in Nat
<1>1. config.maxHolding \in Nat BY ConfigFacts
<1> QED BY <1>1 DEF DaysOverdue, MaxOf, Position

\* The overdue days when one position changes, comes or goes.
LEMMA OverdueStepBy ==
  ASSUME TypeInv, TypeInv', config' = config, NEW s, Held \ {s} = Held' \ {s},
         \A t \in Held \ {s} : positions'[t] = positions[t]
  PROVE  /\ OverdueDays' - (IF s \in Held' THEN DaysOverdue(positions'[s]) ELSE 0)
              = OverdueDays - (IF s \in Held THEN DaysOverdue(positions[s]) ELSE 0)
         /\ OverdueDays \in Int /\ OverdueDays' \in Int
<1> DEFINE f == [t \in Held |-> DaysOverdue(positions[t])]
           g == [t \in Held' |-> DaysOverdue(positions'[t])]
<1>1. IsFiniteSet(Held) /\ IsFiniteSet(Held')
  <2>1. Held \in SUBSET Symbols /\ Held' \in SUBSET Symbols BY DEF Held
  <2> QED BY <2>1, BacktestConstants, FS_Subset
<1>2. \A t \in Held : f[t] = DaysOverdue(positions[t]) /\ f[t] \in Int
  <2> TAKE t \in Held
  <2>1. positions[t] \in Position /\ config \in Configs BY HeldFacts DEF TypeInv
  <2> QED BY <2>1, OverdueIsANumber
<1>3. \A t \in Held' : g[t] = DaysOverdue(positions'[t]) /\ g[t] \in Int
  <2> TAKE t \in Held'
  <2>1. t \in Symbols BY DEF Held
  <2>2. positions'[t] \in Position /\ config \in Configs BY <2>1 DEF TypeInv
  <2> QED BY <2>2, OverdueIsANumber
<1>4. OverdueDays = SumFunctionOnSet(f, Held) BY DEF OverdueDays, SumFunction
<1>5. OverdueDays' = SumFunctionOnSet(g, Held')
  BY DEF OverdueDays, SumFunction, DaysOverdue
<1>6. \A t \in Held \ {s} : f[t] = g[t]
  <2> TAKE t \in Held \ {s}
  <2>1. t \in Held' \ {s} OBVIOUS
  <2> HIDE DEF f, g
  <2> QED BY <1>2, <1>3, <2>1
<1> HIDE DEF f, g
<1>7. SumFunctionOnSet(g, Held') - (IF s \in Held' THEN g[s] ELSE 0)
           = SumFunctionOnSet(f, Held) - (IF s \in Held THEN f[s] ELSE 0)
  BY <1>1, <1>2, <1>3, <1>6, SumStep
<1>8. SumFunctionOnSet(f, Held) \in Int /\ SumFunctionOnSet(g, Held') \in Int
  BY <1>1, <1>2, <1>3, SumOfIntegers
<1>9. /\ (IF s \in Held' THEN g[s] ELSE 0) = (IF s \in Held' THEN DaysOverdue(positions'[s]) ELSE 0)
      /\ (IF s \in Held THEN f[s] ELSE 0) = (IF s \in Held THEN DaysOverdue(positions[s]) ELSE 0)
  BY <1>2, <1>3
<1> QED BY <1>4, <1>5, <1>7, <1>8, <1>9

\* A step that leaves the holdings alone leaves their overdue days alone.
LEMMA SameOverdue ==
  ASSUME UNCHANGED <<config, positions>>
  PROVE  OverdueDays' = OverdueDays
BY DEF OverdueDays, DaysOverdue, Held

\* A new position is not overdue.
LEMMA OverdueBought ==
  ASSUME TypeInv, SlotsInv, NEW lots \in Nat, NEW price \in Int, Bought(lots, price)
  PROVE  OverdueDays' = OverdueDays
<1> DEFINE s == queue[1].symbol
<1>1. /\ s \in Symbols /\ Held' = Held \cup {s}
      /\ \A t \in Symbols \ {s} : positions'[t] = positions[t]
      /\ positions'[s].days = 0
  BY BoughtHolds
<1>2. Tried /\ config' = config BY DEF Bought, Tried, loopVars
<1>3. s \notin Held BY <1>2, QueueShrinks
<1>4. TypeInv' BY TypeBought
<1> HIDE DEF s
<1>5. /\ Held \ {s} = Held' \ {s} /\ s \in Held'
      /\ \A t \in Held \ {s} : positions'[t] = positions[t]
  BY <1>1, <1>3, HeldFacts
<1>6. DaysOverdue(positions'[s]) = 0
  <2>1. config.maxHolding \in Nat \ {0}
    <3>1. /\ config.minHolding \in Nat \ {0} /\ config.maxHolding \in Nat
          /\ config.minHolding <= config.maxHolding
      BY ConfigFacts DEF TypeInv
    <3> QED BY <3>1
  <2> QED BY <1>1, <2>1 DEF DaysOverdue, MaxOf
<1> DEFINE before == OverdueDays
           after == OverdueDays'
<1> HIDE DEF before, after
<1>7. /\ after - (IF s \in Held' THEN DaysOverdue(positions'[s]) ELSE 0)
           = before - (IF s \in Held THEN DaysOverdue(positions[s]) ELSE 0)
      /\ before \in Int /\ after \in Int
  BY <1>2, <1>4, <1>5, OverdueStepBy DEF before, after
<1>8. after - 0 = before - 0 BY <1>3, <1>5, <1>6, <1>7
<1>9. after = before BY <1>7, <1>8
<1> QED BY <1>9 DEF before, after

\* A position that stays is overdue by at most the day that the audit counts.
LEMMA OverdueStays ==
  ASSUME TypeInv, NEW s \in Symbols, NEW overdue \in {0, 1}, Stays(s, overdue)
  PROVE  OverdueDays' <= OverdueDays + overdue /\ OverdueDays \in Int /\ OverdueDays' \in Int
<1>1. /\ TypeInv' /\ Held' = Held /\ positions'[s] = Aged(s)
      /\ positions' = [positions EXCEPT ![s].days = @ + 1]
  BY TypeStays
<1>2. config' = config /\ s \in unmanaged BY DEF Stays, Managed, loopVars
<1>3. positions \in [Symbols -> Position] /\ unmanaged \subseteq Held BY DEF TypeInv
<1>4. s \in Held BY <1>2, <1>3
<1>5. /\ positions[s].days \in Nat /\ config.maxHolding \in Nat
      /\ Aged(s).days = positions[s].days + 1
  <2>1. config.maxHolding \in Nat BY ConfigFacts DEF TypeInv
  <2>2. positions[s] \in Position BY <1>3
  <2> QED BY <2>1, <2>2 DEF Aged, Position
<1>6. DaysOverdue(Aged(s)) <= DaysOverdue(positions[s]) + overdue
      /\ DaysOverdue(Aged(s)) \in Int /\ DaysOverdue(positions[s]) \in Int
  <2>1. overdue = 0 => Aged(s).days < config.maxHolding
    <3>1. SUFFICES ASSUME overdue = 0 PROVE Aged(s).days < config.maxHolding OBVIOUS
    <3>2. bars[s] # NoBar /\ ~DueToLeave(Aged(s), bars[s]) BY <3>1 DEF Stays
    <3>3. ~(Aged(s).days >= config.maxHolding) BY <3>2, ExitPrices
    <3> QED BY <1>5, <3>3
  <2> QED BY <1>5, <2>1 DEF DaysOverdue, MaxOf
<1>7. \A t \in Held \ {s} : positions'[t] = positions[t]
  <2> TAKE t \in Held \ {s}
  <2>1. t \in Symbols BY HeldFacts
  <2> QED BY <1>1, <1>3, <2>1
<1> DEFINE before == OverdueDays
           after == OverdueDays'
           old == DaysOverdue(positions[s])
           new == DaysOverdue(Aged(s))
<1> HIDE DEF before, after, old, new
<1>8. /\ after - (IF s \in Held' THEN new ELSE 0) = before - (IF s \in Held THEN old ELSE 0)
      /\ before \in Int /\ after \in Int
  <2>1. Held \ {s} = Held' \ {s} BY <1>1
  <2> QED BY <1>1, <1>2, <1>7, <2>1, OverdueStepBy DEF before, after, old, new
<1>9. after - new = before - old BY <1>1, <1>4, <1>8
<1>10. new <= old + overdue /\ new \in Int /\ old \in Int BY <1>6 DEF old, new
<1>11. after <= before + overdue BY <1>8, <1>9, <1>10
<1> QED BY <1>8, <1>11 DEF before, after

\* A position that leaves takes its overdue days along.
LEMMA OverdueLeaves ==
  ASSUME TypeInv, NEW s \in Symbols, Leaves(s)
  PROVE  OverdueDays' <= OverdueDays /\ OverdueDays \in Int /\ OverdueDays' \in Int
<1>1. /\ TypeInv' /\ Held' = Held \ {s} /\ s \in Held
      /\ positions' = [positions EXCEPT ![s] = NoPosition]
  BY TypeLeaves
<1>2. config' = config BY DEF Leaves, Managed, loopVars
<1>3. positions \in [Symbols -> Position] BY DEF TypeInv
<1>4. \A t \in Held \ {s} : positions'[t] = positions[t]
  <2> HIDE DEF NoPosition
  <2> TAKE t \in Held \ {s}
  <2>1. t \in Symbols BY HeldFacts
  <2> QED BY <1>1, <1>3, <2>1
<1>5. DaysOverdue(positions[s]) \in Nat
  <2>1. positions[s] \in Position /\ config \in Configs BY <1>3 DEF TypeInv
  <2> QED BY <2>1, OverdueIsANumber
<1> DEFINE before == OverdueDays
           after == OverdueDays'
           old == DaysOverdue(positions[s])
<1> HIDE DEF before, after, old
<1>6. /\ after - (IF s \in Held' THEN DaysOverdue(positions'[s]) ELSE 0)
           = before - (IF s \in Held THEN old ELSE 0)
      /\ before \in Int /\ after \in Int
  <2>1. Held \ {s} = Held' \ {s} BY <1>1
  <2> QED BY <1>1, <1>2, <1>4, <2>1, OverdueStepBy DEF before, after, old
<1>7. s \notin Held' BY <1>1
<1>8. after - 0 = before - old BY <1>1, <1>6, <1>7
<1>9. old \in Nat BY <1>5 DEF old
<1>10. after <= before BY <1>6, <1>8, <1>9
<1> QED BY <1>6, <1>10 DEF before, after

\* Every step keeps the overdue days within those the audit counted.
LEMMA OverdueStep ==
  ASSUME TypeInv, SlotsInv, OverdueHoldingsWereBlocked, [Next]_vars
  PROVE  OverdueHoldingsWereBlocked'
<1>1. OverdueDays <= audit.overdue BY DEF OverdueHoldingsWereBlocked, OverdueDays
<1>2. audit \in [AuditCounters -> Nat] BY DEF TypeInv
<1>3. SUFFICES OverdueDays' <= audit'.overdue BY DEF OverdueHoldingsWereBlocked, OverdueDays
<1>4. ASSUME UNCHANGED <<config, positions>>, audit'.overdue = audit.overdue
      PROVE  OverdueDays' <= audit'.overdue
  BY <1>1, <1>4, SameOverdue
<1>5. CASE OpenDay BY <1>4, <1>5 DEF OpenDay, bookVars
<1>6. CASE Raise BY <1>4, <1>6 DEF Raise, loopVars, bookVars
<1>7. CASE AttemptEntry
  <2>1. ASSUME GivenUp \/ Deferred \/ Refused PROVE OverdueDays' <= audit'.overdue
    <3>1. UNCHANGED <<config, positions>>
      BY <2>1 DEF GivenUp, Deferred, Refused, Tried, loopVars, bookVars
    <3>2. audit'.overdue = audit.overdue
      BY <1>2, <2>1 DEF GivenUp, Deferred, Refused, AuditCounters
    <3> QED BY <1>4, <3>1, <3>2
  <2>2. ASSUME NEW lots \in Nat, NEW price \in Int, Bought(lots, price)
        PROVE  OverdueDays' <= audit'.overdue
    <3>1. audit' = [audit EXCEPT !.filled = @ + 1] BY <2>2 DEF Bought
    <3>2. audit'.overdue = audit.overdue BY <1>2, <3>1 DEF AuditCounters
    <3> QED BY <1>1, <2>2, <3>2, OverdueBought
  <2> QED BY <1>6, <1>7, <2>1, <2>2, AttemptOutcomes
<1>8. CASE EntriesDone BY <1>4, <1>8 DEF EntriesDone, loopVars, bookVars
<1>9. ASSUME NEW s \in Symbols, ManageExit(s) PROVE OverdueDays' <= audit'.overdue
  <2>1. ASSUME NEW overdue \in {0, 1}, Stays(s, overdue) PROVE OverdueDays' <= audit'.overdue
    <3>1. audit' = [audit EXCEPT !.overdue = @ + overdue] BY <2>1 DEF Stays, Keep
    <3>2. audit'.overdue = audit.overdue + overdue /\ audit.overdue \in Nat
      BY <1>2, <3>1 DEF AuditCounters
    <3>3. OverdueDays' <= OverdueDays + overdue /\ OverdueDays \in Int /\ OverdueDays' \in Int
      BY <2>1, OverdueStays
    <3> QED BY <1>1, <3>2, <3>3
  <2>2. CASE Leaves(s)
    <3>1. audit' = audit BY <2>2 DEF Leaves, Sell
    <3>2. audit.overdue \in Nat BY <1>2 DEF AuditCounters
    <3>3. OverdueDays' <= OverdueDays /\ OverdueDays \in Int /\ OverdueDays' \in Int
      BY <2>2, OverdueLeaves
    <3> QED BY <1>1, <3>1, <3>2, <3>3
  <2> QED BY <1>6, <1>9, <2>1, <2>2, ExitOutcomes
<1>10. CASE GenerateOrders
  <2>1. UNCHANGED <<config, positions>> BY <1>10 DEF GenerateOrders, bookVars
  <2>2. audit'.overdue = audit.overdue
    <3>1. ASSUME NEW new, NewOrders(new) PROVE audit'.overdue = audit.overdue
      <4>1. audit' = [audit EXCEPT !.generated = @ + Len(new)] BY <3>1 DEF NewOrders
      <4> QED BY <1>2, <4>1 DEF AuditCounters
    <3> QED BY <1>10, <3>1, GeneratedOrders
  <2> QED BY <1>4, <2>1, <2>2
<1>11. CASE Finish
  <2>1. UNCHANGED <<config, positions>> /\ audit' = [audit EXCEPT !.expired = @ + Len(pending)]
    BY <1>11 DEF Finish, loopVars, bookVars
  <2>2. audit'.overdue = audit.overdue BY <1>2, <2>1 DEF AuditCounters
  <2> QED BY <1>4, <2>1, <2>2
<1>12. CASE UNCHANGED vars BY <1>4, <1>12 DEF vars, loopVars, bookVars
<1> QED BY <1>5, <1>7, <1>8, <1>9, <1>10, <1>11, <1>12 DEF Next

-----------------------------------------------------------------------------
(* The theorems *)

BacktestInv ==
    /\ TypeInv /\ SlotsInv /\ DelayInv /\ AuditInv /\ DaysInv
    /\ BooksBalance /\ OverdueHoldingsWereBlocked

\* Nothing is held in the initial state: both sums are empty.
LEMMA NothingHeldAtFirst ==
  ASSUME Init PROVE Held = {} /\ CostOfHoldings = 0 /\ OverdueDays = 0
<1>1. Held = {} BY DEF Init, Held, NoPosition
<1>2. IsFiniteSet(Held) BY HeldIsFinite
<1>3. CostOfHoldings = 0 BY <1>1, <1>2, SumsOverHeld, SumUnfolds
<1>4. OverdueDays = 0 BY <1>1, <1>2, SumsOverHeld, SumUnfolds DEF OverdueDays
<1> QED BY <1>1, <1>3, <1>4

\* The invariant holds at the start.
LEMMA BacktestInvInit ==
  ASSUME Init PROVE BacktestInv
<1>1. TypeInv /\ SlotsInv BY TypeInit, SlotsInit
<1>2. Held = {} /\ CostOfHoldings = 0 /\ OverdueDays = 0 BY NothingHeldAtFirst
<1>3. queue = <<>> /\ pending = <<>> /\ audit = NewAudit /\ cash = config.initialCash
      /\ realized = 0 /\ phase = "closed"
  BY DEF Init
<1>4. Len(queue) = 0 /\ Len(pending) = 0 /\ DOMAIN queue = {} /\ DOMAIN pending = {} BY <1>3
<1>5. DelayInv BY <1>3, <1>4 DEF DelayInv
<1>6. AuditInv BY <1>3, <1>4 DEF AuditInv, NewAudit
<1>7. DaysInv BY <1>2 DEF DaysInv
<1>8. BooksBalance
  <2>1. config.initialCash \in Int BY ConfigFacts DEF Init
  <2> QED BY <1>2, <1>3, <2>1 DEF BooksBalance
<1>9. OverdueHoldingsWereBlocked
  BY <1>2, <1>3 DEF OverdueHoldingsWereBlocked, OverdueDays, NewAudit
<1> QED BY <1>1, <1>5, <1>6, <1>7, <1>8, <1>9 DEF BacktestInv

\* The inductive invariant of the engine.
LEMMA BacktestInvAlways == Spec => []BacktestInv
<1>1. BacktestInv /\ [Next]_vars => BacktestInv'
  BY TypeStep, SlotsStep, DelayStep, AuditStep, DaysStep, BooksStep, OverdueStep DEF BacktestInv
<1> QED BY <1>1, BacktestInvInit, PTL DEF Spec

\* Type correctness: whatever the configuration, the bars and the rankings, the
\* day loop of BacktestEngine.run keeps every variable in its type.
THEOREM BacktestTypes == Spec => []BacktestTypeOK
<1>1. BacktestInv => BacktestTypeOK
  <2> SUFFICES ASSUME BacktestInv PROVE BacktestTypeOK OBVIOUS
  <2>1. TypeInv BY DEF BacktestInv
  <2>2. \A s \in Symbols : /\ positions[s].lots \in Nat /\ positions[s].days \in Nat
                           /\ positions[s].entered \in 0..day
    <3> TAKE s \in Symbols
    <3>1. positions[s] \in Position /\ positions[s].entered <= day /\ day \in Nat
      BY <2>1, BacktestConstants DEF TypeInv
    <3> QED BY <3>1 DEF Position
  <2> HIDE DEF NoBar
  <2> QED BY <2>1, <2>2 DEF TypeInv, BacktestTypeOK, AuditCounters
<1> QED BY <1>1, BacktestInvAlways, PTL

\* A list of orders for distinct stocks has as many stocks as orders.
LEMMA DistinctOrdersCount ==
  ASSUME NEW S, NEW orders \in Seq(S), Distinct(orders)
  PROVE  Cardinality(SymbolsOf(orders)) = Len(orders)
<1> DEFINE f == [i \in 1..Len(orders) |-> orders[i].symbol]
<1>1. Len(orders) \in Nat /\ DOMAIN orders = 1..Len(orders) BY LenProperties
<1>2. f \in [1..Len(orders) -> SymbolsOf(orders)] BY <1>1 DEF SymbolsOf
<1>3. \A i, j \in 1..Len(orders) : f[i] = f[j] => i = j BY <1>1 DEF Distinct
<1>4. \A s \in SymbolsOf(orders) : \E i \in 1..Len(orders) : f[i] = s BY <1>1 DEF SymbolsOf
<1> HIDE DEF f
<1>5. f \in Bijection(1..Len(orders), SymbolsOf(orders))
  BY <1>2, <1>3, <1>4 DEF Bijection, Injection, Surjection, IsInjective
<1>6. ExistsBijection(1..Len(orders), SymbolsOf(orders)) BY <1>5 DEF ExistsBijection
<1> QED BY <1>1, <1>6, FS_CountingElements

\* _execute_pending never cuts an order: positions, orders in hand and orders
\* waiting stay within max_positions, and no stock is held or ordered twice.
THEOREM NothingIsOverCommitted == Spec => []NeverOverCommitted
<1>1. BacktestInv => NeverOverCommitted
  <2> SUFFICES ASSUME BacktestInv PROVE NeverOverCommitted OBVIOUS
  <2> DEFINE orders == queue \o pending
  <2>1. TypeInv /\ SlotsInv BY DEF BacktestInv
  <2>2. queue \in Seq(Order) /\ pending \in Seq(Order) BY <2>1 DEF TypeInv
  <2>3. /\ Len(queue) \in Nat /\ DOMAIN queue = 1..Len(queue)
        /\ Len(pending) \in Nat /\ DOMAIN pending = 1..Len(pending)
    BY <2>2, LenProperties
  <2>4. /\ orders \in Seq(Order) /\ Len(orders) = Len(queue) + Len(pending)
        /\ \A i \in 1..Len(queue) + Len(pending) :
              orders[i] = IF i <= Len(queue) THEN queue[i] ELSE pending[i - Len(queue)]
    BY <2>2, ConcatProperties
  <2>5. DOMAIN orders = 1..(Len(queue) + Len(pending)) BY <2>4, LenProperties
  <2> HIDE DEF orders
  <2>6. \A i \in DOMAIN orders :
           \/ i \in DOMAIN queue /\ orders[i] = queue[i]
           \/ /\ i \in Int /\ i \notin DOMAIN queue
              /\ i - Len(queue) \in DOMAIN pending /\ orders[i] = pending[i - Len(queue)]
    BY <2>3, <2>4, <2>5
  <2>7. Distinct(orders)
    <3> SUFFICES ASSUME NEW i \in DOMAIN orders, NEW j \in DOMAIN orders,
                        orders[i].symbol = orders[j].symbol
                 PROVE  i = j
        BY DEF Distinct
    <3>1. CASE i \in DOMAIN queue /\ orders[i] = queue[i]
      <4>1. j \in DOMAIN queue /\ orders[j] = queue[j] BY <2>1, <2>6, <3>1 DEF SlotsInv
      <4> QED BY <2>1, <3>1, <4>1 DEF SlotsInv, Distinct
    <3>2. CASE /\ i \in Int /\ i \notin DOMAIN queue
               /\ i - Len(queue) \in DOMAIN pending /\ orders[i] = pending[i - Len(queue)]
      <4>1. j \in Int /\ j - Len(queue) \in DOMAIN pending /\ orders[j] = pending[j - Len(queue)]
        BY <2>1, <2>6, <3>2 DEF SlotsInv
      <4>2. i - Len(queue) = j - Len(queue) BY <2>1, <3>2, <4>1 DEF SlotsInv, Distinct
      <4> QED BY <2>3, <3>2, <4>1, <4>2
    <3> QED BY <2>6, <3>1, <3>2
  <2>8. SymbolsOf(orders) \cap Held = {} BY <2>1, <2>6 DEF SymbolsOf, SlotsInv
  <2>9. Cardinality(SymbolsOf(orders)) = Len(orders) BY <2>4, <2>7, DistinctOrdersCount
  <2>10. Cardinality(Held) + Len(orders) <= config.maxPositions
    <3>1. Cardinality(Held) \in Nat BY HeldIsFinite
    <3>2. Cardinality(Held) + Len(queue) + Len(pending) <= config.maxPositions
      BY <2>1 DEF SlotsInv
    <3> QED BY <2>3, <2>4, <3>1, <3>2
  <2> QED BY <2>8, <2>9, <2>10 DEF NeverOverCommitted, orders
<1> QED BY <1>1, BacktestInvAlways, PTL

\* No order disappears from SignalAttribution: each is filled, refused, blocked
\* for good or still waiting, and at the end those left have expired.
THEOREM EveryOrderIsAccountedFor == Spec => []OrdersAccountedFor
<1>1. BacktestInv => OrdersAccountedFor
  <2> SUFFICES ASSUME BacktestInv PROVE OrdersAccountedFor OBVIOUS
  <2>1. TypeInv /\ SlotsInv /\ DelayInv /\ AuditInv BY DEF BacktestInv
  <2>2. audit.generated = audit.filled + audit.unfunded
                         + (audit.blocked - audit.deferrals)
                         + Len(queue) + Len(pending)
    BY <2>1 DEF AuditInv
  <2>3. ASSUME phase = "done"
        PROVE  audit.generated = audit.filled + audit.unfunded
                 + (IF config.maxDelay = 0 THEN audit.blocked ELSE audit.expired)
    <3>1. Len(queue) = 0
      <4>1. queue = <<>> BY <2>1, <2>3 DEF SlotsInv
      <4> QED BY <4>1
    <3>2. Len(pending) \in Nat /\ DOMAIN pending = 1..Len(pending) BY <2>1, OrdersAreForStocks
    <3> DEFINE g == audit.generated
               f == audit.filled
               u == audit.unfunded
               b == audit.blocked
               d == audit.deferrals
               x == audit.expired
               p == Len(pending)
    <3>3. g = f + u + (b - d) + 0 + p BY <2>2, <3>1
    <3>4. /\ g \in Int /\ f \in Int /\ u \in Int /\ b \in Int /\ d \in Int /\ x \in Int
          /\ p \in Nat /\ config.maxDelay \in Nat
      BY <2>1, <3>2, CountersAreNumbers
    <3>5. CASE config.maxDelay = 0
      <4>1. d = 0 BY <2>1, <3>5 DEF AuditInv
      <4>2. p = 0
        <5>1. SUFFICES ASSUME p # 0 PROVE FALSE OBVIOUS
        <5>2. 1 \in DOMAIN pending BY <3>2, <5>1
        <5>3. pending[1] \in Order BY <2>1, <5>2, OrdersAreForStocks
        <5>4. pending[1].delay \in 0..0 /\ pending[1].signal \in Nat
          BY <3>5, <5>3, BacktestConstants DEF Order
        <5>5. pending[1].signal <= LastDay - 1 /\ pending[1].delay = LastDay - pending[1].signal
          BY <2>1, <2>3, <5>2 DEF DelayInv, SignalEnd
        <5> QED BY <5>4, <5>5, BacktestConstants
      <4> HIDE DEF g, f, u, b, d, p
      <4>3. g = f + u + b BY <3>3, <3>4, <4>1, <4>2
      <4> QED BY <3>5, <4>3 DEF g, f, u, b
    <3>6. CASE config.maxDelay # 0
      <4>1. x = b - d + p
        <5>1. config.maxDelay > 0 BY <3>4, <3>6
        <5> QED BY <2>1, <2>3, <5>1 DEF AuditInv
      <4> HIDE DEF g, f, u, b, d, x, p
      <4>2. g = f + u + x BY <3>3, <3>4, <4>1
      <4> QED BY <3>6, <4>2 DEF g, f, u, x
    <3> QED BY <3>5, <3>6
  <2> QED BY <2>2, <2>3 DEF OrdersAccountedFor
<1> QED BY <1>1, BacktestInvAlways, PTL

\* _defer_blocked_entry: a waiting order was tried on every day since its signal
\* and on no more than max_entry_delay_days, and none is left that never was.
THEOREM DeferredOrdersAreTried == Spec => []DeferredOrdersAreTriedDaily
<1>1. BacktestInv => DeferredOrdersAreTriedDaily
  <2> SUFFICES ASSUME BacktestInv PROVE DeferredOrdersAreTriedDaily OBVIOUS
  <2>1. TypeInv /\ DelayInv BY DEF BacktestInv
  <2>2. ASSUME phase \in {"closed", "done"}, NEW i \in DOMAIN pending
        PROVE  /\ pending[i].delay = day - pending[i].signal
               /\ pending[i].delay <= config.maxDelay
    <3>1. pending[i] \in Order BY <2>1, OrdersAreForStocks
    <3>2. config.maxDelay \in Nat BY <2>1, CountersAreNumbers
    <3>3. pending[i].delay <= config.maxDelay BY <3>1, <3>2 DEF Order
    <3> QED BY <2>1, <2>2, <3>3 DEF DelayInv
  <2>3. ASSUME phase = "done", NEW i \in DOMAIN pending PROVE pending[i].delay > 0
    <3>1. pending[i].signal \in Nat BY <2>1, OrdersAreForStocks
    <3>2. pending[i].signal <= LastDay - 1 /\ pending[i].delay = LastDay - pending[i].signal
      BY <2>1, <2>3 DEF DelayInv, SignalEnd
    <3> QED BY <3>1, <3>2, BacktestConstants
  <2> QED BY <2>2, <2>3 DEF DeferredOrdersAreTriedDaily
<1> QED BY <1>1, BacktestInvAlways, PTL

\* The audit of the days in which a position past max_holding_days could not
\* leave counts every such day of every position still held.
THEOREM OverdueDaysAreCounted == Spec => []OverdueHoldingsWereBlocked
BY BacktestInvAlways, PTL DEF BacktestInv

\* The cash of the engine is the initial cash, plus the pnl of the trades, minus
\* what the open positions cost, whatever the costs are.
THEOREM BooksAlwaysBalance == Spec => []BooksBalance
BY BacktestInvAlways, PTL DEF BacktestInv

\* Together with that, the cash never falls below zero, given that no sale costs
\* more than it brings.
THEOREM CashAlwaysMatches ==
  ASSUME SalesCoverTheirCosts PROVE Spec => []CashMatchesTheTrades
<1>1. Init => BacktestInv /\ cash >= 0
  <2> SUFFICES ASSUME Init PROVE BacktestInv /\ cash >= 0 OBVIOUS
  <2>1. config.initialCash \in Nat BY ConfigFacts DEF Init
  <2>2. cash = config.initialCash BY DEF Init
  <2> QED BY <2>1, <2>2, BacktestInvInit
<1>2. (BacktestInv /\ cash >= 0) /\ [Next]_vars => (cash >= 0)' BY CashStep DEF BacktestInv
<1>3. BacktestInv /\ cash >= 0 => CashMatchesTheTrades
  BY DEF BacktestInv, CashMatchesTheTrades
<1> QED BY <1>1, <1>2, <1>3, BacktestInvAlways, PTL DEF Spec

\* T+1 and min_holding_days: in no step does a position leave on the day it was
\* bought, or before it has been held for min_holding_days.
THEOREM NoPositionLeavesEarly == Spec => NoEarlyExit
<1> DEFINE Due == \A s \in Held : s \notin Held' =>
                     day - positions[s].entered >= config.minHolding
<1>1. BacktestInv /\ [Next]_vars => [Due]_vars
  <2> SUFFICES ASSUME BacktestInv, [Next]_vars, NEW s \in Held, s \notin Held'
               PROVE  day - positions[s].entered >= config.minHolding
      OBVIOUS
  <2>1. TypeInv /\ DaysInv /\ SlotsInv BY DEF BacktestInv
  <2>2. PICK t \in Symbols : ManageExit(t)
    <3>1. ASSUME positions' = positions PROVE FALSE BY <3>1, HeldDependsOnPositions
    <3>2. CASE OpenDay BY <3>1, <3>2 DEF OpenDay, bookVars
    <3>3. CASE AttemptEntry
      <4>1. CASE Raise BY <3>1, <4>1 DEF Raise, bookVars
      <4>2. CASE GivenUp \/ Deferred \/ Refused
        BY <3>1, <4>2 DEF GivenUp, Deferred, Refused, bookVars
      <4>3. ASSUME NEW lots \in Nat, NEW price \in Int, Bought(lots, price) PROVE FALSE
        BY <2>1, <4>3, BoughtHolds
      <4> QED BY <2>1, <3>3, <4>1, <4>2, <4>3, AttemptOutcomes
    <3>4. CASE EntriesDone BY <3>1, <3>4 DEF EntriesDone, bookVars
    <3>5. CASE GenerateOrders BY <3>1, <3>5 DEF GenerateOrders, bookVars
    <3>6. CASE Finish BY <3>1, <3>6 DEF Finish, bookVars
    <3>7. CASE UNCHANGED vars BY <3>1, <3>7 DEF vars, bookVars
    <3> QED BY <3>2, <3>3, <3>4, <3>5, <3>6, <3>7 DEF Next
  <2>3. Leaves(t)
    <3>1. CASE Raise BY <3>1, HeldDependsOnPositions DEF Raise, bookVars
    <3>2. ASSUME NEW overdue \in {0, 1}, Stays(t, overdue) PROVE FALSE
      BY <2>1, <3>2, TypeStays
    <3> QED BY <2>2, <3>1, <3>2, ExitOutcomes
  <2>4. t = s BY <2>1, <2>3, TypeLeaves
  <2>5. Aged(s).days >= config.minHolding /\ Aged(s).days = positions[s].days + 1
    BY <2>1, <2>3, <2>4, ExitPrices DEF Leaves, DueToLeave
  <2>6. positions[s].days = day - 1 - positions[s].entered
    BY <2>1, <2>3, <2>4 DEF DaysInv, Leaves, Managed
  <2>7. day \in Nat /\ positions[s].entered \in Nat BY <2>1, HeldFacts
  <2>8. positions[s].days + 1 = day - positions[s].entered BY <2>6, <2>7
  <2> QED BY <2>5, <2>8
<1> QED BY <1>1, BacktestInvAlways, PTL DEF Spec, NoEarlyExit

\* cooldown_days, as far as the calendar of the snapshot knows trading days: no
\* stock is ordered again in a cooldown whose last day the calendar has.
LEMMA CooldownInvAlways == Spec => []CooldownInv
<1>1. Init => CooldownInv
  <2> SUFFICES ASSUME Init PROVE CooldownInv OBVIOUS
  <2>1. queue = <<>> /\ pending = <<>> /\ lastExit = [s \in Symbols |-> 0] BY DEF Init
  <2>2. DOMAIN queue = {} /\ DOMAIN pending = {} BY <2>1
  <2> QED BY <2>1, <2>2 DEF CooldownInv, CooldownIsKnown
<1>2. BacktestInv /\ CooldownInv /\ [Next]_vars => CooldownInv'
  BY CooldownStep DEF BacktestInv
<1> QED BY <1>1, <1>2, BacktestInvAlways, PTL DEF Spec

\* Whatever the calendar, a stock is ordered again before cooldown_days trading
\* days have passed since its exit only if the calendar ends before the last.
THEOREM CooldownsAreKept == Spec => []CooldownKept
<1>1. TypeInv /\ CooldownInv => CooldownKept
  <2> SUFFICES ASSUME TypeInv, CooldownInv, config.cooldown > 0, NEW i \in DOMAIN pending,
                      lastExit[pending[i].symbol] > 0,
                      lastExit[pending[i].symbol] + config.cooldown <= SnapshotEnd
               PROVE  pending[i].signal > lastExit[pending[i].symbol] + config.cooldown
      BY DEF CooldownKept
  <2>1. Cooled(pending[i]) BY DEF CooldownInv
  <2>2. CooldownIsKnown(pending[i].symbol) BY DEF CooldownIsKnown
  <2> QED BY <2>1, <2>2 DEF Cooled
<1> QED BY <1>1, CooldownInvAlways, BacktestInvAlways, PTL DEF BacktestInv

\* The calendar of the snapshot knows the last day of every cooldown that starts
\* while orders are still generated.  _cooldown_dates sets none beyond it, and an
\* order may then follow the exit at once.
CalendarCoversCooldowns == \A c \in Configs : SignalEnd + c.cooldown <= SnapshotEnd

EveryCooldownKept ==
    config.cooldown > 0 =>
        \A i \in DOMAIN pending :
            LET exit == lastExit[pending[i].symbol]
            IN  exit > 0 => pending[i].signal > exit + config.cooldown

\* With such a calendar no stock is ordered again before cooldown_days trading
\* days have passed since its exit, without exception.
THEOREM CoveredCooldownsAreKept ==
  ASSUME CalendarCoversCooldowns PROVE Spec => []EveryCooldownKept
<1>1. BacktestInv /\ CooldownInv => EveryCooldownKept
  <2> SUFFICES ASSUME BacktestInv, CooldownInv, config.cooldown > 0,
                      NEW i \in DOMAIN pending, lastExit[pending[i].symbol] > 0
               PROVE  pending[i].signal > lastExit[pending[i].symbol] + config.cooldown
      BY DEF EveryCooldownKept
  <2> DEFINE e == lastExit[pending[i].symbol]
             d == pending[i].signal
             c == config.cooldown
  <2>1. TypeInv /\ Cooled(pending[i]) /\ d <= SignalEnd
    BY DEF BacktestInv, CooldownInv, DelayInv
  <2>2. pending[i] \in Order /\ d \in Nat BY <2>1, OrdersAreForStocks
  <2>3. e \in Nat /\ config \in Configs /\ c \in Nat
    BY <2>1, <2>2, OrdersAreForStocks, ConfigFacts DEF TypeInv
  <2>4. SignalEnd + c <= SnapshotEnd BY <2>3 DEF CalendarCoversCooldowns
  <2>5. LastDay \in Nat /\ SnapshotEnd \in Nat /\ SignalEnd \in Int
    BY BacktestConstants DEF SignalEnd
  <2>6. e <= d BY <2>1 DEF Cooled
  <2> HIDE DEF e, d, c
  <2>7. e + c <= SnapshotEnd BY <2>1, <2>2, <2>3, <2>4, <2>5, <2>6
  <2> USE DEF e, d, c
  <2>8. CooldownIsKnown(pending[i].symbol) BY <2>7 DEF CooldownIsKnown
  <2> QED BY <2>1, <2>8 DEF Cooled
<1> QED BY <1>1, CooldownInvAlways, BacktestInvAlways, PTL
=============================================================================
