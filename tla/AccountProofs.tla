---------------------------- MODULE AccountProofs ----------------------------
(***************************************************************************)
(* Theorems about the money and the prices the platform reckons with, for  *)
(* every set of symbols, prices, readers and cycles and every bound: the   *)
(* governed paper account (GovernedLedger), the books of the pretest       *)
(* portfolios and what they earn (Pretest), and the cached market data     *)
(* (MarketData); and, after them, about all the parts of the platform      *)
(* together (MCPlatform).                                                  *)
(***************************************************************************)
EXTENDS MCPlatform, PlatformProofs, LearningProofs, FoldFacts, TLAPS

-----------------------------------------------------------------------------
(* GovernedLedger                                                          *)

Account ==
    [cash : Int, equity : Int, hwm : Int, qty : [Symbols -> Int], basis : [Symbols -> Int],
     day : Int, dayStart : Int, week : Int, weekStart : Int, realised : Int]

Balanced(a) == a \in Account /\ a.cash + AtCost(a, Symbols) = Capital + a.realised

LedgerInv ==
    /\ Balanced(ledger)
    /\ date \in 1 .. MaxDate
    /\ trades \in 0 .. MaxTrades

LEMMA LedgerBounds ==
    /\ Capital \in Nat /\ MaxDate \in Nat \ {0} /\ MaxTrades \in Nat /\ DaysPerWeek \in Nat \ {0}
    /\ Sizing \in Nat /\ Fee \in Nat /\ Slippage \in Nat
    /\ Limits.position \in Nat /\ Limits.short \in Nat
    /\ Prices \subseteq Nat \ {0} /\ \A p \in Prices : Slippage < p
    /\ IsFiniteSet(Symbols)
BY GovernedLedgerAssumption

LEMMA LargerTyped == \A x, y \in Int : Larger(x, y) \in Int /\ Smaller(x, y) \in Int
BY DEF Larger, Smaller

LEMMA AtCostTyped ==
    ASSUME NEW a \in Account, NEW S \in SUBSET Symbols
    PROVE  AtCost(a, S) \in Int
<1>1. IsFiniteSet(S)
  BY LedgerBounds, FS_Subset
<1>2. \A s \in S : a.basis[s] \in Int
  BY DEF Account
<1> DEFINE basis == a.basis
<1>3. AtCost(a, S) = SumFunctionOnSet(basis, S)
  BY DEF AtCost
<1>4. \A s \in S : basis[s] \in Int
  BY <1>2
<1> HIDE DEF basis
<1> QED BY <1>1, <1>3, <1>4, TotalType

\* Money that goes into one position, or comes out of it.
LEMMA OneTradeBalances ==
    ASSUME NEW a, Balanced(a), NEW b \in Account, NEW s \in Symbols,
           \A x \in Symbols \ {s} : b.basis[x] = a.basis[x],
           b.cash - a.cash + (b.basis[s] - a.basis[s]) = b.realised - a.realised
    PROVE  Balanced(b)
<1> DEFINE f == a.basis
           g == b.basis
<1>1. /\ \A x \in Symbols : f[x] \in Int /\ g[x] \in Int
      /\ \A x \in Symbols \ {s} : g[x] = f[x]
      /\ a.cash \in Int /\ b.cash \in Int /\ a.realised \in Int /\ b.realised \in Int
  BY DEF Balanced, Account
<1>2. AtCost(a, Symbols) = SumFunctionOnSet(f, Symbols) /\ AtCost(b, Symbols) = SumFunctionOnSet(g, Symbols)
  BY DEF AtCost
<1>3. b.cash - a.cash + (g[s] - f[s]) = b.realised - a.realised
  OBVIOUS
<1>4. AtCost(a, Symbols) \in Int /\ AtCost(b, Symbols) \in Int
  BY AtCostTyped DEF Balanced
<1> HIDE DEF f, g
<1>5. SumFunctionOnSet(g, Symbols) = SumFunctionOnSet(f, Symbols) + g[s] - f[s]
  BY <1>1, LedgerBounds, TotalChanges
<1>6. a.cash + AtCost(a, Symbols) = Capital + a.realised
  BY DEF Balanced
<1>7. b.cash + AtCost(b, Symbols) = Capital + b.realised
  BY <1>1, <1>2, <1>3, <1>4, <1>5, <1>6, LedgerBounds
<1> QED BY <1>7 DEF Balanced

\* What the account is worth does not touch what it is made of.
LEMMA WorthChanges ==
    ASSUME NEW a, Balanced(a), NEW b \in Account,
           b.cash = a.cash, b.basis = a.basis, b.realised = a.realised
    PROVE  Balanced(b)
<1>1. AtCost(b, Symbols) = AtCost(a, Symbols)
  BY DEF AtCost
<1> QED BY <1>1 DEF Balanced

LEMMA RevaluedBalances ==
    ASSUME NEW a, Balanced(a), NEW price \in Int, NEW s \in Symbols
    PROVE  Balanced(Revalued(a, price, s))
<1>1. a \in Account /\ a.qty[s] \in Int /\ a.cash \in Int /\ a.hwm \in Int
  BY DEF Balanced, Account
<1>2. AtCost(a, Symbols \ {s}) \in Int
  BY <1>1, AtCostTyped
<1> DEFINE equity == a.cash + 100 * price * a.qty[s] + AtCost(a, Symbols \ {s})
           b == [a EXCEPT !.equity = equity, !.hwm = Larger(a.hwm, equity)]
<1>3. equity \in Int
  BY <1>1, <1>2
<1>4. Revalued(a, price, s) = b
  BY DEF Revalued
<1> HIDE DEF equity
<1>5. Larger(a.hwm, equity) \in Int
  BY <1>1, <1>3, LargerTyped
<1>6. b \in Account /\ b.cash = a.cash /\ b.basis = a.basis /\ b.realised = a.realised
  BY <1>1, <1>3, <1>5 DEF Account
<1> HIDE DEF b
<1> QED BY <1>4, <1>6, WorthChanges

LEMMA UntouchedBalances ==
    ASSUME NEW a, Balanced(a)
    PROVE  Balanced(Untouched(a).state)
<1>1. a \in Account /\ a.hwm \in Int /\ a.equity \in Int
  BY DEF Balanced, Account
<1>2. Larger(a.hwm, a.equity) \in Int
  BY <1>1, LargerTyped
<1> DEFINE b == [a EXCEPT !.hwm = Larger(a.hwm, a.equity)]
<1>3. Untouched(a).state = b
  BY DEF Untouched
<1>4. b \in Account /\ b.cash = a.cash /\ b.basis = a.basis /\ b.realised = a.realised
  BY <1>1, <1>2 DEF Account
<1> HIDE DEF b
<1> QED BY <1>3, <1>4, WorthChanges

\* A trade of one symbol: cash, shares, cost and profit move together.
Traded(a, s, cash, qty, basis, realised) ==
    [a EXCEPT !.cash = cash, !.qty[s] = qty, !.basis[s] = basis, !.realised = realised]

LEMMA TradedBalances ==
    ASSUME NEW a, Balanced(a), NEW s \in Symbols, NEW cash \in Int, NEW qty \in Int,
           NEW basis \in Int, NEW realised \in Int, NEW price \in Int,
           cash - a.cash + (basis - a.basis[s]) = realised - a.realised
    PROVE  Balanced(Revalued(Traded(a, s, cash, qty, basis, realised), price, s))
<1> DEFINE b == Traded(a, s, cash, qty, basis, realised)
<1>1. a \in Account
  BY DEF Balanced
<1>2. b \in Account
  BY <1>1 DEF Account, Traded
<1>3. /\ b.cash = cash /\ b.realised = realised /\ b.basis[s] = basis
      /\ \A x \in Symbols \ {s} : b.basis[x] = a.basis[x]
  BY <1>1 DEF Account, Traded
<1> HIDE DEF b
<1>4. b.cash - a.cash + (b.basis[s] - a.basis[s]) = b.realised - a.realised
  BY <1>3
<1>5. Balanced(b)
  BY <1>2, <1>3, <1>4, OneTradeBalances
<1>6. Balanced(Revalued(b, price, s))
  BY <1>5, RevaluedBalances
<1> QED BY <1>6 DEF b

-----------------------------------------------------------------------------
(* Quantities are whole numbers                                            *)

LEMMA DivisionTyped == \A x \in Int, y \in Nat \ {0} : x \div y \in Int
OBVIOUS

LEMMA QuantitiesTyped ==
    ASSUME NEW cash \in Int, NEW equity \in Int, NEW price \in Nat \ {0}
    PROVE  /\ CostOf(price, Fee) \in Nat \ {0}
           /\ Affordable(cash, Sizing, price, Fee) \in Int
           /\ \A n \in Int : /\ ClampToPositionCeiling(n, equity, price, Limits.position) \in Int
                             /\ ClampToShortNotionalCeiling(n, equity, price, Limits.short) \in Int
<1>1. Sizing \in Nat /\ Fee \in Nat /\ Limits.position \in Nat /\ Limits.short \in Nat
  BY LedgerBounds
<1>2. CostOf(price, Fee) \in Nat \ {0}
  <2>1. \A x, y \in Nat \ {0} : x * y \in Nat \ {0}
    OBVIOUS
  <2>2. 100 + Fee \in Nat \ {0}
    BY <1>1
  <2> QED BY <2>1, <2>2 DEF CostOf
<1>3. Affordable(cash, Sizing, price, Fee) \in Int
  <2> DEFINE cost == CostOf(price, Fee)
  <2>1. cost \in Nat \ {0}
    BY <1>2
  <2>2. Affordable(cash, Sizing, price, Fee) = (cash * Sizing) \div (100 * cost)
    BY DEF Affordable
  <2> HIDE DEF cost
  <2>3. 100 * cost \in Nat \ {0} /\ cash * Sizing \in Int
    BY <1>1, <2>1
  <2> QED BY <2>2, <2>3, DivisionTyped
<1>4. ASSUME NEW n \in Int
      PROVE  /\ ClampToPositionCeiling(n, equity, price, Limits.position) \in Int
             /\ ClampToShortNotionalCeiling(n, equity, price, Limits.short) \in Int
  <2> DEFINE byPosition == (equity * Limits.position) \div (10000 * price)
             byShort == (equity * Limits.short) \div (10000 * price)
  <2>1. 10000 * price \in Nat \ {0} /\ equity * Limits.position \in Int /\ equity * Limits.short \in Int
    BY <1>1
  <2>2. byPosition \in Int /\ byShort \in Int
    BY <2>1, DivisionTyped
  <2>3. /\ ClampToPositionCeiling(n, equity, price, Limits.position) \in {n, Smaller(n, byPosition)}
        /\ ClampToShortNotionalCeiling(n, equity, price, Limits.short) \in {n, Smaller(n, byShort)}
    BY DEF ClampToPositionCeiling, ClampToShortNotionalCeiling
  <2> HIDE DEF byPosition, byShort
  <2>4. Smaller(n, byPosition) \in Int /\ Smaller(n, byShort) \in Int
    BY <2>2, LargerTyped
  <2> QED BY <2>3, <2>4
<1> QED BY <1>2, <1>3, <1>4

-----------------------------------------------------------------------------
(* Fills                                                                   *)

LEMMA LongBalances ==
    ASSUME NEW a, Balanced(a), NEW s \in Symbols, NEW price \in Nat \ {0}
    PROVE  Balanced(ExecuteLong(a, s, price, Sizing, Limits, Fee).state)
<1>1. /\ a \in Account /\ a.cash \in Int /\ a.equity \in Int /\ a.qty[s] \in Int
      /\ a.basis[s] \in Int /\ a.realised \in Int
  BY DEF Balanced, Account
<1> DEFINE n == ClampToPositionCeiling(Affordable(a.cash, Sizing, price, Fee), a.equity, price, Limits.position)
           cost == n * CostOf(price, Fee)
           b == Traded(a, s, a.cash - cost, a.qty[s] + n, a.basis[s] + cost, a.realised)
<1>2. n \in Int /\ CostOf(price, Fee) \in Int
  <2>1. Affordable(a.cash, Sizing, price, Fee) \in Int /\ CostOf(price, Fee) \in Nat \ {0}
    BY <1>1, QuantitiesTyped
  <2>2. n \in Int
    BY <1>1, <2>1, QuantitiesTyped
  <2> HIDE DEF n
  <2> QED BY <2>1, <2>2
<1>3. cost \in Int
  <2> HIDE DEF n
  <2> QED BY <1>2
<1>4. CASE a.qty[s] < 0 \/ n <= 0
  <2>1. ExecuteLong(a, s, price, Sizing, Limits, Fee) = Untouched(a)
    BY <1>4 DEF ExecuteLong
  <2> QED BY <2>1, UntouchedBalances
<1>5. CASE ~(a.qty[s] < 0 \/ n <= 0)
  <2>1. b = [a EXCEPT !.cash = a.cash - cost, !.qty[s] = a.qty[s] + n, !.basis[s] = a.basis[s] + cost]
    BY <1>1 DEF Traded, Account
  <2>2. ExecuteLong(a, s, price, Sizing, Limits, Fee).state = Revalued(b, price, s)
    BY <1>5, <2>1 DEF ExecuteLong
  <2> HIDE DEF n, cost
  <2>3. Balanced(Revalued(b, price, s))
    BY <1>1, <1>2, <1>3, TradedBalances
  <2> QED BY <2>2, <2>3
<1> QED BY <1>4, <1>5

LEMMA ShortBalances ==
    ASSUME NEW a, Balanced(a), NEW s \in Symbols, NEW price \in Nat \ {0}
    PROVE  Balanced(ExecuteShort(a, s, price, Sizing, Limits, Fee).state)
<1>1. /\ a \in Account /\ a.cash \in Int /\ a.equity \in Int /\ a.qty[s] \in Int
      /\ a.basis[s] \in Int /\ a.realised \in Int
  BY DEF Balanced, Account
<1> DEFINE m == ClampToPositionCeiling(Affordable(a.cash, Sizing, price, Fee), a.equity, price, Limits.position)
           n == ClampToShortNotionalCeiling(m, a.equity, price, Limits.short)
           proceeds == n * price * (100 - Fee)
           b == Traded(a, s, a.cash + proceeds, a.qty[s] - n, a.basis[s] - proceeds, a.realised)
<1>2. n \in Int
  <2>1. m \in Int
    BY <1>1, QuantitiesTyped
  <2> HIDE DEF m
  <2> QED BY <1>1, <2>1, QuantitiesTyped
<1>3. proceeds \in Int
  <2> HIDE DEF n
  <2> QED BY <1>2, LedgerBounds
<1>4. CASE a.qty[s] > 0 \/ n <= 0
  <2>1. ExecuteShort(a, s, price, Sizing, Limits, Fee) = Untouched(a)
    BY <1>4 DEF ExecuteShort
  <2> QED BY <2>1, UntouchedBalances
<1>5. CASE ~(a.qty[s] > 0 \/ n <= 0)
  <2>1. b = [a EXCEPT !.cash = a.cash + proceeds, !.qty[s] = a.qty[s] - n, !.basis[s] = a.basis[s] - proceeds]
    BY <1>1 DEF Traded, Account
  <2>2. ExecuteShort(a, s, price, Sizing, Limits, Fee).state = Revalued(b, price, s)
    BY <1>5, <2>1 DEF ExecuteShort
  <2> HIDE DEF n, m, proceeds
  <2>3. Balanced(Revalued(b, price, s))
    BY <1>1, <1>2, <1>3, TradedBalances
  <2> QED BY <2>2, <2>3
<1> QED BY <1>4, <1>5

LEMMA ExitBalances ==
    ASSUME NEW a, Balanced(a), NEW s \in Symbols, NEW price \in Nat \ {0}
    PROVE  Balanced(ExecuteExit(a, s, price, Fee).state)
<1>1. /\ a \in Account /\ a.cash \in Int /\ a.qty[s] \in Int
      /\ a.basis[s] \in Int /\ a.realised \in Int
  BY DEF Balanced, Account
<1> DEFINE proceeds == 100 * price * a.qty[s]
           commission == Fee * price * Magnitude(a.qty[s])
           profit == a.realised + proceeds - a.basis[s] - commission
           b == Traded(a, s, a.cash + proceeds - commission, 0, 0, profit)
<1>2. proceeds \in Int /\ commission \in Int
  <2>1. Magnitude(a.qty[s]) \in Int
    BY <1>1 DEF Magnitude
  <2> QED BY <1>1, <2>1, LedgerBounds
<1>4. CASE a.qty[s] = 0
  <2>1. ExecuteExit(a, s, price, Fee) = Untouched(a)
    BY <1>4 DEF ExecuteExit
  <2> QED BY <2>1, UntouchedBalances
<1>5. CASE a.qty[s] # 0
  <2>1. b = [a EXCEPT !.cash = a.cash + proceeds - commission, !.qty[s] = 0, !.basis[s] = 0,
                      !.realised = profit]
    BY <1>1 DEF Traded, Account
  <2>2. ExecuteExit(a, s, price, Fee).state = Revalued(b, price, s)
    BY <1>5, <2>1 DEF ExecuteExit
  <2> HIDE DEF proceeds, commission
  <2>3. a.cash + proceeds - commission \in Int /\ profit \in Int
    BY <1>1, <1>2
  <2>4. (a.cash + proceeds - commission) - a.cash + (0 - a.basis[s]) = profit - a.realised
    BY <1>1, <1>2
  <2> HIDE DEF profit
  <2>5. 0 \in Int /\ price \in Int
    OBVIOUS
  <2>6. Balanced(Revalued(b, price, s))
    BY <1>1, <2>3, <2>4, <2>5, TradedBalances
  <2> QED BY <2>2, <2>6
<1> QED BY <1>4, <1>5

LEMMA FillBalances ==
    ASSUME NEW a, Balanced(a), NEW action, NEW s \in Symbols, NEW price,
           action # "hold" => price \in Nat \ {0}
    PROVE  Balanced(ExecuteFill(action, s, price, a, Sizing, Limits, Fee).state)
<1>1. CASE action = "hold"
  BY <1>1, UntouchedBalances DEF ExecuteFill
<1>2. CASE action # "hold"
  BY <1>2, LongBalances, ShortBalances, ExitBalances, UntouchedBalances DEF ExecuteFill
<1> QED BY <1>1, <1>2

LEMMA RebalanceBalances ==
    ASSUME NEW a, Balanced(a), NEW direction \in {"buy", "sell"}, NEW s \in Symbols,
           NEW price \in Nat \ {0}, NEW wanted \in 1 .. 2
    PROVE  Balanced(ApplyRebalanceTrade(direction, s, wanted, price, a, Fee))
<1>1. /\ a \in Account /\ a.cash \in Int /\ a.qty[s] \in Int
      /\ a.basis[s] \in Int /\ a.realised \in Int
  BY DEF Balanced, Account
<1> DEFINE cost == wanted * CostOf(price, Fee)
           sold == Smaller(wanted, a.qty[s])
           kept == (a.basis[s] * (a.qty[s] - sold)) \div a.qty[s]
           proceeds == sold * price * (100 - Fee)
           profit == a.realised + proceeds - (a.basis[s] - kept)
           bought == Traded(a, s, a.cash - cost, a.qty[s] + wanted, a.basis[s] + cost, a.realised)
           less == Traded(a, s, a.cash + proceeds, a.qty[s] - sold, kept, profit)
<1>2. cost \in Int
  <2>1. CostOf(price, Fee) \in Nat \ {0}
    BY <1>1, QuantitiesTyped
  <2> QED BY <2>1
<1>3. CASE direction = "buy"
  <2>1. bought = [a EXCEPT !.cash = a.cash - cost, !.qty[s] = a.qty[s] + wanted, !.basis[s] = a.basis[s] + cost]
    BY <1>1 DEF Traded, Account
  <2>2. \/ ApplyRebalanceTrade(direction, s, wanted, price, a, Fee) = a
        \/ ApplyRebalanceTrade(direction, s, wanted, price, a, Fee) = Revalued(bought, price, s)
    BY <1>3, <2>1 DEF ApplyRebalanceTrade
  <2> HIDE DEF cost
  <2>3. Balanced(Revalued(bought, price, s))
    BY <1>1, <1>2, TradedBalances
  <2> QED BY <2>2, <2>3
<1>4. CASE direction = "sell" /\ a.qty[s] > 0
  <2>1. less = [a EXCEPT !.cash = a.cash + proceeds, !.qty[s] = a.qty[s] - sold, !.basis[s] = kept,
                         !.realised = profit]
    BY <1>1 DEF Traded, Account
  <2>2. \/ ApplyRebalanceTrade(direction, s, wanted, price, a, Fee) = a
        \/ ApplyRebalanceTrade(direction, s, wanted, price, a, Fee) = Revalued(less, price, s)
    BY <1>4, <2>1 DEF ApplyRebalanceTrade
  <2>3. sold \in Int
    <3>1. wanted \in Int /\ a.qty[s] \in Int
      BY <1>1
    <3> QED BY <3>1, LargerTyped
  <2> DEFINE part == a.basis[s] * (a.qty[s] - sold)
  <2>4. kept = part \div a.qty[s]
    OBVIOUS
  <2> HIDE DEF sold, kept
  <2>5. part \in Int /\ a.qty[s] \in Nat \ {0}
    BY <1>1, <1>4, <2>3
  <2> HIDE DEF part
  <2>6. kept \in Int
    BY <2>4, <2>5, DivisionTyped
  <2>7. proceeds \in Int
    BY <2>3, LedgerBounds
  <2> HIDE DEF proceeds
  <2>8. /\ profit \in Int /\ a.cash + proceeds \in Int /\ a.qty[s] - sold \in Int
        /\ (a.cash + proceeds) - a.cash + (kept - a.basis[s]) = profit - a.realised
    BY <1>1, <2>3, <2>6, <2>7
  <2> HIDE DEF profit
  <2>9. Balanced(Revalued(less, price, s))
    BY <1>1, <2>6, <2>8, TradedBalances
  <2> QED BY <2>2, <2>9
<1>5. CASE direction = "sell" /\ ~(a.qty[s] > 0)
  <2>1. ApplyRebalanceTrade(direction, s, wanted, price, a, Fee) = a
    BY <1>1, <1>5 DEF ApplyRebalanceTrade
  <2> QED BY <2>1
<1> QED BY <1>3, <1>4, <1>5

-----------------------------------------------------------------------------
(* The gate                                                                *)

LEMMA MarkedEquityTyped ==
    ASSUME NEW a \in Account, NEW quotes \in [Symbols -> Int]
    PROVE  MarkedEquity(a, quotes) \in Int
<1> DEFINE worth == [s \in Symbols |-> 100 * quotes[s] * a.qty[s]]
<1>1. a.cash \in Int /\ a.equity \in Int /\ \A s \in Symbols : a.qty[s] \in Int
  BY DEF Account
<1>2. IsFiniteSet(HeldIn(a))
  BY LedgerBounds, FS_Subset DEF HeldIn
<1>3. \A s \in HeldIn(a) : worth[s] \in Int
  BY <1>1 DEF HeldIn
<1>4. MarkedEquity(a, quotes) \in {a.equity, a.cash + SumFunctionOnSet(worth, HeldIn(a))}
  BY DEF MarkedEquity
<1> HIDE DEF worth
<1>5. SumFunctionOnSet(worth, HeldIn(a)) \in Int
  BY <1>2, <1>3, TotalType
<1> QED BY <1>1, <1>4, <1>5

LEMMA GateBalances ==
    ASSUME NEW a, Balanced(a), NEW quotes \in [Symbols -> Int], NEW d \in Int, NEW week \in Int
    PROVE  Balanced(EvaluateEntryGate(a, Limits, quotes, d, week).state)
<1> DEFINE equity == MarkedEquity(a, quotes)
           synced == SyncPeriodBaselines(a, equity, d, week)
           fresh == [synced EXCEPT !.equity = equity, !.hwm = Larger(synced.hwm, equity)]
<1>1. a \in Account
  BY DEF Balanced
<1>2. equity \in Int
  BY <1>1, MarkedEquityTyped
<1>3. EvaluateEntryGate(a, Limits, quotes, d, week).state \in {a, synced, fresh}
  BY DEF EvaluateEntryGate
<1> HIDE DEF equity
<1>4. synced \in Account /\ synced.cash = a.cash /\ synced.basis = a.basis /\ synced.realised = a.realised
  <2> DEFINE dayStart == IF a.day # d THEN equity ELSE a.dayStart
             weekStart == IF a.week # week THEN equity ELSE a.weekStart
  <2>1. dayStart \in Int /\ weekStart \in Int
    BY <1>1, <1>2 DEF Account
  <2>2. synced = [a EXCEPT !.day = d, !.dayStart = dayStart, !.week = week, !.weekStart = weekStart]
    BY DEF SyncPeriodBaselines
  <2> HIDE DEF dayStart, weekStart, synced
  <2> QED BY <1>1, <2>1, <2>2 DEF Account
<1> HIDE DEF synced
<1>5. fresh \in Account /\ fresh.cash = a.cash /\ fresh.basis = a.basis /\ fresh.realised = a.realised
  <2>1. Larger(synced.hwm, equity) \in Int
    BY <1>2, <1>4, LargerTyped DEF Account
  <2> QED BY <1>2, <1>4, <2>1 DEF Account
<1> HIDE DEF fresh
<1> QED BY <1>3, <1>4, <1>5, WorthChanges

-----------------------------------------------------------------------------
LEMMA LedgerStarts == LedgerInit => LedgerInv
<1> SUFFICES ASSUME LedgerInit PROVE LedgerInv
  OBVIOUS
<1> DEFINE zero == [s \in Symbols |-> 0]
<1>1. Capital \in Int /\ 0 \in Int
  BY LedgerBounds
<1>2. ledger \in Account /\ ledger.basis = zero /\ ledger.cash = Capital /\ ledger.realised = 0
  BY <1>1 DEF LedgerInit, Opened, Account
<1>3. AtCost(ledger, Symbols) = SumFunctionOnSet(zero, Symbols)
  BY <1>2 DEF AtCost
<1>4. \A s \in Symbols : zero[s] = 0
  OBVIOUS
<1> HIDE DEF zero
<1>5. SumFunctionOnSet(zero, Symbols) = 0
  BY <1>4, LedgerBounds, TotalOfZeroes
<1>6. Balanced(ledger)
  BY <1>1, <1>2, <1>3, <1>5 DEF Balanced
<1>7. date \in 1 .. MaxDate /\ trades \in 0 .. MaxTrades
  BY LedgerBounds DEF LedgerInit
<1> QED BY <1>6, <1>7 DEF LedgerInv

LEMMA EntryKeeps == LedgerInv /\ EvaluateAndExecuteEntry => LedgerInv'
<1> SUFFICES ASSUME LedgerInv, EvaluateAndExecuteEntry PROVE LedgerInv'
  OBVIOUS
<1> DEFINE Gate(quotes) == EvaluateEntryGate(ledger, Limits, quotes, date, WeekOf(date))
<1>1. PICK action \in {"long", "short", "exit", "hold"}, s \in Symbols,
           quotes \in [Symbols -> Prices \cup {0}] :
         LET a == IF action \in {"long", "short"} THEN Gate(quotes).state ELSE ledger
             passes == action \in {"long", "short"} => Gate(quotes).pass
             priced == action = "hold" \/ quotes[s] > 0
         IN  ledger' = IF passes /\ priced
                       THEN ExecuteFill(action, s, FillPrice(action, s, a, quotes[s]), a,
                                        Sizing, Limits, Fee).state
                       ELSE a
  BY DEF EvaluateAndExecuteEntry
<1> DEFINE a == IF action \in {"long", "short"} THEN Gate(quotes).state ELSE ledger
           price == FillPrice(action, s, a, quotes[s])
<1>2. Balanced(a)
  <2>1. Balanced(ledger) /\ date \in Int
    BY LedgerBounds DEF LedgerInv
  <2>2. WeekOf(date) \in Int
    BY <2>1, LedgerBounds DEF WeekOf
  <2>3. quotes \in [Symbols -> Int]
    <3>1. Prices \cup {0} \subseteq Int
      BY LedgerBounds
    <3> QED BY <3>1
  <2>4. Balanced(Gate(quotes).state)
    BY <2>1, <2>2, <2>3, GateBalances
  <2> HIDE DEF Gate
  <2> QED BY <2>1, <2>4
<1>3. (action = "hold" \/ quotes[s] > 0) => (action # "hold" => price \in Nat \ {0})
  <2> SUFFICES ASSUME quotes[s] > 0 PROVE price \in Nat \ {0}
    OBVIOUS
  <2>1. quotes[s] \in Prices
    OBVIOUS
  <2>2. quotes[s] \in Nat \ {0} /\ Slippage \in Nat /\ Slippage < quotes[s]
    BY <2>1, LedgerBounds
  <2>3. quotes[s] + Slippage \in Nat \ {0} /\ quotes[s] - Slippage \in Nat \ {0}
    BY <2>2
  <2> HIDE DEF a
  <2> QED BY <2>3 DEF FillPrice
<1>4. \/ ledger' = a
      \/ /\ action = "hold" \/ quotes[s] > 0
         /\ ledger' = ExecuteFill(action, s, price, a, Sizing, Limits, Fee).state
  BY <1>1, Zenon
<1> HIDE DEF a, price
<1>5. Balanced(ledger')
  <2>1. CASE ledger' = a
    BY <1>2, <2>1
  <2>2. CASE /\ action = "hold" \/ quotes[s] > 0
             /\ ledger' = ExecuteFill(action, s, price, a, Sizing, Limits, Fee).state
    <3>1. action # "hold" => price \in Nat \ {0}
      BY <1>3, <2>2
    <3>2. Balanced(ExecuteFill(action, s, price, a, Sizing, Limits, Fee).state)
      BY <1>2, <3>1, FillBalances
    <3> QED BY <2>2, <3>2
  <2> QED BY <1>4, <2>1, <2>2
<1>6. trades' \in 0 .. MaxTrades /\ date' \in 1 .. MaxDate
  BY LedgerBounds DEF EvaluateAndExecuteEntry, LedgerInv
<1>7. Balanced(ledger)'
  BY <1>5 DEF Balanced
<1> QED BY <1>6, <1>7 DEF LedgerInv

LEMMA LedgerStepKeeps == LedgerInv /\ [LedgerNext]_ledgerVars => LedgerInv'
<1> SUFFICES ASSUME LedgerInv, [LedgerNext]_ledgerVars PROVE LedgerInv'
  OBVIOUS
<1>1. CASE Rebalance
  <2>1. PICK direction \in {"buy", "sell"}, s \in Symbols, price \in Prices, wanted \in 1 .. 2 :
           ledger' = ApplyRebalanceTrade(direction, s, wanted, price, ledger, Fee)
    BY <1>1 DEF Rebalance
  <2>2. price \in Nat \ {0} /\ Balanced(ledger)
    BY LedgerBounds DEF LedgerInv
  <2>3. Balanced(ApplyRebalanceTrade(direction, s, wanted, price, ledger, Fee))
    BY <2>2, RebalanceBalances
  <2>4. Balanced(ledger)'
    BY <2>1, <2>3 DEF Balanced
  <2>5. trades' \in 0 .. MaxTrades /\ date' = date
    BY <1>1, LedgerBounds DEF Rebalance, LedgerInv
  <2> QED BY <2>4, <2>5 DEF LedgerInv
<1>2. CASE NextDay
  <2>1. date' \in 1 .. MaxDate /\ UNCHANGED <<ledger, trades>>
    BY <1>2, LedgerBounds DEF NextDay, LedgerInv
  <2> QED BY <2>1 DEF LedgerInv, Balanced
<1>3. CASE UNCHANGED ledgerVars
  BY <1>3 DEF ledgerVars, LedgerInv, Balanced
<1> QED BY <1>1, <1>2, <1>3, EntryKeeps DEF LedgerNext

\* No gate, fill, rebalancing trade or rollover makes or loses money
\* (evaluateAndExecuteEntry, applyRebalanceTrade).
THEOREM LedgerAlwaysBalances == LedgerSpec => []LedgerBalances
<1>1. LedgerInv => LedgerBalances
  BY DEF LedgerInv, Balanced, LedgerBalances
<1> QED BY LedgerStarts, LedgerStepKeeps, <1>1, PTL DEF LedgerSpec

\* The account keeps to its types.
THEOREM LedgerKeepsTypes == LedgerSpec => []LedgerTypeOK
<1>1. LedgerInv => LedgerTypeOK
  BY DEF LedgerInv, Balanced, Account, LedgerTypeOK
<1> QED BY LedgerStarts, LedgerStepKeeps, <1>1, PTL DEF LedgerSpec

-----------------------------------------------------------------------------
(* Pretest: the book                                                       *)

Held == [qty : Int, basis : Int]
Book == [cash : Int, held : [Assets -> Held], open : SUBSET Assets, realized : Int,
         wins : Nat, losses : Nat, crossed : BOOLEAN]
Sound == {st \in Book : st.crossed \/ Conserved(st)}
Trade == {t \in [kind : {"none", "buy", "sell", "short", "cover"}, symbol : Assets,
                 price : Nat, qty : Nat] : t.kind = "buy" => t.qty > 0}

LEMMA BookBounds ==
    /\ IsFiniteSet(Assets) /\ INITIAL_CAPITAL \in Nat /\ SIZING_DIVISOR \in Nat \ {0}
    /\ MaxPretestCycles \in Nat /\ MaxRowEdits \in Nat
    /\ PretestQuotes \subseteq [Assets -> Nat] /\ Orders \subseteq Seq(Call)
BY PretestBookAssumption, PretestAssumption

\* The whole of a position takes the whole of its cost with it.
LEMMA WholeShare == \A x \in Int, y \in Nat \ {0} : (x * y) \div y = x
<1> SUFFICES ASSUME NEW x \in Int, NEW y \in Nat \ {0} PROVE (x * y) \div y = x
  OBVIOUS
<1> DEFINE d == (x * y) \div y
<1>1. d \in Int /\ y * d <= x * y /\ x * y < y * d + y
  OBVIOUS
<1> HIDE DEF d
<1>2. \A e \in Int : e >= 1 => y * e >= y
  OBVIOUS
<1>3. CASE d < x
  <2>1. y * (x - d) >= y
    BY <1>1, <1>2, <1>3
  <2> QED BY <1>1, <2>1
<1>4. CASE d > x
  <2>1. y * (d - x) >= y
    BY <1>1, <1>2, <1>4
  <2> QED BY <1>1, <2>1
<1>5. d = x
  BY <1>1, <1>3, <1>4
<1> QED BY <1>5 DEF d

LEMMA AmountsAddUp ==
    \A c, d, t, u, k, q, r, x, y \in Int :
      c + t = k + q /\ u = t + y - x /\ d - c + (y - x) = r - q => d + u = k + r
OBVIOUS

\* One position, cash and gains change by amounts that add up.
LEMMA OneFillConserves ==
    ASSUME NEW st \in Sound, NEW b \in Book, NEW s \in Assets,
           \A x \in Assets \ {s} : b.held[x] = st.held[x],
           st.crossed => b.crossed,
           \/ b.crossed
           \/ b.cash - st.cash + (b.held[s].basis - st.held[s].basis) = b.realized - st.realized
    PROVE  b \in Sound
<1>1. CASE b.crossed
  BY <1>1 DEF Sound
<1>2. CASE ~b.crossed
  <2> DEFINE f == BasisOf(st)
             g == BasisOf(b)
  <2>1. Conserved(st) /\ st \in Book
    BY <1>2 DEF Sound
  <2>2. /\ \A x \in Assets : f[x] = st.held[x].basis /\ g[x] = b.held[x].basis
        /\ DOMAIN f = Assets /\ DOMAIN g = Assets
    BY DEF BasisOf
  <2>3. /\ \A x \in Assets : st.held[x].basis \in Int /\ b.held[x].basis \in Int
        /\ st.cash \in Int /\ b.cash \in Int /\ st.realized \in Int /\ b.realized \in Int
    BY <2>1 DEF Book, Held
  <2>4. /\ SumFunction(f) = SumFunctionOnSet(f, Assets)
        /\ SumFunction(g) = SumFunctionOnSet(g, Assets)
    BY <2>2 DEF SumFunction
  <2> HIDE DEF f, g
  <2>5. /\ \A x \in Assets : f[x] \in Int /\ g[x] \in Int
        /\ \A x \in Assets \ {s} : g[x] = f[x]
    BY <2>2, <2>3
  <2>6. /\ SumFunctionOnSet(g, Assets) = SumFunctionOnSet(f, Assets) + g[s] - f[s]
        /\ SumFunctionOnSet(f, Assets) \in Int
    BY <2>5, BookBounds, TotalChanges, TotalType
  <2>7. st.cash + SumFunctionOnSet(f, Assets) = INITIAL_CAPITAL + st.realized
    BY <2>1, <2>4 DEF Conserved, f
  <2>8. b.cash - st.cash + (g[s] - f[s]) = b.realized - st.realized
    BY <1>2, <2>2
  <2>9. b.cash + SumFunctionOnSet(g, Assets) = INITIAL_CAPITAL + b.realized
    <3>1. f[s] \in Int /\ g[s] \in Int /\ SumFunctionOnSet(g, Assets) \in Int
      BY <2>5, BookBounds, TotalType
    <3>2. INITIAL_CAPITAL \in Int
      BY BookBounds
    <3> QED BY <2>3, <2>6, <2>7, <2>8, <3>1, <3>2, AmountsAddUp
  <2>10. Conserved(b)
    BY <2>4, <2>9 DEF Conserved, g
  <2> QED BY <2>10 DEF Sound
<1> QED BY <1>1, <1>2

-----------------------------------------------------------------------------
(* What the operations on a book change                                    *)

\* b is st with another position in s, and other cash and gains.
Changed(b, st, s, cash, position, realized, crossed) ==
    /\ b \in Book
    /\ b.cash = cash /\ b.realized = realized /\ b.crossed = crossed
    /\ b.held = [st.held EXCEPT ![s] = position]

LEMMA MoneyMoved ==
    ASSUME NEW st \in Book, NEW cash \in Int, NEW crossed \in BOOLEAN, NEW s \in Assets
    PROVE  Changed([st EXCEPT !.cash = cash, !.crossed = crossed], st, s, cash, st.held[s],
                   st.realized, crossed)
<1>1. [st.held EXCEPT ![s] = st.held[s]] = st.held
  BY DEF Book
<1> QED BY <1>1 DEF Changed, Book

LEMMA PositionChanged ==
    ASSUME NEW st \in Book, NEW s \in Assets, NEW b, NEW cash, NEW realized, NEW crossed, NEW p,
           Changed(b, st, s, cash, p, realized, crossed), NEW qty \in Int, NEW basis \in Int
    PROVE  /\ Changed(WithPosition(b, s, qty, basis), st, s, cash, [qty |-> qty, basis |-> basis],
                      realized, crossed)
           /\ Changed(Closed(b, s), st, s, cash, NoPosition, realized, crossed)
<1>1. /\ b \in Book /\ b.cash = cash /\ b.realized = realized /\ b.crossed = crossed
      /\ b.held = [st.held EXCEPT ![s] = p]
  BY DEF Changed
<1>2. [qty |-> qty, basis |-> basis] \in Held /\ NoPosition \in Held
  BY DEF Held, NoPosition
<1>3. \A q : [b.held EXCEPT ![s] = q] = [st.held EXCEPT ![s] = q]
  BY <1>1 DEF Book
<1> DEFINE q == [qty |-> qty, basis |-> basis]
           with == [b EXCEPT !.held = [b.held EXCEPT ![s] = q], !.open = b.open \cup {s}]
           without == [b EXCEPT !.held = [b.held EXCEPT ![s] = NoPosition], !.open = b.open \ {s}]
<1>4. WithPosition(b, s, qty, basis) = with /\ Closed(b, s) = without
  BY <1>1 DEF WithPosition, Closed, Book
<1> HIDE DEF q
<1>5. q \in Held
  BY <1>2 DEF q
<1>6. Changed(with, st, s, cash, q, realized, crossed)
  BY <1>1, <1>3, <1>5 DEF Changed, Book
<1>7. Changed(without, st, s, cash, NoPosition, realized, crossed)
  BY <1>1, <1>2, <1>3 DEF Changed, Book
<1> QED BY <1>4, <1>6, <1>7 DEF q

LEMMA GainRealized ==
    ASSUME NEW st \in Book, NEW s \in Assets, NEW b, NEW cash, NEW realized \in Int, NEW crossed, NEW p,
           Changed(b, st, s, cash, p, realized, crossed), NEW pnl \in Int
    PROVE  Changed(Realize(b, pnl), st, s, cash, p, realized + pnl, crossed)
<1> DEFINE wins == b.wins + (IF pnl > 0 THEN 1 ELSE 0)
           losses == b.losses + (IF pnl > 0 THEN 0 ELSE 1)
<1>1. b \in Book /\ b.realized = realized /\ b.realized + pnl \in Int
  BY DEF Changed, Book
<1>2. wins \in Nat /\ losses \in Nat
  BY <1>1 DEF Book
<1>3. Realize(b, pnl) = [b EXCEPT !.realized = b.realized + pnl, !.wins = wins, !.losses = losses]
  BY DEF Realize
<1> HIDE DEF wins, losses
<1> QED BY <1>1, <1>2, <1>3 DEF Changed, Book

\* Amounts that add up make a sound book of a sound one.
LEMMA ChangeConserves ==
    ASSUME NEW st \in Sound, NEW s \in Assets, NEW b, NEW cash, NEW realized, NEW crossed, NEW p,
           Changed(b, st, s, cash, p, realized, crossed), st.crossed => crossed,
           crossed \/ cash - st.cash + (p.basis - st.held[s].basis) = realized - st.realized
    PROVE  b \in Sound
<1>1. st \in Book /\ b \in Book
  BY DEF Changed, Sound
<1>2. \A x \in Assets \ {s} : b.held[x] = st.held[x]
  BY <1>1 DEF Changed, Book
<1>3. b.held[s] = p /\ b.cash = cash /\ b.realized = realized /\ b.crossed = crossed
  BY <1>1 DEF Changed, Book
<1> QED BY <1>1, <1>2, <1>3, OneFillConserves

-----------------------------------------------------------------------------
(* Fills                                                                   *)

LEMMA SmallerOfTwo == \A x, y \in Int : Min({x, y}) \in {x, y}
<1> SUFFICES ASSUME NEW x \in Int, NEW y \in Int PROVE Min({x, y}) \in {x, y}
  OBVIOUS
<1>1. \E z \in {x, y} : \A w \in {x, y} : z <= w
  <2>1. CASE x <= y
    BY <2>1
  <2>2. CASE ~(x <= y)
    BY <2>2
  <2> QED BY <2>1, <2>2
<1> QED BY <1>1 DEF Min

LEMMA BookTyped ==
    ASSUME NEW st \in Book, NEW s \in Assets
    PROVE  /\ st.cash \in Int /\ st.realized \in Int /\ st.crossed \in BOOLEAN
           /\ st.held[s].qty \in Int /\ st.held[s].basis \in Int
BY DEF Book, Held

LEMMA BuyConserves ==
    ASSUME NEW st \in Sound, NEW s \in Assets, NEW price \in Nat, NEW qty \in Nat, qty > 0
    PROVE  ApplyBuy(st, s, price, qty) \in Sound
<1>1. /\ st \in Book /\ st.cash \in Int /\ st.realized \in Int /\ st.crossed \in BOOLEAN
      /\ st.held[s].qty \in Int /\ st.held[s].basis \in Int
  BY BookTyped DEF Sound
<1> DEFINE cost == price * qty
           total == st.held[s].qty + qty
           basis == IF total = 0 THEN 0 ELSE st.held[s].basis + cost
           crossed == st.crossed \/ st.held[s].qty < 0
           paid == [st EXCEPT !.cash = st.cash - cost, !.crossed = crossed]
<1>2. cost \in Int
  OBVIOUS
<1>3. ApplyBuy(st, s, price, qty) = st \/ ApplyBuy(st, s, price, qty) = WithPosition(paid, s, total, basis)
  BY DEF ApplyBuy
<1> HIDE DEF cost
<1>4. total \in Int /\ basis \in Int /\ crossed \in BOOLEAN /\ st.cash - cost \in Int
  BY <1>1, <1>2
<1>5. \/ crossed
      \/ (st.cash - cost) - st.cash + (basis - st.held[s].basis) = st.realized - st.realized
  BY <1>1, <1>2
<1>6. st.crossed => crossed
  OBVIOUS
<1> HIDE DEF total, basis, crossed
<1>7. Changed(paid, st, s, st.cash - cost, st.held[s], st.realized, crossed)
  BY <1>1, <1>4, MoneyMoved
<1> HIDE DEF paid
<1>8. Changed(WithPosition(paid, s, total, basis), st, s, st.cash - cost,
              [qty |-> total, basis |-> basis], st.realized, crossed)
  BY <1>1, <1>4, <1>7, PositionChanged
<1>9. WithPosition(paid, s, total, basis) \in Sound
  <2> DEFINE q == [qty |-> total, basis |-> basis]
  <2>1. q.basis = basis
    OBVIOUS
  <2> HIDE DEF q
  <2>2. Changed(WithPosition(paid, s, total, basis), st, s, st.cash - cost, q, st.realized, crossed)
    BY <1>8 DEF q
  <2>3. \/ crossed
        \/ (st.cash - cost) - st.cash + (q.basis - st.held[s].basis) = st.realized - st.realized
    BY <1>5, <2>1
  <2> QED BY <1>6, <2>2, <2>3, ChangeConserves
<1> QED BY <1>3, <1>9

\* Money moves, and a share of a position with it.
LEMMA ReducedFacts ==
    ASSUME NEW st \in Book, NEW s \in Assets, NEW cash \in Int, NEW qty \in Int, NEW share \in Int,
           st.held[s].qty = qty => share = st.held[s].basis
    PROVE  \E p : /\ Changed(Reduced([st EXCEPT !.cash = cash], s, qty, share), st, s, cash, p,
                              st.realized, st.crossed)
                  /\ p.basis = st.held[s].basis - share
<1> DEFINE moved == [st EXCEPT !.cash = cash]
           q == [qty |-> st.held[s].qty - qty, basis |-> st.held[s].basis - share]
<1>1. /\ st.cash \in Int /\ st.realized \in Int /\ st.crossed \in BOOLEAN
      /\ st.held[s].qty \in Int /\ st.held[s].basis \in Int
  BY BookTyped
<1>2. moved = [st EXCEPT !.cash = cash, !.crossed = st.crossed] /\ moved.held = st.held
  BY DEF Book
<1>3. Changed(moved, st, s, cash, st.held[s], st.realized, st.crossed)
  BY <1>1, <1>2, MoneyMoved
<1>4. Reduced(moved, s, qty, share) =
        IF st.held[s].qty = qty THEN Closed(moved, s)
        ELSE WithPosition(moved, s, st.held[s].qty - qty, st.held[s].basis - share)
  BY <1>2 DEF Reduced
<1> HIDE DEF moved
<1>5. st.held[s].qty - qty \in Int /\ st.held[s].basis - share \in Int
  BY <1>1
<1>6. /\ Changed(WithPosition(moved, s, st.held[s].qty - qty, st.held[s].basis - share), st, s, cash, q,
                 st.realized, st.crossed)
      /\ Changed(Closed(moved, s), st, s, cash, NoPosition, st.realized, st.crossed)
  BY <1>3, <1>5, PositionChanged
<1>7. CASE st.held[s].qty = qty
  <2>1. NoPosition.basis = st.held[s].basis - share
    BY <1>1, <1>7 DEF NoPosition
  <2> QED BY <1>4, <1>6, <1>7, <2>1 DEF moved
<1>8. CASE st.held[s].qty # qty
  <2>1. q.basis = st.held[s].basis - share
    OBVIOUS
  <2> HIDE DEF q
  <2> QED BY <1>4, <1>6, <1>8, <2>1 DEF moved
<1> QED BY <1>7, <1>8

\* What leaves a position and what it brings in is what is gained.
LEMMA ReducingConserves ==
    ASSUME NEW st \in Sound, NEW s \in Assets, NEW cash \in Int, NEW qty \in Int, NEW share \in Int,
           st.held[s].qty = qty => share = st.held[s].basis
    PROVE  Realize(Reduced([st EXCEPT !.cash = cash], s, qty, share), cash - st.cash - share) \in Sound
<1>1. /\ st \in Book /\ st.cash \in Int /\ st.realized \in Int
      /\ st.held[s].basis \in Int
  BY BookTyped DEF Sound
<1> DEFINE b == Reduced([st EXCEPT !.cash = cash], s, qty, share)
           pnl == cash - st.cash - share
<1>2. PICK p : /\ Changed(b, st, s, cash, p, st.realized, st.crossed)
               /\ p.basis = st.held[s].basis - share
  BY <1>1, ReducedFacts
<1>3. pnl \in Int
  BY <1>1
<1>4. cash - st.cash + ((st.held[s].basis - share) - st.held[s].basis) = (st.realized + pnl) - st.realized
  BY <1>1
<1> HIDE DEF b, pnl
<1>5. Changed(Realize(b, pnl), st, s, cash, p, st.realized + pnl, st.crossed)
  BY <1>1, <1>2, <1>3, GainRealized
<1>6. cash - st.cash + (p.basis - st.held[s].basis) = (st.realized + pnl) - st.realized
  BY <1>2, <1>4
<1>7. Realize(b, pnl) \in Sound
  BY <1>5, <1>6, ChangeConserves
<1> QED BY <1>7 DEF b, pnl

LEMMA SellConserves ==
    ASSUME NEW st \in Sound, NEW s \in Assets, NEW price \in Nat, NEW ordered \in Nat
    PROVE  ApplySell(st, s, price, ordered) \in Sound
<1>1. /\ st \in Book /\ st.cash \in Int /\ st.held[s].qty \in Int /\ st.held[s].basis \in Int
  BY BookTyped DEF Sound
<1> DEFINE qty == Min({ordered, st.held[s].qty})
           share == ShareOf(st.held[s], qty, st.held[s].qty)
           cash == st.cash + price * qty
<1>2. CASE st.held[s].qty <= 0
  BY <1>2 DEF ApplySell
<1>3. CASE ~(st.held[s].qty <= 0)
  <2>1. qty \in Int
    BY <1>1, SmallerOfTwo
  <2>2. ApplySell(st, s, price, ordered) =
          Realize(Reduced([st EXCEPT !.cash = cash], s, qty, share), price * qty - share)
    BY <1>3 DEF ApplySell
  <2>3. share = (st.held[s].basis * qty) \div st.held[s].qty
    BY DEF ShareOf
  <2> HIDE DEF qty, share
  <2>4. st.held[s].basis * qty \in Int /\ st.held[s].qty \in Nat \ {0}
    BY <1>1, <1>3, <2>1
  <2>5. share \in Int
    BY <2>3, <2>4, DivisionTyped
  <2>6. st.held[s].qty = qty => share = st.held[s].basis
    BY <1>1, <2>3, <2>4, WholeShare
  <2>7. cash \in Int /\ cash - st.cash - share = price * qty - share
    BY <1>1, <2>1, <2>5
  <2> HIDE DEF cash
  <2>8. Realize(Reduced([st EXCEPT !.cash = cash], s, qty, share), cash - st.cash - share) \in Sound
    BY <2>1, <2>5, <2>6, <2>7, ReducingConserves
  <2> QED BY <2>2, <2>7, <2>8
<1> QED BY <1>2, <1>3

LEMMA CoverConserves ==
    ASSUME NEW st \in Sound, NEW s \in Assets, NEW price \in Nat, NEW ordered \in Nat
    PROVE  ApplyCover(st, s, price, ordered) \in Sound
<1>1. /\ st \in Book /\ st.cash \in Int /\ st.held[s].qty \in Int /\ st.held[s].basis \in Int
  BY BookTyped DEF Sound
<1> DEFINE qty == Min({ordered, -st.held[s].qty})
           share == ShareOf([basis |-> -st.held[s].basis], qty, -st.held[s].qty)
           cash == st.cash - price * qty
<1>2. CASE st.held[s].qty >= 0
  BY <1>2 DEF ApplyCover
<1>3. CASE ~(st.held[s].qty >= 0)
  <2>1. qty \in Int
    <3>1. -st.held[s].qty \in Int
      BY <1>1
    <3> QED BY <3>1, SmallerOfTwo
  <2>2. ApplyCover(st, s, price, ordered) =
          Realize(Reduced([st EXCEPT !.cash = cash], s, -qty, -share), share - price * qty)
    BY <1>3 DEF ApplyCover
  <2> DEFINE owed == -st.held[s].basis
             short == -st.held[s].qty
  <2>3. share = (owed * qty) \div short
    BY DEF ShareOf
  <2>4. owed \in Int /\ short \in Nat \ {0} /\ -owed = st.held[s].basis
    BY <1>1, <1>3
  <2>s. st.held[s].qty = -qty => qty = short
    BY <1>1, <2>1
  <2> HIDE DEF qty, share, owed, short
  <2>5. owed * qty \in Int
    BY <2>1, <2>4
  <2>6. share \in Int
    BY <2>3, <2>4, <2>5, DivisionTyped
  <2>7. st.held[s].qty = -qty => -share = st.held[s].basis
    BY <2>3, <2>4, <2>s, WholeShare
  <2>8. /\ cash \in Int /\ -qty \in Int /\ -share \in Int
        /\ cash - st.cash - (-share) = share - price * qty
    BY <1>1, <2>1, <2>6
  <2> HIDE DEF cash
  <2>9. Realize(Reduced([st EXCEPT !.cash = cash], s, -qty, -share), cash - st.cash - (-share)) \in Sound
    BY <2>7, <2>8, ReducingConserves
  <2> QED BY <2>2, <2>8, <2>9
<1> QED BY <1>2, <1>3

LEMMA ShortConserves ==
    ASSUME NEW st \in Sound, NEW s \in Assets, NEW price \in Nat, NEW qty \in Nat
    PROVE  ApplyShort(st, s, price, qty) \in Sound
<1>1. /\ st \in Book /\ st.cash \in Int /\ st.realized \in Int /\ st.crossed \in BOOLEAN
      /\ st.held[s].qty \in Int /\ st.held[s].basis \in Int
  BY BookTyped DEF Sound
<1> DEFINE gain == price * qty
           cash == st.cash + gain
           paid == [st EXCEPT !.cash = cash]
           owed == st.held[s].qty - qty
           basis == st.held[s].basis - gain
           q == [qty |-> owed, basis |-> basis]
<1>2. ApplyShort(st, s, price, qty) = st \/ ApplyShort(st, s, price, qty) = WithPosition(paid, s, owed, basis)
  BY DEF ApplyShort
<1>3. gain \in Int
  OBVIOUS
<1> HIDE DEF gain
<1>4. /\ cash \in Int /\ owed \in Int /\ basis \in Int
      /\ cash - st.cash + (basis - st.held[s].basis) = st.realized - st.realized
  BY <1>1, <1>3
<1>5. q.basis = basis
  OBVIOUS
<1> HIDE DEF cash, owed, basis
<1>6. Changed(paid, st, s, cash, st.held[s], st.realized, st.crossed)
  <2>1. paid = [st EXCEPT !.cash = cash, !.crossed = st.crossed]
    BY <1>1 DEF Book
  <2> QED BY <1>1, <1>4, <2>1, MoneyMoved
<1> HIDE DEF paid
<1>7. Changed(WithPosition(paid, s, owed, basis), st, s, cash, q, st.realized, st.crossed)
  BY <1>1, <1>4, <1>6, PositionChanged
<1> HIDE DEF q
<1>8. cash - st.cash + (q.basis - st.held[s].basis) = st.realized - st.realized
  BY <1>4, <1>5
<1>9. WithPosition(paid, s, owed, basis) \in Sound
  BY <1>7, <1>8, ChangeConserves
<1> QED BY <1>2, <1>9

LEMMA FillConserves ==
    ASSUME NEW st \in Sound, NEW trade \in Trade
    PROVE  ApplyFill(st, trade) \in Sound
<1>1. /\ trade.symbol \in Assets /\ trade.price \in Nat /\ trade.qty \in Nat
      /\ trade.kind = "buy" => trade.qty > 0
  BY DEF Trade
<1> QED BY <1>1, BuyConserves, SellConserves, ShortConserves, CoverConserves DEF ApplyFill

LEMMA TradesConserve ==
    ASSUME NEW st \in Sound, NEW fills \in Seq(Trade)
    PROVE  ApplyTrades(st, fills) \in Sound
<1> DEFINE n == Len(fills)
           step == [p \in (1 .. n) \X Sound |-> ApplyFill(p[2], fills[p[1]])]
           Right(fold) ==
             fold = [A \in SUBSET (DOMAIN fills) |->
                       IF A = {} THEN st ELSE ApplyFill(fold[A \ {Max(A)}], fills[Max(A)])]
           chosen == CHOOSE fold : Right(fold)
<1>1. n \in Nat /\ DOMAIN fills = 1 .. n /\ \A k \in 1 .. n : fills[k] \in Trade
  BY LenProperties, ElementOfSeq
<1>2. PICK fold : LeftFolds(fold, n, Sound, step, st)
  <2>1. step \in [(1 .. n) \X Sound -> Sound]
    BY <1>1, FillConserves
  <2>2. n \in Nat
    BY <1>1
  <2> HIDE DEF step, n
  <2> QED BY <2>1, <2>2, LeftFoldExists
<1>3. Right(fold)
  <2>1. ASSUME NEW A \in SUBSET (1 .. n), A # {}
        PROVE  fold[A] = ApplyFill(fold[A \ {Max(A)}], fills[Max(A)])
    BY <1>2, <2>1 DEF LeftFolds
  <2> QED BY <1>1, <1>2, <2>1 DEF LeftFolds
<1>4. Right(chosen) /\ ApplyTrades(st, fills) = chosen[1 .. n]
  <2>1. Right(chosen)
    BY <1>3
  <2>2. ApplyTrades(st, fills) = chosen[DOMAIN fills]
    BY DEF ApplyTrades, FoldLeft, MapThenFoldSet
  <2> QED BY <1>1, <2>1, <2>2
<1> HIDE DEF chosen
<1>5. chosen[{}] = st
  BY <1>1, <1>4
<1>6. ASSUME NEW k \in 1 .. n, chosen[1 .. (k - 1)] \in Sound PROVE chosen[1 .. k] \in Sound
  <2>1. /\ 1 .. k \in SUBSET (1 .. n) /\ 1 .. k # {}
        /\ Max(1 .. k) = k /\ (1 .. k) \ {k} = 1 .. (k - 1)
    BY <1>1, PrefixFacts
  <2>2. chosen[1 .. k] = ApplyFill(chosen[1 .. (k - 1)], fills[k])
    BY <1>1, <1>4, <2>1
  <2> QED BY <1>1, <1>6, <2>2, FillConserves
<1> HIDE DEF n
<1>7. chosen[1 .. n] \in Sound
  BY <1>1, <1>5, <1>6, LeftFoldStays
<1> QED BY <1>4, <1>7

-----------------------------------------------------------------------------
(* From the tool calls of a cycle to trades                                *)

Floor == [kept : Seq(Call), reserved : SUBSET Assets]

LEMMA FloorTyped ==
    ASSUME NEW st, NEW calm, NEW acc \in Floor, NEW call \in Call
    PROVE  FloorOf(st, calm, acc, call) \in Floor
<1>1. acc.kept \in Seq(Call) /\ acc.reserved \in SUBSET Assets /\ call.symbol \in Assets
  BY DEF Floor, Call
<1>2. Append(acc.kept, call) \in Seq(Call)
  BY <1>1, AppendProperties
<1> DEFINE kept == Append(acc.kept, call)
<1>3. FloorOf(st, calm, acc, call) \in
        {acc, [acc EXCEPT !.kept = kept],
         [kept |-> kept, reserved |-> acc.reserved \cup ({call.symbol} \ st.open)]}
  BY DEF FloorOf
<1> HIDE DEF kept
<1>4. kept \in Seq(Call)
  BY <1>2 DEF kept
<1> QED BY <1>1, <1>3, <1>4 DEF Floor

LEMMA RiskFloorTyped ==
    ASSUME NEW st, NEW calm, NEW calls \in Seq(Call)
    PROVE  RiskFloor(st, calls, calm) \in Seq(Call)
<1> DEFINE n == Len(calls)
           base == [kept |-> <<>>, reserved |-> {}]
           step == [p \in (1 .. n) \X Floor |-> FloorOf(st, calm, p[2], calls[p[1]])]
           Right(fold) ==
             fold = [A \in SUBSET (DOMAIN calls) |->
                       IF A = {} THEN base ELSE FloorOf(st, calm, fold[A \ {Max(A)}], calls[Max(A)])]
           chosen == CHOOSE fold : Right(fold)
<1>1. n \in Nat /\ DOMAIN calls = 1 .. n /\ \A k \in 1 .. n : calls[k] \in Call
  BY LenProperties, ElementOfSeq
<1>b. base \in Floor
  <2>1. <<>> \in Seq(Call)
    OBVIOUS
  <2> QED BY <2>1 DEF Floor
<1>2. PICK fold : LeftFolds(fold, n, Floor, step, base)
  <2>1. step \in [(1 .. n) \X Floor -> Floor]
    BY <1>1, FloorTyped
  <2>2. n \in Nat
    BY <1>1
  <2> HIDE DEF step, n, base
  <2> QED BY <1>b, <2>1, <2>2, LeftFoldExists
<1>3. Right(fold)
  <2>1. ASSUME NEW A \in SUBSET (1 .. n), A # {}
        PROVE  fold[A] = FloorOf(st, calm, fold[A \ {Max(A)}], calls[Max(A)])
    BY <1>2, <2>1 DEF LeftFolds
  <2> QED BY <1>1, <1>2, <2>1 DEF LeftFolds
<1>4. Right(chosen) /\ RiskFloor(st, calls, calm) = chosen[1 .. n].kept
  <2>1. Right(chosen)
    BY <1>3
  <2>2. RiskFloor(st, calls, calm) = chosen[DOMAIN calls].kept
    BY DEF RiskFloor, FoldLeft, MapThenFoldSet
  <2> QED BY <1>1, <2>1, <2>2
<1> HIDE DEF chosen, base
<1>5. chosen[{}] = base
  BY <1>1, <1>4
<1>6. ASSUME NEW k \in 1 .. n, chosen[1 .. (k - 1)] \in Floor PROVE chosen[1 .. k] \in Floor
  <2>1. /\ 1 .. k \in SUBSET (1 .. n) /\ 1 .. k # {}
        /\ Max(1 .. k) = k /\ (1 .. k) \ {k} = 1 .. (k - 1)
    BY <1>1, PrefixFacts
  <2>2. chosen[1 .. k] = FloorOf(st, calm, chosen[1 .. (k - 1)], calls[k])
    BY <1>1, <1>4, <2>1
  <2> QED BY <1>1, <1>6, <2>2, FloorTyped
<1> HIDE DEF n
<1>7. chosen[1 .. n] \in Floor
  BY <1>1, <1>b, <1>5, <1>6, LeftFoldStays
<1> QED BY <1>4, <1>7 DEF Floor

LEMMA FillIsTrade ==
    ASSUME NEW st \in Book, NEW call \in Call, NEW price \in [Assets -> Nat], NEW throttle \in {0, 1}
    PROVE  Fill(st, call, price, throttle) \in Trade
<1> DEFINE s == call.symbol
           held == st.held[s].qty
           budget == IF throttle = 0 THEN 0 ELSE st.cash \div SIZING_DIVISOR
           none == [kind |-> "none", symbol |-> s, price |-> 0, qty |-> 0]
           kind == CASE call.action = "long" -> "buy"
                     [] call.action = "short" -> "short"
                     [] call.action = "exit" /\ held > 0 -> "sell"
                     [] call.action = "exit" /\ held < 0 -> "cover"
                     [] OTHER -> "none"
           qty == CASE kind \in {"buy", "short"} /\ budget >= 0 /\ price[s] > 0 -> budget \div price[s]
                    [] kind = "sell" -> held
                    [] kind = "cover" -> -held
                    [] OTHER -> 0
<1>1. s \in Assets /\ call.action \in {"long", "short", "exit"}
  BY DEF Call, OpeningActions
<1>2. held \in Int /\ budget \in Int /\ price[s] \in Nat
  <2>1. held \in Int /\ st.cash \in Int
    BY <1>1, BookTyped
  <2>2. st.cash \div SIZING_DIVISOR \in Int
    BY <2>1, BookBounds, DivisionTyped
  <2> QED BY <1>1, <2>1, <2>2
<1>3. Fill(st, call, price, throttle) =
        IF price[s] = 0 \/ qty = 0 THEN none
        ELSE [kind |-> kind, symbol |-> s, price |-> price[s], qty |-> qty]
  BY DEF Fill
<1>4. kind \in {"none", "buy", "sell", "short", "cover"}
  BY <1>1
<1>5. kind = "sell" => held > 0
  BY <1>1
<1>6. kind = "cover" => held < 0
  BY <1>1
<1> HIDE DEF s, held, budget, kind
<1>7. qty \in Nat
  <2>1. CASE kind \in {"buy", "short"} /\ budget >= 0 /\ price[s] > 0
    <3>1. budget \div price[s] \in Nat
      BY <1>2, <2>1
    <3> QED BY <2>1, <3>1
  <2>2. CASE kind = "sell"
    BY <1>2, <1>5, <2>2
  <2>3. CASE kind = "cover"
    BY <1>2, <1>6, <2>3
  <2>4. CASE ~(kind \in {"buy", "short"} /\ budget >= 0 /\ price[s] > 0) /\ kind # "sell" /\ kind # "cover"
    BY <2>4
  <2> QED BY <2>1, <2>2, <2>3, <2>4
<1> HIDE DEF qty
<1>8. none \in Trade
  BY <1>1 DEF Trade
<1>9. qty # 0 => [kind |-> kind, symbol |-> s, price |-> price[s], qty |-> qty] \in Trade
  BY <1>1, <1>2, <1>4, <1>7 DEF Trade
<1> QED BY <1>3, <1>8, <1>9

LEMMA SequenceOfSet ==
    ASSUME NEW S, IsFiniteSet(S)
    PROVE  SetToSeq(S) \in Seq(S)
<1> DEFINE n == Cardinality(S)
<1>1. n \in Nat /\ ExistsBijection(1 .. n, S)
  BY FS_CardinalityType
<1> HIDE DEF n
<1>2. \E f \in [1 .. n -> S] : IsInjective(f)
  <2>1. PICK f \in Bijection(1 .. n, S) : TRUE
    BY <1>1 DEF ExistsBijection
  <2>2. f \in [1 .. n -> S] /\ IsInjective(f)
    BY <2>1 DEF Bijection, Injection, IsInjective
  <2> QED BY <2>2
<1>3. SetToSeq(S) \in [1 .. n -> S]
  BY <1>2 DEF SetToSeq, n
<1> QED BY <1>1, <1>3, IsASeq

LEMMA RebalanceIsTrades ==
    ASSUME NEW st \in Book, NEW price \in [Assets -> Nat], NEW throttle
    PROVE  RebalanceBook(st, price, throttle) \in Seq(Trade)
<1> DEFINE longs == {s \in Assets : st.held[s].qty > 0 /\ price[s] > 0}
           sales == [s \in longs |-> [kind |-> "sell", symbol |-> s, price |-> price[s], qty |-> st.held[s].qty]]
           S == {[kind |-> "sell", symbol |-> s, price |-> price[s], qty |-> st.held[s].qty] : s \in longs}
<1>1. S \subseteq Trade
  <2> SUFFICES ASSUME NEW s \in longs
               PROVE  [kind |-> "sell", symbol |-> s, price |-> price[s], qty |-> st.held[s].qty] \in Trade
    OBVIOUS
  <2>1. s \in Assets /\ st.held[s].qty \in Nat /\ price[s] \in Nat
    BY BookTyped
  <2> QED BY <2>1 DEF Trade
<1>2. IsFiniteSet(longs)
  BY BookBounds, FS_Subset
<1>3. IsFiniteSet(S)
  <2>1. sales \in Surjection(longs, S)
    BY DEF Surjection
  <2> HIDE DEF longs, sales, S
  <2> QED BY <1>2, <2>1, FS_Surjection DEF ExistsSurjection
<1>4. RebalanceBook(st, price, throttle) \in {<<>>, SetToSeq(S)}
  BY DEF RebalanceBook
<1> HIDE DEF longs, S
<1>5. SetToSeq(S) \in Seq(S)
  BY <1>3, SequenceOfSet
<1>6. SetToSeq(S) \in Seq(Trade)
  BY <1>1, <1>5, SeqMonotonic
<1>7. <<>> \in Seq(Trade)
  OBVIOUS
<1> QED BY <1>4, <1>6, <1>7

LEMMA CycleConserves ==
    ASSUME NEW st \in Sound, NEW calls \in Orders, NEW price \in PretestQuotes,
           NEW calm \in BOOLEAN, NEW throttle \in {0, 1}
    PROVE  CycleOutcome(st, calls, price, calm, throttle) \in Sound
<1> DEFINE floor == RiskFloor(st, calls, calm)
           fills == SimulateFills(st, floor, price, throttle)
           sales == RebalanceBook(st, price, throttle)
<1>1. calls \in Seq(Call) /\ price \in [Assets -> Nat] /\ st \in Book
  BY BookBounds DEF Sound
<1>2. floor \in Seq(Call)
  BY <1>1, RiskFloorTyped
<1>3. sales \in Seq(Trade)
  BY <1>1, RebalanceIsTrades
<1>4. CycleOutcome(st, calls, price, calm, throttle) = ApplyTrades(st, fills \o sales)
  BY DEF CycleOutcome
<1> HIDE DEF floor, sales
<1>5. fills \in Seq(Trade)
  <2>1. DOMAIN floor = 1 .. Len(floor) /\ Len(floor) \in Nat /\ \A i \in 1 .. Len(floor) : floor[i] \in Call
    BY <1>2, LenProperties, ElementOfSeq
  <2>2. fills \in [1 .. Len(floor) -> Trade]
    BY <1>1, <2>1, FillIsTrade DEF SimulateFills
  <2> HIDE DEF fills
  <2> QED BY <2>1, <2>2, IsASeq
<1> HIDE DEF fills
<1>6. fills \o sales \in Seq(Trade)
  BY <1>3, <1>5, ConcatProperties
<1> QED BY <1>4, <1>6, TradesConserve

-----------------------------------------------------------------------------
(* The portfolio                                                           *)

\* What a cycle has read was sound, and stays so until it writes.
BookInv ==
    /\ row \in [state : Sound, active : BOOLEAN, exists : BOOLEAN, run_count : Nat]
    /\ inCycle \in [CycleRuns -> [pc : {"away", "turn"}, read : Book]]
    /\ \A c \in CycleRuns : inCycle[c].pc = "turn" => inCycle[c].read \in Sound
    /\ cyclesBegun \in 0 .. MaxPretestCycles /\ rowEdits \in 0 .. MaxRowEdits

LEMMA NewBook ==
    /\ \A capital \in Int : DEFAULT_STATE(capital) \in Book
    /\ DEFAULT_STATE(INITIAL_CAPITAL) \in Sound
<1>1. ASSUME NEW capital \in Int PROVE DEFAULT_STATE(capital) \in Book
  <2>1. [s \in Assets |-> NoPosition] \in [Assets -> Held]
    BY DEF NoPosition, Held
  <2> QED BY <2>1 DEF DEFAULT_STATE, Book
<1> DEFINE st == DEFAULT_STATE(INITIAL_CAPITAL)
           f == BasisOf(st)
<1>2. /\ DOMAIN f = Assets /\ \A s \in Assets : f[s] = 0
      /\ st.cash = INITIAL_CAPITAL /\ st.realized = 0
  BY DEF BasisOf, DEFAULT_STATE, NoPosition
<1>3. SumFunction(f) = SumFunctionOnSet(f, Assets)
  BY <1>2 DEF SumFunction
<1>4. INITIAL_CAPITAL \in Int
  BY BookBounds
<1>5. st \in Book
  BY <1>1, <1>4
<1> HIDE DEF st, f
<1>6. SumFunctionOnSet(f, Assets) = 0
  BY <1>2, BookBounds, TotalOfZeroes
<1>7. st.cash + SumFunction(f) = INITIAL_CAPITAL + st.realized
  BY <1>2, <1>3, <1>4, <1>6
<1>8. Conserved(st)
  BY <1>7 DEF Conserved, f
<1>9. st \in Sound
  BY <1>5, <1>8 DEF Sound
<1> QED BY <1>1, <1>9 DEF st

LEMMA AwayTyped == Away \in [pc : {"away", "turn"}, read : Book] /\ Away.pc = "away"
<1>1. DEFAULT_STATE(0) \in Book
  BY NewBook
<1> QED BY <1>1 DEF Away

LEMMA BookStarts == PretestInit => BookInv
<1> SUFFICES ASSUME PretestInit PROVE BookInv
  OBVIOUS
<1>1. row = [state |-> DEFAULT_STATE(INITIAL_CAPITAL), active |-> TRUE, exists |-> TRUE, run_count |-> 0]
  BY DEF PretestInit
<1>2. row \in [state : Sound, active : BOOLEAN, exists : BOOLEAN, run_count : Nat]
  BY <1>1, NewBook
<1>3. inCycle = [c \in CycleRuns |-> Away] /\ cyclesBegun = 0 /\ rowEdits = 0
  BY DEF PretestInit
<1> QED BY <1>2, <1>3, AwayTyped, BookBounds DEF BookInv

LEMMA CyclesKeepBook ==
    ASSUME BookInv, NEW c \in CycleRuns, RunCycleReads(c) \/ RunCycleWrites(c) \/ RunCycleFails(c)
    PROVE  BookInv'
<1>1. CASE RunCycleReads(c)
  <2>1. /\ inCycle' = [inCycle EXCEPT ![c] = [pc |-> "turn", read |-> row.state]]
        /\ cyclesBegun < MaxPretestCycles /\ cyclesBegun' = cyclesBegun + 1
        /\ UNCHANGED <<row, rowEdits>>
    BY <1>1 DEF RunCycleReads
  <2>2. row.state \in Sound /\ row.state \in Book
    BY DEF BookInv, Sound
  <2>3. cyclesBegun' \in 0 .. MaxPretestCycles
    BY <2>1, BookBounds DEF BookInv
  <2> DEFINE entered == [pc |-> "turn", read |-> row.state]
  <2>4. entered \in [pc : {"away", "turn"}, read : Book] /\ entered.read \in Sound
    BY <2>2
  <2> HIDE DEF entered
  <2>5. inCycle' = [inCycle EXCEPT ![c] = entered]
    BY <2>1 DEF entered
  <2> QED BY <2>1, <2>3, <2>4, <2>5 DEF BookInv
<1>2. CASE RunCycleWrites(c) \/ RunCycleFails(c)
  <2>1. inCycle' = [inCycle EXCEPT ![c] = Away] /\ UNCHANGED <<cyclesBegun, rowEdits>> /\ inCycle[c].pc = "turn"
    BY <1>2 DEF RunCycleWrites, RunCycleFails
  <2>2. row' \in [state : Sound, active : BOOLEAN, exists : BOOLEAN, run_count : Nat]
    <3>1. CASE RunCycleFails(c)
      BY <3>1 DEF RunCycleFails, BookInv
    <3>2. CASE RunCycleWrites(c)
      <4>1. PICK calls \in Orders, price \in PretestQuotes, calm \in BOOLEAN, throttle \in {0, 1} :
              row' = IF row.exists
                     THEN [row EXCEPT !.state = CycleOutcome(inCycle[c].read, calls, price, calm, throttle),
                                      !.run_count = row.run_count + 1]
                     ELSE row
        BY <3>2 DEF RunCycleWrites
      <4> DEFINE after == CycleOutcome(inCycle[c].read, calls, price, calm, throttle)
      <4>2. after \in Sound
        BY <2>1, CycleConserves DEF BookInv
      <4> HIDE DEF after
      <4>3. row' = row \/ row' = [row EXCEPT !.state = after, !.run_count = row.run_count + 1]
        BY <4>1 DEF after
      <4>4. /\ row \in [state : Sound, active : BOOLEAN, exists : BOOLEAN, run_count : Nat]
            /\ row.run_count + 1 \in Nat
        BY DEF BookInv
      <4> QED BY <4>2, <4>3, <4>4
    <3> QED BY <1>2, <3>1, <3>2
  <2> QED BY <2>1, <2>2, AwayTyped DEF BookInv
<1> QED BY <1>1, <1>2

LEMMA EditsKeepBook ==
    ASSUME BookInv, ResetPortfolio \/ UpdatePortfolio \/ DeletePortfolio \/ SetRequireConfirm
    PROVE  BookInv'
<1>1. rowEdits' \in 0 .. MaxRowEdits /\ UNCHANGED <<inCycle, cyclesBegun>>
  BY BookBounds DEF BookInv, ResetPortfolio, UpdatePortfolio, DeletePortfolio, SetRequireConfirm, RowEdited
<1> DEFINE BookRows == [state : Sound, active : BOOLEAN, exists : BOOLEAN, run_count : Nat]
<1>2. row \in BookRows
  BY DEF BookInv
<1>3. row' \in BookRows
  <2>1. CASE ResetPortfolio
    <3>1. row' = [row EXCEPT !.state = DEFAULT_STATE(INITIAL_CAPITAL), !.run_count = 0]
      BY <2>1 DEF ResetPortfolio
    <3> QED BY <1>2, <3>1, NewBook
  <2>2. CASE UpdatePortfolio
    BY <1>2, <2>2 DEF UpdatePortfolio
  <2>3. CASE DeletePortfolio
    BY <1>2, <2>3 DEF DeletePortfolio
  <2>4. CASE SetRequireConfirm
    BY <1>2, <2>4 DEF SetRequireConfirm
  <2> QED BY <2>1, <2>2, <2>3, <2>4
<1> QED BY <1>1, <1>3 DEF BookInv

LEMMA BookStepKeeps == BookInv /\ [PretestNext]_pretestVars => BookInv'
<1> SUFFICES ASSUME BookInv, [PretestNext]_pretestVars PROVE BookInv'
  OBVIOUS
<1>1. CASE UNCHANGED pretestVars
  BY <1>1 DEF pretestVars, BookInv
<1>2. CASE \/ PanelLooksAtGate \/ RecomputeReputation \/ PanelPromotes \/ ModelPromotes
           \/ PromoteLooksAtGate \/ PromoteAsksConfirm \/ PromoteActivates \/ PromoteSetsConfig
  <2>1. UNCHANGED <<row, inCycle, cyclesBegun, rowEdits>>
    BY <1>2 DEF PanelLooksAtGate, RecomputeReputation, PanelPromotes, ModelPromotes,
       PromoteLooksAtGate, PromoteAsksConfirm, PromoteActivates, PromoteSetsConfig
  <2> QED BY <2>1 DEF BookInv
<1> QED BY <1>1, <1>2, CyclesKeepBook, EditsKeepBook DEF PretestNext

\* Cash, cost of the positions and realized gain account for the capital, with
\* any calls, prices and overlapping cycles (_simulateFills, _applyTrades),
\* while no buy has met a short position.
THEOREM BooksConserve == PretestSpec => []BookConserves
<1>1. BookInv => BookConserves
  BY DEF BookInv, Sound, BookConserves
<1> QED BY BookStarts, BookStepKeeps, <1>1, PTL DEF PretestSpec

-----------------------------------------------------------------------------
(* Pretest: what a portfolio earns                                         *)

\* A row whose state is ready has earned what follows, the state a reset gives
\* it included; so has whoever looked at the gate and went on.
EarnedInv ==
    /\ DOMAIN row = {"state", "active", "exists", "run_count"}
    /\ rating \in [computing : BOOLEAN, scored : BOOLEAN]
    /\ earned \in BOOLEAN
    /\ GateReady(DEFAULT_STATE(INITIAL_CAPITAL)) => earned
    /\ GateReady(row.state) => earned
    /\ rating.computing => earned
    /\ promotion.pc \in {"confirm", "activate", "setConfig"} => earned
    /\ PromotionIsEarned

LEMMA EarnedStarts == PretestInit => EarnedInv
<1> SUFFICES ASSUME PretestInit PROVE EarnedInv
  OBVIOUS
<1>1. earned \in BOOLEAN
  BY DEF PretestInit, GateReady
<1>2. /\ DOMAIN row = {"state", "active", "exists", "run_count"}
      /\ row.state = DEFAULT_STATE(INITIAL_CAPITAL)
  BY DEF PretestInit
<1>3. ~rating.computing /\ ~rating.scored /\ rating \in [computing : BOOLEAN, scored : BOOLEAN]
  BY DEF PretestInit
<1>4. promotion.pc = "none" /\ ~live.active /\ live.config = "own"
  BY DEF PretestInit, NoPromotion
<1>5. GateReady(DEFAULT_STATE(INITIAL_CAPITAL)) => earned
  BY DEF PretestInit
<1> QED BY <1>1, <1>2, <1>3, <1>4, <1>5 DEF EarnedInv, PromotionIsEarned

\* What the cycles and the operator do to the row.
LEMMA RowKeeps ==
    ASSUME EarnedInv,
           \/ \E c \in CycleRuns : RunCycleReads(c) \/ RunCycleWrites(c) \/ RunCycleFails(c)
           \/ ResetPortfolio \/ UpdatePortfolio \/ DeletePortfolio \/ SetRequireConfirm
    PROVE  EarnedInv'
<1> USE DEF EarnedInv, PromotionIsEarned
<1>1. ASSUME NEW c \in CycleRuns, RunCycleReads(c) PROVE EarnedInv'
  BY <1>1 DEF RunCycleReads
<1>2. ASSUME NEW c \in CycleRuns, RunCycleWrites(c) PROVE EarnedInv'
  <2>1. DOMAIN row' = {"state", "active", "exists", "run_count"}
    BY <1>2 DEF RunCycleWrites
  <2>2. /\ UNCHANGED <<promotion, live, rating>>
        /\ earned' = (earned \/ GateReady(row'.state))
    BY <1>2 DEF RunCycleWrites
  <2>3. earned' \in BOOLEAN /\ (earned => earned') /\ (GateReady(row'.state) => earned')
    BY <2>2
  <2> QED BY <2>1, <2>2, <2>3
<1>3. ASSUME NEW c \in CycleRuns, RunCycleFails(c) PROVE EarnedInv'
  BY <1>3 DEF RunCycleFails
<1>4. CASE ResetPortfolio
  <2>1. /\ DOMAIN row' = {"state", "active", "exists", "run_count"}
        /\ row'.state = DEFAULT_STATE(INITIAL_CAPITAL)
    BY <1>4 DEF ResetPortfolio
  <2> QED BY <1>4, <2>1 DEF ResetPortfolio
<1>5. CASE UpdatePortfolio
  <2>1. DOMAIN row' = {"state", "active", "exists", "run_count"} /\ row'.state = row.state
    BY <1>5 DEF UpdatePortfolio
  <2> QED BY <1>5, <2>1 DEF UpdatePortfolio
<1>6. CASE DeletePortfolio
  <2>1. DOMAIN row' = {"state", "active", "exists", "run_count"} /\ row'.state = row.state
    BY <1>6 DEF DeletePortfolio
  <2> QED BY <1>6, <2>1 DEF DeletePortfolio
<1>7. CASE SetRequireConfirm
  BY <1>7 DEF SetRequireConfirm
<1> QED BY <1>1, <1>2, <1>3, <1>4, <1>5, <1>6, <1>7

\* Only an open gate starts a computation.
LEMMA RatingTyped ==
    ASSUME EarnedInv, RatesIfReady
    PROVE  /\ rating' \in [computing : BOOLEAN, scored : BOOLEAN]
           /\ rating'.scored = rating.scored
           /\ rating'.computing => earned
<1>1. GateSays => earned
  BY DEF GateSays, EarnedInv
<1>2. rating' = [rating EXCEPT !.computing = rating.computing \/ GateSays]
  BY DEF RatesIfReady
<1>3. (rating.computing \/ GateSays) \in BOOLEAN
  OBVIOUS
<1> QED BY <1>1, <1>2, <1>3 DEF EarnedInv

\* What promote(), the gate and the reputation do.
LEMMA PromotionKeeps ==
    ASSUME EarnedInv,
           \/ PanelLooksAtGate \/ RecomputeReputation
           \/ PanelPromotes \/ ModelPromotes \/ PromoteLooksAtGate
           \/ PromoteAsksConfirm \/ PromoteActivates \/ PromoteSetsConfig
    PROVE  EarnedInv'
<1>1. CASE PanelLooksAtGate
  <2>1. RatesIfReady /\ UNCHANGED <<row, promotion, live, earned>>
    BY <1>1 DEF PanelLooksAtGate
  <2> QED BY <2>1, RatingTyped DEF EarnedInv, PromotionIsEarned
<1>2. CASE RecomputeReputation
  <2>1. earned /\ UNCHANGED <<row, promotion, live, earned>>
    BY <1>2 DEF RecomputeReputation, EarnedInv
  <2> DEFINE stands == row.exists /\ GateReady(row.state)
  <2>2. rating' \in {[computing |-> FALSE, scored |-> stands], [rating EXCEPT !.computing = FALSE]}
    BY <1>2 DEF RecomputeReputation
  <2>3. rating' \in [computing : BOOLEAN, scored : BOOLEAN]
    <3>1. stands \in BOOLEAN
      OBVIOUS
    <3>2. rating \in [computing : BOOLEAN, scored : BOOLEAN]
      BY DEF EarnedInv
    <3> HIDE DEF stands
    <3>3. [computing |-> FALSE, scored |-> stands] \in [computing : BOOLEAN, scored : BOOLEAN]
      BY <3>1
    <3>4. [rating EXCEPT !.computing = FALSE] \in [computing : BOOLEAN, scored : BOOLEAN]
      BY <3>2
    <3> QED BY <2>2, <3>3, <3>4
  <2> QED BY <2>1, <2>3 DEF EarnedInv, PromotionIsEarned
<1>3. CASE PanelPromotes \/ ModelPromotes
  <2>1. promotion'.pc = "gate" /\ UNCHANGED <<row, live, rating, earned>>
    BY <1>3 DEF PanelPromotes, ModelPromotes
  <2> QED BY <2>1 DEF EarnedInv, PromotionIsEarned
<1>4. CASE PromoteLooksAtGate
  <2>1. RatesIfReady /\ UNCHANGED <<row, live, earned>>
    BY <1>4 DEF PromoteLooksAtGate
  <2>2. GateSays \/ promotion'.pc = "none"
    BY <1>4 DEF PromoteLooksAtGate, NoPromotion
  <2>3. GateSays => earned
    BY DEF GateSays, EarnedInv
  <2> QED BY <2>1, <2>2, <2>3, RatingTyped DEF EarnedInv, PromotionIsEarned
<1>5. CASE PromoteAsksConfirm
  <2>1. earned /\ UNCHANGED <<row, live, rating, earned>>
    BY <1>5 DEF PromoteAsksConfirm, EarnedInv
  <2> QED BY <2>1 DEF EarnedInv, PromotionIsEarned
<1>6. CASE PromoteActivates
  <2>1. earned /\ UNCHANGED <<row, rating, earned>>
    BY <1>6 DEF PromoteActivates, EarnedInv
  <2> QED BY <2>1 DEF EarnedInv, PromotionIsEarned
<1>7. CASE PromoteSetsConfig
  <2>1. earned /\ UNCHANGED <<row, rating, earned>>
    BY <1>7 DEF PromoteSetsConfig, EarnedInv
  <2> QED BY <2>1 DEF EarnedInv, PromotionIsEarned
<1> QED BY <1>1, <1>2, <1>3, <1>4, <1>5, <1>6, <1>7

LEMMA EarnedStepKeeps == EarnedInv /\ [PretestNext]_pretestVars => EarnedInv'
<1> SUFFICES ASSUME EarnedInv, [PretestNext]_pretestVars PROVE EarnedInv'
  OBVIOUS
<1>1. CASE UNCHANGED pretestVars
  BY <1>1 DEF pretestVars, EarnedInv, PromotionIsEarned
<1> QED BY <1>1, RowKeeps, PromotionKeeps DEF PretestNext

\* No plugin trades, is configured or is rated by a portfolio that never stood
\* the gate, whatever is done to its row meanwhile (promote(), gate()).
THEOREM PromotionsAreEarned == PretestSpec => []PromotionIsEarned
<1>1. EarnedInv => PromotionIsEarned
  BY DEF EarnedInv
<1> QED BY EarnedStarts, EarnedStepKeeps, <1>1, PTL DEF PretestSpec

\* Where a promotion is and what it has changed.
PromotionTyped ==
    /\ promotion \in [pc : {"none", "gate", "confirm", "activate", "setConfig"}, confirm : BOOLEAN]
    /\ live \in [active : BOOLEAN, config : {"own", "pretest"}]
    /\ requireConfirm \in BOOLEAN

LEMMA PromotionStaysTyped ==
    ASSUME PromotionTyped, [PretestNext]_pretestVars
    PROVE  PromotionTyped'
<1>0. NoPromotion \in [pc : {"none", "gate", "confirm", "activate", "setConfig"}, confirm : BOOLEAN]
  BY DEF NoPromotion
<1>1. CASE \/ \E c \in CycleRuns : RunCycleReads(c) \/ RunCycleWrites(c) \/ RunCycleFails(c)
           \/ ResetPortfolio \/ UpdatePortfolio \/ DeletePortfolio \/ PanelLooksAtGate
           \/ RecomputeReputation \/ UNCHANGED pretestVars
  <2>1. UNCHANGED <<promotion, live, requireConfirm>>
    BY <1>1 DEF RunCycleReads, RunCycleWrites, RunCycleFails, ResetPortfolio, UpdatePortfolio,
                DeletePortfolio, PanelLooksAtGate, RecomputeReputation, pretestVars
  <2> QED BY <2>1 DEF PromotionTyped
<1>2. CASE SetRequireConfirm
  BY <1>2 DEF SetRequireConfirm, PromotionTyped
<1>3. CASE PanelPromotes \/ ModelPromotes \/ PromoteLooksAtGate \/ PromoteAsksConfirm
  <2>1. UNCHANGED <<live, requireConfirm>>
    BY <1>3 DEF PanelPromotes, ModelPromotes, PromoteLooksAtGate, PromoteAsksConfirm
  <2>2. \/ promotion' = NoPromotion
        \/ \E confirm \in BOOLEAN : promotion' = [pc |-> "gate", confirm |-> confirm]
        \/ promotion' = [promotion EXCEPT !.pc = "confirm"]
        \/ promotion' = [promotion EXCEPT !.pc = "activate"]
    BY <1>3 DEF PanelPromotes, ModelPromotes, PromoteLooksAtGate, PromoteAsksConfirm
  <2> QED BY <1>0, <2>1, <2>2 DEF PromotionTyped
<1>4. CASE PromoteActivates
  BY <1>0, <1>4 DEF PromoteActivates, PromotionTyped
<1>5. CASE PromoteSetsConfig
  BY <1>0, <1>5 DEF PromoteSetsConfig, PromotionTyped
<1> QED BY <1>1, <1>2, <1>3, <1>4, <1>5 DEF PretestNext

\* The types of a portfolio, its cycles and its promotion.
THEOREM PretestKeepsTypes == PretestSpec => []PretestTypeOK
<1>1. PretestInit => PromotionTyped
  BY DEF PretestInit, PromotionTyped, NoPromotion
<1>2. BookInv /\ EarnedInv /\ PromotionTyped => PretestTypeOK
  <2> SUFFICES ASSUME BookInv, EarnedInv, PromotionTyped PROVE PretestTypeOK
    OBVIOUS
  <2>1. row.state \in Book /\ row.active \in BOOLEAN /\ row.exists \in BOOLEAN /\ row.run_count \in Nat
    BY DEF BookInv, Sound
  <2>2. row.state.open \subseteq Assets
    BY <2>1 DEF Book
  <2>3. {row.active, row.exists, requireConfirm, live.active, earned} \subseteq BOOLEAN
    BY <2>1 DEF PromotionTyped, EarnedInv
  <2>4. \A c \in CycleRuns : inCycle[c].pc \in {"away", "turn"}
    BY DEF BookInv
  <2> QED BY <2>1, <2>2, <2>3, <2>4 DEF BookInv, EarnedInv, PromotionTyped, PretestTypeOK
<1>3. PromotionTyped /\ [PretestNext]_pretestVars => PromotionTyped'
  BY PromotionStaysTyped
<1> QED
  BY <1>1, <1>2, <1>3, BookStarts, BookStepKeeps, EarnedStarts, EarnedStepKeeps, PTL DEF PretestSpec

-----------------------------------------------------------------------------
(* MarketData                                                              *)

Keys == Providers \X UNION {Instruments[kind] : kind \in CacheKinds}
Entry == [key : Keys, empty : BOOLEAN, asOf : 0 .. MaxNow, until : Int]
Reading == [kind : CacheKinds \cup {"none"}, key : {<<>>} \cup Keys,
            since : 0 .. MaxNow, attempt : 0 .. YAHOO_MAX_RETRIES]

MarketTyped ==
    /\ now \in 0 .. MaxNow
    /\ cached \in [CacheKinds -> Seq(Entry)]
    /\ reading \in [Readers -> Reading]

\* A request is for something, and younger than its abort signal.
RequestsAreYoung ==
    \A r \in Readers : reading[r] # NotReading =>
      /\ reading[r].kind \in CacheKinds /\ reading[r].key \in Keys
      /\ reading[r].since <= now /\ now - reading[r].since <= TIMEOUT

\* An entry is kept for its lifetime, counted from the answer: at most one
\* request after the moment it is true of.
KeptAsPromised(kind, e) ==
    e.asOf <= now /\ e.until - e.asOf <= TIMEOUT + Lifetime(kind, e.empty)
EntriesAreYoung ==
    \A kind \in CacheKinds : \A e \in ToSet(cached[kind]) : KeptAsPromised(kind, e)

MarketInv == MarketTyped /\ RequestsAreYoung /\ EntriesAreYoung

LEMMA MarketBounds ==
    /\ TIMEOUT \in Nat /\ MaxNow \in Nat /\ YAHOO_MAX_RETRIES \in Nat
    /\ MAX_ENTRIES["bars"] \in Nat \ {0}
    /\ \A kind \in CacheKinds, empty \in BOOLEAN : Lifetime(kind, empty) \in Nat
<1>1. /\ TTL["bars"] \in Nat /\ TTL["quotes"] \in Nat /\ TTL["empty"] \in Nat
      /\ MAX_ENTRIES["bars"] \in Nat \ {0}
  BY MarketAssumption
<1> QED BY <1>1, MarketAssumption DEF Lifetime, CacheKinds

LEMMA NotReadingTyped == NotReading \in Reading /\ NotReading.kind = "none"
<1>1. 0 \in 0 .. MaxNow /\ 0 \in 0 .. YAHOO_MAX_RETRIES
  BY MarketBounds
<1> QED BY <1>1 DEF NotReading, Reading

\* Nothing is made up when a full cache makes room.
LEMMA EvictedFrom ==
    ASSUME NEW entries \in Seq(Entry)
    PROVE  Evict(entries) \in Seq(Entry) /\ ToSet(Evict(entries)) \subseteq ToSet(entries)
<1> DEFINE fresh == Only(entries, {e \in ToSet(entries) : ~Expired(e)})
           n == Len(fresh)
<1>1. fresh \in Seq(Entry) /\ ToSet(fresh) \subseteq ToSet(entries)
  BY OnlyFacts
<1>2. Evict(entries) = IF 10 * n >= 9 * MAX_ENTRIES.bars THEN SubSeq(fresh, Oldest(n) + 1, n) ELSE fresh
  BY DEF Evict
<1> HIDE DEF fresh
<1>3. n \in Nat
  BY <1>1, LenProperties
<1>4. CASE 10 * n >= 9 * MAX_ENTRIES.bars
  <2>1. MAX_ENTRIES.bars \in Nat \ {0}
    BY MarketBounds
  <2>2. n >= 1
    BY <1>3, <1>4, <2>1
  <2>3. Oldest(n) \in Nat
    <3> DEFINE A == {i \in 1 .. n : i >= (n - i) \div 2}
    <3>1. n \in A
      BY <1>3, <2>2
    <3>2. A \in SUBSET Nat /\ A # {}
      BY <3>1
    <3>3. Oldest(n) = Min(A)
      BY DEF Oldest
    <3> HIDE DEF A
    <3> QED BY <3>2, <3>3, SmallestIsThere
  <2>4. Oldest(n) + 1 \in Nat \ {0}
    BY <2>3
  <2>5. /\ SubSeq(fresh, Oldest(n) + 1, n) \in Seq(Entry)
        /\ ToSet(SubSeq(fresh, Oldest(n) + 1, n)) \subseteq ToSet(fresh)
    BY <1>1, <2>4, ElementsOfPart
  <2> QED BY <1>1, <1>2, <1>4, <2>5
<1>5. CASE ~(10 * n >= 9 * MAX_ENTRIES.bars)
  BY <1>1, <1>2, <1>5
<1> QED BY <1>4, <1>5

\* What a cache holds after a Put: what it held, and what was put.
LEMMA PutFacts ==
    ASSUME MarketTyped, NEW kind \in CacheKinds, NEW e \in Entry
    PROVE  /\ Put(kind, e) \in Seq(Entry)
           /\ ToSet(Put(kind, e)) \subseteq ToSet(cached[kind]) \cup {e}
<1> DEFINE entries == IF Len(cached[kind]) >= MAX_ENTRIES[kind] THEN Evict(cached[kind]) ELSE cached[kind]
           swapped == [i \in DOMAIN entries |-> IF entries[i].key = e.key THEN e ELSE entries[i]]
<1>1. cached[kind] \in Seq(Entry)
  BY DEF MarketTyped
<1>2. entries \in Seq(Entry) /\ ToSet(entries) \subseteq ToSet(cached[kind])
  BY <1>1, EvictedFrom
<1>3. Put(kind, e) = swapped \/ Put(kind, e) = Append(entries, e)
  BY DEF Put
<1> HIDE DEF entries
<1>4. /\ Append(entries, e) \in Seq(Entry)
      /\ ToSet(Append(entries, e)) \subseteq ToSet(cached[kind]) \cup {e}
  BY <1>2, ElementsOfAppend
<1>5. swapped \in Seq(Entry) /\ ToSet(swapped) \subseteq ToSet(cached[kind]) \cup {e}
  <2>1. DOMAIN entries = 1 .. Len(entries) /\ Len(entries) \in Nat
    BY <1>2, LenProperties
  <2>2. \A i \in 1 .. Len(entries) : entries[i] \in Entry /\ entries[i] \in ToSet(entries)
    BY <1>2, <2>1, ElementOfSeq DEF ToSet
  <2>3. swapped \in [1 .. Len(entries) -> Entry]
    BY <2>1, <2>2
  <2>4. swapped \in Seq(Entry)
    BY <2>1, <2>3, IsASeq
  <2>5. ToSet(swapped) \subseteq ToSet(entries) \cup {e}
    BY <2>1, <2>2 DEF ToSet
  <2> QED BY <1>2, <2>4, <2>5
<1> HIDE DEF swapped
<1> QED BY <1>3, <1>4, <1>5

LEMMA MarketStarts == MarketInit => MarketInv
<1> SUFFICES ASSUME MarketInit PROVE MarketInv
  OBVIOUS
<1>1. <<>> \in Seq(Entry) /\ ToSet(<<>>) = {}
  BY DEF ToSet
<1>2. now = 0 /\ cached = [kind \in CacheKinds |-> <<>>] /\ reading = [r \in Readers |-> NotReading]
  BY DEF MarketInit
<1>3. 0 \in 0 .. MaxNow
  BY MarketBounds
<1> QED BY <1>1, <1>2, <1>3, NotReadingTyped DEF MarketInv, MarketTyped, RequestsAreYoung, EntriesAreYoung

LEMMA AskKeeps ==
    ASSUME MarketInv, NEW r \in Readers, NEW kind \in CacheKinds, NEW p \in Providers,
           NEW i \in Instruments[kind], Ask(r, kind, p, i)
    PROVE  MarketInv'
<1>1. CASE UNCHANGED <<cached, reading>>
  <2>1. UNCHANGED <<cached, reading, now>>
    BY <1>1 DEF Ask
  <2> QED BY <2>1 DEF MarketInv, MarketTyped, RequestsAreYoung, EntriesAreYoung, KeptAsPromised
<1>2. CASE /\ cached' = [cached EXCEPT ![kind] = Without(cached[kind], <<p, i>>)]
           /\ reading' = [reading EXCEPT ![r] = [kind |-> kind, key |-> <<p, i>>,
                                                since |-> now, attempt |-> 0]]
  <2>1. now' = now /\ cached[kind] \in Seq(Entry) /\ now \in 0 .. MaxNow
    BY DEF Ask, MarketInv, MarketTyped
  <2> DEFINE left == Without(cached[kind], <<p, i>>)
  <2>2. left \in Seq(Entry) /\ ToSet(left) \subseteq ToSet(cached[kind])
    BY <2>1, OnlyFacts DEF Without
  <2> HIDE DEF left
  <2>3. <<p, i>> \in Keys
    BY DEF Keys
  <2>4. 0 \in 0 .. YAHOO_MAX_RETRIES
    BY MarketBounds
  <2>5. [kind |-> kind, key |-> <<p, i>>, since |-> now, attempt |-> 0] \in Reading
    BY <2>1, <2>3, <2>4 DEF Reading
  <2>6. cached' = [cached EXCEPT ![kind] = left]
    BY <1>2 DEF left
  <2>7. MarketTyped'
    BY <1>2, <2>1, <2>2, <2>5, <2>6 DEF MarketInv, MarketTyped
  <2>8. RequestsAreYoung'
    <3> SUFFICES ASSUME NEW q \in Readers, reading'[q] # NotReading
                 PROVE  /\ reading'[q].kind \in CacheKinds /\ reading'[q].key \in Keys
                        /\ reading'[q].since <= now /\ now - reading'[q].since <= TIMEOUT
      BY <2>1 DEF RequestsAreYoung
    <3>1. CASE q = r
      <4>1. reading'[q] = [kind |-> kind, key |-> <<p, i>>, since |-> now, attempt |-> 0]
        BY <1>2, <3>1 DEF MarketInv, MarketTyped
      <4>2. now <= now /\ now - now <= TIMEOUT
        BY <2>1, MarketBounds
      <4> QED BY <2>3, <4>1, <4>2
    <3>2. CASE q # r
      BY <1>2, <3>2 DEF MarketInv, MarketTyped, RequestsAreYoung
    <3> QED BY <3>1, <3>2
  <2>9. EntriesAreYoung'
    <3> SUFFICES ASSUME NEW k \in CacheKinds, NEW e \in ToSet(cached'[k]) PROVE KeptAsPromised(k, e)'
      BY DEF EntriesAreYoung
    <3>1. e \in ToSet(cached[k])
      BY <2>2, <2>6 DEF MarketInv, MarketTyped
    <3> QED BY <2>1, <3>1 DEF MarketInv, EntriesAreYoung, KeptAsPromised
  <2> QED BY <2>7, <2>8, <2>9 DEF MarketInv
<1> QED BY <1>1, <1>2 DEF Ask

LEMMA ArrivesKeeps ==
    ASSUME MarketInv, NEW r \in Readers, reading[r] # NotReading, NEW empty \in BOOLEAN,
           NEW asOf \in reading[r].since .. now, Arrives(r, empty, asOf)
    PROVE  MarketInv'
<1> DEFINE kind == reading[r].kind
           e == [key |-> reading[r].key, empty |-> empty, asOf |-> asOf,
                 until |-> now + Lifetime(kind, empty)]
<1>1. /\ now \in 0 .. MaxNow /\ reading[r].since \in 0 .. MaxNow
      /\ kind \in CacheKinds /\ reading[r].key \in Keys
      /\ reading[r].since <= now /\ now - reading[r].since <= TIMEOUT
  BY DEF MarketInv, MarketTyped, RequestsAreYoung, Reading
<1>2. Lifetime(kind, empty) \in Nat /\ MaxNow \in Nat /\ TIMEOUT \in Nat
  BY <1>1, MarketBounds
<1>3. asOf \in 0 .. MaxNow /\ asOf <= now /\ now + Lifetime(kind, empty) \in Int
      /\ now + Lifetime(kind, empty) - asOf <= TIMEOUT + Lifetime(kind, empty)
  BY <1>1, <1>2
<1>4. e \in Entry
  BY <1>1, <1>3 DEF Entry
<1>5. KeptAsPromised(kind, e)
  <2>1. e.asOf = asOf /\ e.until = now + Lifetime(kind, empty) /\ e.empty = empty
    OBVIOUS
  <2> HIDE DEF e, kind
  <2> DEFINE life == Lifetime(kind, e.empty)
  <2>2. e.until = now + life /\ now + life - asOf <= TIMEOUT + life
    BY <1>3, <2>1
  <2>3. e.until - e.asOf <= TIMEOUT + life
    <3>1. now \in Int /\ life \in Int /\ asOf \in Int /\ TIMEOUT \in Int
      BY <1>1, <1>2, <1>3, <2>1
    <3> HIDE DEF life
    <3> QED BY <2>1, <2>2, <3>1
  <2> QED BY <1>3, <2>1, <2>3 DEF KeptAsPromised
<1>6. /\ cached' = [cached EXCEPT ![kind] = Put(kind, e)]
      /\ reading' = [reading EXCEPT ![r] = NotReading] /\ now' = now
  BY DEF Arrives
<1> HIDE DEF kind, e
<1>7. Put(kind, e) \in Seq(Entry) /\ ToSet(Put(kind, e)) \subseteq ToSet(cached[kind]) \cup {e}
  BY <1>1, <1>4, PutFacts DEF MarketInv
<1>8. MarketTyped'
  BY <1>1, <1>6, <1>7, NotReadingTyped DEF MarketInv, MarketTyped
<1>9. RequestsAreYoung'
  BY <1>6 DEF MarketInv, MarketTyped, RequestsAreYoung
<1>10. EntriesAreYoung'
  <2> SUFFICES ASSUME NEW k \in CacheKinds, NEW x \in ToSet(cached'[k]) PROVE KeptAsPromised(k, x)'
    BY DEF EntriesAreYoung
  <2>1. x \in ToSet(cached[k]) \/ (k = kind /\ x = e)
    BY <1>1, <1>6, <1>7 DEF MarketInv, MarketTyped
  <2> QED BY <1>5, <1>6, <2>1 DEF MarketInv, EntriesAreYoung, KeptAsPromised
<1> QED BY <1>8, <1>9, <1>10 DEF MarketInv

LEMMA RateLimitedKeeps ==
    ASSUME MarketInv, NEW r \in Readers, RateLimited(r)
    PROVE  MarketInv'
<1>0. reading[r] # NotReading
  BY DEF RateLimited
<1>1. /\ now \in 0 .. MaxNow /\ reading[r] \in Reading /\ reading[r].since <= now
  BY <1>0 DEF MarketInv, MarketTyped, RequestsAreYoung
<1>2. CASE Arrives(r, TRUE, now)
  <2>1. now \in reading[r].since .. now
    BY <1>1 DEF Reading
  <2> QED BY <1>0, <1>2, <2>1, ArrivesKeeps
<1>3. CASE /\ reading[r].attempt < YAHOO_MAX_RETRIES
           /\ reading' = [reading EXCEPT ![r].attempt = reading[r].attempt + 1, ![r].since = now]
           /\ UNCHANGED <<now, cached>>
  <2> DEFINE again == [reading[r] EXCEPT !.attempt = reading[r].attempt + 1, !.since = now]
  <2>1. reading[r].attempt + 1 \in 0 .. YAHOO_MAX_RETRIES
    BY <1>1, <1>3, MarketBounds DEF Reading
  <2>2. again \in Reading /\ again.kind = reading[r].kind /\ again.key = reading[r].key /\ again.since = now
    BY <1>1, <2>1 DEF Reading
  <2>3. reading' = [reading EXCEPT ![r] = again]
    BY <1>3 DEF MarketInv, MarketTyped
  <2> HIDE DEF again
  <2>4. now <= now /\ now - now <= TIMEOUT
    BY <1>1, MarketBounds
  <2>5. MarketTyped'
    BY <1>3, <2>2, <2>3 DEF MarketInv, MarketTyped
  <2>6. RequestsAreYoung'
    BY <1>0, <1>3, <2>2, <2>3, <2>4 DEF MarketInv, MarketTyped, RequestsAreYoung
  <2>7. EntriesAreYoung'
    BY <1>3 DEF MarketInv, EntriesAreYoung, KeptAsPromised
  <2> QED BY <2>5, <2>6, <2>7 DEF MarketInv
<1> QED BY <1>2, <1>3 DEF RateLimited

LEMMA NextMomentKeeps == MarketInv /\ NextMoment => MarketInv'
<1> SUFFICES ASSUME MarketInv, NextMoment PROVE MarketInv'
  OBVIOUS
<1>1. /\ now \in 0 .. MaxNow /\ now < MaxNow /\ now' = now + 1 /\ UNCHANGED <<cached, reading>>
      /\ \A r \in Readers : reading[r] # NotReading => now - reading[r].since < TIMEOUT
  BY DEF MarketInv, MarketTyped, NextMoment
<1>2. now' \in 0 .. MaxNow
  BY <1>1, MarketBounds
<1>3. MarketTyped'
  BY <1>1, <1>2 DEF MarketInv, MarketTyped
<1>4. RequestsAreYoung'
  <2> SUFFICES ASSUME NEW r \in Readers, reading[r] # NotReading
               PROVE  /\ reading[r].kind \in CacheKinds /\ reading[r].key \in Keys
                      /\ reading[r].since <= now + 1 /\ (now + 1) - reading[r].since <= TIMEOUT
    BY <1>1 DEF RequestsAreYoung
  <2>1. reading[r].since \in 0 .. MaxNow
    BY DEF MarketInv, MarketTyped, Reading
  <2>2. /\ reading[r].kind \in CacheKinds /\ reading[r].key \in Keys
        /\ reading[r].since <= now /\ now - reading[r].since < TIMEOUT
    BY <1>1 DEF MarketInv, RequestsAreYoung
  <2> QED BY <1>1, <2>1, <2>2, MarketBounds
<1>5. EntriesAreYoung'
  <2> SUFFICES ASSUME NEW kind \in CacheKinds, NEW e \in ToSet(cached[kind])
               PROVE  e.asOf <= now + 1 /\ e.until - e.asOf <= TIMEOUT + Lifetime(kind, e.empty)
    BY <1>1 DEF EntriesAreYoung, KeptAsPromised
  <2>1. KeptAsPromised(kind, e)
    BY DEF MarketInv, EntriesAreYoung
  <2>2. e.asOf \in 0 .. MaxNow
    <3>1. cached[kind] \in Seq(Entry)
      BY DEF MarketInv, MarketTyped
    <3>2. e \in Entry
      BY <3>1, LenProperties, ElementOfSeq DEF ToSet
    <3> QED BY <3>2 DEF Entry
  <2> QED BY <1>1, <2>1, <2>2 DEF KeptAsPromised
<1> QED BY <1>3, <1>4, <1>5 DEF MarketInv

LEMMA MarketStepKeeps == MarketInv /\ [MarketNext]_marketVars => MarketInv'
<1> SUFFICES ASSUME MarketInv, [MarketNext]_marketVars PROVE MarketInv'
  OBVIOUS
<1>1. CASE FlushCaches
  <2>1. cached' = [cached EXCEPT !["bars"] = <<>>, !["quotes"] = <<>>] /\ UNCHANGED <<now, reading>>
    BY <1>1 DEF FlushCaches
  <2>2. <<>> \in Seq(Entry) /\ ToSet(<<>>) = {}
    BY DEF ToSet
  <2>3. cached' \in [CacheKinds -> Seq(Entry)] /\ \A kind \in CacheKinds : cached'[kind] = <<>>
    BY <2>1, <2>2 DEF MarketInv, MarketTyped, CacheKinds
  <2> QED BY <2>1, <2>2, <2>3 DEF MarketInv, MarketTyped, RequestsAreYoung, EntriesAreYoung
<1>2. ASSUME NEW r \in Readers, Answered(r) PROVE MarketInv'
  BY <1>2, ArrivesKeeps DEF Answered
<1>3. ASSUME NEW r \in Readers, RequestFails(r) PROVE MarketInv'
  <2>1. reading' = [reading EXCEPT ![r] = NotReading] /\ UNCHANGED <<now, cached>>
    BY <1>3 DEF RequestFails
  <2>2. MarketTyped'
    BY <2>1, NotReadingTyped DEF MarketInv, MarketTyped
  <2>3. RequestsAreYoung'
    BY <2>1 DEF MarketInv, MarketTyped, RequestsAreYoung
  <2>4. EntriesAreYoung'
    BY <2>1 DEF MarketInv, EntriesAreYoung, KeptAsPromised
  <2> QED BY <2>2, <2>3, <2>4 DEF MarketInv
<1>4. CASE UNCHANGED marketVars
  BY <1>4 DEF marketVars, MarketInv, MarketTyped, RequestsAreYoung, EntriesAreYoung, KeptAsPromised
<1> QED BY <1>1, <1>2, <1>3, <1>4, AskKeeps, RateLimitedKeeps, NextMomentKeeps DEF MarketNext

\* Whatever order overlapping fetches are answered in, what is served is no
\* older than its lifetime plus one request (OhlcvCacheService).
THEOREM ServedDataIsFresh == MarketSpec => []NeverStalerThanPromised
<1>1. MarketInv => NeverStalerThanPromised
  <2> SUFFICES ASSUME MarketInv, NEW kind \in CacheKinds, NEW e \in ToSet(cached[kind]), ~Expired(e)
               PROVE  now - e.asOf <= TIMEOUT + Lifetime(kind, e.empty)
    BY DEF NeverStalerThanPromised, Lifetime
  <2>1. e \in Entry
    <3>1. cached[kind] \in Seq(Entry)
      BY DEF MarketInv, MarketTyped
    <3> QED BY <3>1, LenProperties, ElementOfSeq DEF ToSet
  <2>2. e.asOf \in Nat /\ e.until \in Int /\ now \in Nat /\ Lifetime(kind, e.empty) \in Nat /\ TIMEOUT \in Nat
    BY <2>1, MarketBounds DEF Entry, MarketInv, MarketTyped
  <2>3. ~(now > e.until) /\ e.until - e.asOf <= TIMEOUT + Lifetime(kind, e.empty)
    BY DEF MarketInv, EntriesAreYoung, KeptAsPromised, Expired
  <2> QED BY <2>2, <2>3
<1> QED BY MarketStarts, MarketStepKeeps, <1>1, PTL DEF MarketSpec

\* The caches and the requests keep to their types.
THEOREM MarketKeepsTypes == MarketSpec => []MarketTypeOK
<1>1. MarketInv => MarketTypeOK
  BY DEF MarketInv, MarketTyped, EntriesAreYoung, KeptAsPromised, MarketTypeOK, Reading, Keys
<1> QED BY MarketStarts, MarketStepKeeps, <1>1, PTL DEF MarketSpec

-----------------------------------------------------------------------------
(* The parts of the platform together                                      *)

\* No step of the composition is a step of a part that its module does not
\* have: every part keeps to its own specification.
LEMMA PartsStep ==
    ASSUME [Next]_vars
    PROVE  /\ [LedgerNext]_ledgerVars /\ [ToolsNext]_toolVars /\ [SchedulerNext]_schedulerVars
           /\ [PretestSchedulerNext]_pretestSchedulerVars /\ [PretestNext]_pretestVars
           /\ [SetupNext]_setupVars /\ [SkillNext]_skillVars /\ [LifecycleNext]_lifecycleVars
           /\ [MarketNext]_marketVars /\ [LlmNext]_llmVars /\ [RecoveryNext]_recoveryVars
           /\ [HotReloadNext]_reloadVars
<1>1. CASE UNCHANGED vars
  BY <1>1 DEF vars, serviceVars
<1>2. CASE Next
  BY <1>2 DEF Next, Moves, serviceVars
<1> QED BY <1>1, <1>2

\* Every part of the platform keeps to its types, whichever of them moves.
THEOREM PlatformPartsKeepTypes == Spec => []PlatformTypesOK
<1>1. Init => /\ LedgerInit /\ ToolsInit /\ SchedulerInit /\ PretestSchedulerInit /\ PretestInit
              /\ SetupInit /\ SkillInit /\ LifecycleInit /\ MarketInit
              /\ LlmInit /\ RecoveryInit /\ HotReloadInit
  BY DEF Init
<1>2. [Next]_vars =>
        /\ [LedgerNext]_ledgerVars /\ [ToolsNext]_toolVars /\ [SchedulerNext]_schedulerVars
        /\ [PretestSchedulerNext]_pretestSchedulerVars /\ [PretestNext]_pretestVars
        /\ [SetupNext]_setupVars /\ [SkillNext]_skillVars /\ [LifecycleNext]_lifecycleVars
        /\ [MarketNext]_marketVars /\ [LlmNext]_llmVars /\ [RecoveryNext]_recoveryVars
        /\ [HotReloadNext]_reloadVars
  BY PartsStep
<1>3. Spec => /\ LedgerSpec /\ ToolsSpec /\ SchedulerSpec /\ PretestSchedulerSpec /\ PretestSpec
              /\ SetupSpec /\ SkillSpec /\ LifecycleSpec /\ MarketSpec
              /\ LlmSpec /\ RecoverySpec /\ HotReloadSpec
  BY <1>1, <1>2, PTL
     DEF Spec, LedgerSpec, ToolsSpec, SchedulerSpec, PretestSchedulerSpec, PretestSpec, SetupSpec,
         SkillSpec, LifecycleSpec, MarketSpec, LlmSpec, RecoverySpec, HotReloadSpec
<1>4. LedgerTypeOK /\ ToolsTypeOK /\ SchedulerTypeOK /\ PretestSchedulerTypeOK /\ PretestTypeOK
        /\ SetupTypeOK /\ SkillTypeOK /\ LifecycleTypeOK /\ MarketTypeOK /\ LlmTypeOK
        /\ RecoveryTypeOK /\ HotReloadTypeOK => PlatformTypesOK
  BY DEF PlatformTypesOK
<1> QED
  BY <1>3, <1>4, LedgerKeepsTypes, ToolsKeepTypes, SchedulerKeepsTypes, PretestSchedulerKeepsTypes,
     PretestKeepsTypes, SetupKeepsTypes, SkillKeepsTypes, LifecycleKeepsTypes, MarketKeepsTypes,
     LlmKeepsTypes, RecoveryKeepsTypes, ReloadKeepsTypes, PTL

=============================================================================
