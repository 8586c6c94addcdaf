--------------------------- MODULE RiskDiscipline ---------------------------
(***************************************************************************)
(* The risk-manager plugin: four layers applied in order to the pending    *)
(* signals of a cycle (plugins/risk-manager/hooks/cycle.py on_cycle and    *)
(* scripts/risk_manager_core.py).  Money and percentages are integers; the *)
(* size of a signal is its notional, 0 when its price or its quantity is   *)
(* not positive, and a rescaled quantity is the notional it is rescaled    *)
(* to.  A size_pct is no less than 0: the plugin does not look.            *)
(*                                                                         *)
(* A context is what on_cycle reads of ctx:                                *)
(*   value    portfolio_value                                              *)
(*   held     the market value of each symbol, from positions (0: none)    *)
(*   sized    the size_pct of each symbol of the portfolio (0: not in it)  *)
(*   alike    the pairs of symbols with price data whose returns correlate *)
(*            at or above max_correlation                                  *)
(*   history  equity_history; today: equity_open_today, 0 when absent      *)
(*   circuit  circuit_state; worst: worst_drawdown_in_state                *)
(* The agent's cycle passes only `value`: no position, no history and no   *)
(* get_ohlcv, so for it the last two layers let everything pass.           *)
(***************************************************************************)
EXTENDS Selection, Integers, FiniteSetsExt

CONSTANTS
  RiskSymbols, SectorOf,   \* the symbols and the sector of each
  RiskContexts,            \* the contexts the hook is called with
  RiskBatches,             \* the lists of pending signals
  RiskConfig               \* the plugin's [config], a record of integers

VARIABLE risk              \* the last call of the hook: [ctx, batch, out]

Sectors == {SectorOf[s] : s \in RiskSymbols}
RiskEntries == {"long", "buy", "short", "sell_short"}
RiskExits == {"exit", "sell", "close", "cover"}
RiskActions == RiskEntries \cup RiskExits \cup {"cancelled", "hold"}   \* "hold": any other

RiskSignals ==
    [symbol : RiskSymbols, action : RiskActions, notional : Nat, size : Nat, usd : Nat]

ASSUME RiskAssumption ==
    /\ IsFiniteSet(RiskSymbols)
    /\ RiskContexts # {}
    /\ \A ctx \in RiskContexts :
         /\ ctx.value \in Nat
         /\ ctx.held \in [RiskSymbols -> Nat]
         /\ ctx.sized \in [RiskSymbols -> Nat]
    /\ RiskBatches \subseteq Seq(RiskSignals)
    /\ \A limit \in {"trade", "asset", "total", "open", "sector", "cash", "positions"} :
         RiskConfig[limit] \in Nat

Positive(x) == IF x > 0 THEN x ELSE 0
Least(x, y) == IF x < y THEN x ELSE y
Cancel(sig) == [sig EXCEPT !.action = "cancelled"]
OpensPosition(sig) == sig.action \in RiskEntries
IsLive(sig) == sig.action # "cancelled"
Emit(run, sig) == [run EXCEPT !.out = Append(@, sig)]
-----------------------------------------------------------------------------
\* Layer 1.  `run` holds the book the signals before this one lead to.
TradeCap(ctx) == (ctx.value * RiskConfig.trade) \div 100
AssetCap(ctx) == (ctx.value * RiskConfig.asset) \div 100
TotalCap(ctx) == (ctx.value * RiskConfig.total) \div 100

ExitPasses(run, sig) ==
  Emit([run EXCEPT !.book[sig.symbol] = Positive(@ - sig.notional),
                   !.total = Positive(@ - sig.notional)], sig)

\* What an entry may have after the per-trade and the per-asset cap.
FitsTrade(ctx, sig) ==
  IF TradeCap(ctx) > 0 THEN Least(sig.notional, TradeCap(ctx)) ELSE sig.notional

\* Mutant: the cap is measured from the book the batch started with.
FitsAssetAlone(ctx, run, sig) ==
  Least(FitsTrade(ctx, sig), AssetCap(ctx) - ctx.held[sig.symbol])

FitsAsset(ctx, run, sig) ==
  Least(FitsTrade(ctx, sig), AssetCap(ctx) - run.book[sig.symbol])

TooManyOpen(run, sig) ==
  /\ sig.action \in {"long", "buy"}
  /\ run.book[sig.symbol] = 0
  /\ Cardinality({s \in RiskSymbols : run.book[s] > 0}) >= RiskConfig.open

EntryCapped(ctx, run, sig) ==
  LET notional == Least(FitsAsset(ctx, run, sig), TotalCap(ctx) - run.total)
      refused == \/ sig.action \in {"short", "sell_short"} /\ ~RiskConfig.shorts
                 \/ sig.notional > 0 /\ (notional <= 0 \/ TooManyOpen(run, sig))
  IN  IF refused THEN Emit(run, Cancel(sig))
      ELSE IF sig.notional = 0 THEN Emit(run, sig)
      ELSE Emit([run EXCEPT !.book[sig.symbol] = @ + notional, !.total = @ + notional],
                [sig EXCEPT !.notional = notional])

Expose(ctx, run, sig) ==
  CASE OpensPosition(sig) -> EntryCapped(ctx, run, sig)
    [] sig.action \in RiskExits -> ExitPasses(run, sig)
    [] OTHER -> Emit(run, sig)

Exposure(ctx, signals) ==
  FoldLeft(LAMBDA run, sig : Expose(ctx, run, sig),
           [book |-> ctx.held, total |-> SumFunction(ctx.held), out |-> <<>>], signals)

ApplyExposureLayer(ctx, signals) == Exposure(ctx, signals).out
-----------------------------------------------------------------------------
\* Layer 2.  A symbol new to the portfolio counts each time it is proposed.
SectorSize(ctx) ==
  [c \in Sectors |-> SumFunctionOnSet(ctx.sized, {s \in RiskSymbols : SectorOf[s] = c})]

\* A size is cut to the room there is, and refused where there is none.
Refuses(room, size) == size > room /\ room <= 0

Concentrates(ctx, run, sig) ==
  LET sector == SectorOf[sig.symbol]
      new == ctx.sized[sig.symbol] = 0
      inSector == RiskConfig.sector - run.sector[sector]
      inCash == 100 - run.total - RiskConfig.cash
      wanted == Least(sig.size, inSector)
      size == Least(wanted, inCash)
  IN  IF \/ new /\ run.count >= RiskConfig.positions
         \/ Refuses(inSector, sig.size) \/ Refuses(inCash, wanted)
      THEN Emit(run, Cancel(sig))
      ELSE Emit([run EXCEPT !.sector[sector] = @ + size, !.total = @ + size,
                            !.count = IF new THEN @ + 1 ELSE @],
                [sig EXCEPT !.size = size])

Concentrate(ctx, run, sig) ==
  IF OpensPosition(sig) THEN Concentrates(ctx, run, sig) ELSE Emit(run, sig)

Concentration(ctx, signals) ==
  FoldLeft(LAMBDA run, sig : Concentrate(ctx, run, sig),
           [sector |-> SectorSize(ctx), total |-> SumFunction(ctx.sized),
            count |-> Cardinality({s \in RiskSymbols : ctx.sized[s] > 0}), out |-> <<>>],
           signals)

ApplyConcentrationLayer(ctx, signals) == Concentration(ctx, signals).out
-----------------------------------------------------------------------------
\* Layer 3.  Only "long" is looked at; without price data everything passes.
Correlate(ctx, sig) ==
  LET blocked == /\ sig.action = "long"
                 /\ \E s \in RiskSymbols : ctx.sized[s] > 0 /\ <<sig.symbol, s>> \in ctx.alike
  IN  IF blocked THEN Cancel(sig) ELSE sig

ApplyCorrelationLayer(ctx, signals) == [i \in DOMAIN signals |-> Correlate(ctx, signals[i])]
-----------------------------------------------------------------------------
\* Layer 4.  The state of the circuit, from the equity curve of the context.
\* The recovery lock holds in the danger zone only: below it a tripped
\* breaker lets go at once.
EquityHistory(ctx) == IF ctx.history = <<>> /\ ctx.value > 0 THEN <<ctx.value>> ELSE ctx.history
PercentBelow(from, now) == IF from > 0 THEN Positive(((from - now) * 100) \div from) ELSE 0

EvaluateCircuit(ctx) ==
  LET history == EquityHistory(ctx)
      drawdown == PercentBelow(Max(ToSet(history)), Last(history))
      daily == PercentBelow(IF ctx.today > 0 THEN ctx.today ELSE Head(history), Last(history))
      recovering == ctx.circuit = "breaker" /\ ctx.worst - drawdown < RiskConfig.recovery
  IN  IF history = <<>> THEN "normal"
      ELSE IF daily >= RiskConfig.daily THEN "daily"
      ELSE IF drawdown >= RiskConfig.breaker THEN "breaker"
      ELSE IF drawdown >= RiskConfig.danger THEN IF recovering THEN "breaker" ELSE "danger"
      ELSE IF drawdown >= RiskConfig.warning THEN "warning" ELSE "normal"

\* The share of its dollar size an entry keeps; its quantity stays as it is.
SizeMultiplier(circuit) ==
  CASE circuit = "warning" -> 50 [] circuit = "danger" -> 25 [] OTHER -> 100

Reduce(circuit, sig) ==
  IF ~OpensPosition(sig) THEN sig
  ELSE IF circuit \in {"daily", "breaker"} THEN Cancel(sig)
  ELSE [sig EXCEPT !.usd = (@ * SizeMultiplier(circuit)) \div 100]

ApplyDrawdownLayer(ctx, signals) ==
  LET circuit == EvaluateCircuit(ctx)
  IN  [i \in DOMAIN signals |-> Reduce(circuit, signals[i])]
-----------------------------------------------------------------------------
\* The layers in order.  What one has cancelled is set apart, ahead of the
\* rest, and no later layer sees it.
Cancellations(signals) == Only(signals, {sig \in RiskSignals : ~IsLive(sig)})
Live(signals) == Only(signals, {sig \in RiskSignals : IsLive(sig)})

OnCycle(ctx, pending) ==
  LET first == ApplyExposureLayer(ctx, pending)
      second == Cancellations(first) \o ApplyConcentrationLayer(ctx, Live(first))
      third == Cancellations(second) \o ApplyCorrelationLayer(ctx, Live(second))
  IN  Cancellations(third) \o ApplyDrawdownLayer(ctx, Live(third))

NoHook == [ctx |-> CHOOSE ctx \in RiskContexts : TRUE, batch |-> <<>>, out |-> <<>>]
RiskInit == risk = NoHook

\* The hook keeps nothing between calls: one call is all there is to it.
RunHook == /\ risk = NoHook
           /\ \E ctx \in RiskContexts, batch \in RiskBatches :
                risk' = [ctx |-> ctx, batch |-> batch, out |-> OnCycle(ctx, batch)]

RiskNext == RunHook

RiskSpec == RiskInit /\ [][RiskNext]_risk
-----------------------------------------------------------------------------
\* What a list of signals leads to when every live one is executed: the book
\* of each symbol and the size of each sector.
Execute(run, sig) ==
  CASE OpensPosition(sig) ->
         [book |-> [run.book EXCEPT ![sig.symbol] = @ + sig.notional],
          sector |-> [run.sector EXCEPT ![SectorOf[sig.symbol]] = @ + sig.size]]
    [] sig.action \in RiskExits -> [run EXCEPT !.book[sig.symbol] = Positive(@ - sig.notional)]
    [] OTHER -> run
Before(ctx) == [book |-> ctx.held, sector |-> SectorSize(ctx)]
Executed(ctx, signals) == FoldLeft(Execute, Before(ctx), signals)
AtMost(x, cap, before) == x <= cap \/ x <= before
LiveExits(signals) == Only(signals, {sig \in RiskSignals : sig.action \in RiskExits})

\* However the layers rescale and however often a batch names one symbol or
\* one sector, executing what comes out takes no symbol, no sector and (when
\* the batch sells nothing) not the whole book past its cap, unless it was
\* past it before; and an exit comes out as it went in, in its order, even
\* with the breaker open (SKILL.md: "pass through ALL layers unchanged").
CapsHoldOverTheBatch ==
  LET ctx == risk.ctx
      after == Executed(ctx, risk.out)
  IN  /\ \A s \in RiskSymbols : AtMost(after.book[s], AssetCap(ctx), ctx.held[s])
      /\ LiveExits(risk.batch) = <<>> =>
           AtMost(SumFunction(after.book), TotalCap(ctx), SumFunction(ctx.held))
      /\ \A c \in Sectors : AtMost(after.sector[c], RiskConfig.sector, SectorSize(ctx)[c])
      /\ LiveExits(risk.out) = LiveExits(risk.batch)
=============================================================================
