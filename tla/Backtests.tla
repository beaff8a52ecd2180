------------------------------ MODULE Backtests -----------------------------
(***************************************************************************)
(* The three backtest engines, of which a run is one: run_backtest for a   *)
(* rule that is triggered, run_portfolio for one that ranks, and           *)
(* run_option_backtest.  They share no state.  The engines of shares keep  *)
(* theirs in the variables of this module.                                 *)
(***************************************************************************)
EXTENDS OptionRun

CONSTANTS
  Symbols, SymbolRank, NoBar,       \* the universe, its order, no bar
  ShareFunds, Slip, Fee,
  TriggerBars, TriggerSteps,        \* what a triggered rule runs over, and how
  Borrow, StopDistance, Reward, MaxHolding, MaxPositions, Volumes,
  TradeRisk, SizeShare, LossShare,
  RankedBars, RankedSteps,          \* what a ranked book runs over, and how
  Hold, RebalanceEvery, Core, Sleeve, HasTable

(***************************************************************************)
(* Prices are within their bar and above the slippage, which the code      *)
(* takes as a fraction of the price; costs are not negative, and a stop is *)
(* a distance (StopRule: the multiplier and the ATR are positive).         *)
(***************************************************************************)
ASSUME SharesAssumption ==
  /\ IsFiniteSet(Symbols) /\ NoBar \notin TriggerBars
  /\ ShareFunds \in Int /\ {Slip, Fee, Borrow, Reward, MaxHolding, MaxPositions} \subseteq Nat
  /\ {TriggerSteps, RankedSteps, StopDistance, TradeRisk, SizeShare, LossShare} \subseteq Nat \ {0}
  /\ Volumes \subseteq Nat
  /\ \A b \in TriggerBars :
       /\ {b.open, b.low, b.high, b.close} \subseteq Nat /\ Slip < b.low
       /\ b.low <= b.open /\ b.open <= b.high /\ b.low <= b.close /\ b.close <= b.high

VARIABLES
  engine,     \* "trigger", "portfolio" or "options"
  xPhase, xStep, xBars, xLife, xCash, xHeld, xOrders, xTrades, xAccount

shareVars == <<xPhase, xStep, xBars, xLife, xCash, xHeld, xOrders, xTrades, xAccount>>

T == INSTANCE TriggerRun WITH
       Rank <- SymbolRank, Bars <- TriggerBars, Steps <- TriggerSteps, Funds <- ShareFunds,
       RiskShare <- TradeRisk,
       phase <- xPhase, step <- xStep, bars <- xBars, life <- xLife, cash <- xCash,
       held <- xHeld, orders <- xOrders, trades <- xTrades, account <- xAccount

P == INSTANCE PortfolioRun WITH
       Bars <- RankedBars, Steps <- RankedSteps, Funds <- ShareFunds,
       phase <- xPhase, step <- xStep, bars <- xBars, life <- xLife, cash <- xCash,
       held <- xHeld, orders <- xOrders, trades <- xTrades, account <- xAccount

NoShares ==
  /\ xPhase = NoBar /\ xStep = NoBar /\ xBars = NoBar /\ xLife = NoBar /\ xCash = NoBar
  /\ xHeld = NoBar /\ xOrders = NoBar /\ xTrades = NoBar /\ xAccount = NoBar

BacktestInit ==
  /\ RunInit
  /\ \/ engine = "trigger" /\ T!Init
     \/ engine = "portfolio" /\ P!Init
     \/ engine = "options" /\ NoShares

BacktestNext ==
  \/ engine = "trigger" /\ T!Next /\ UNCHANGED <<engine, runVars>>
  \/ engine = "portfolio" /\ P!Next /\ UNCHANGED <<engine, runVars>>
  \/ engine = "options" /\ RunNext /\ UNCHANGED <<engine, shareVars>>

BacktestSpec == BacktestInit /\ [][BacktestNext]_<<engine, shareVars, runVars>>

(***************************************************************************)
(* The equity curve of an engine and the trades it reports are computed    *)
(* apart and describe one run; a triggered exit is priced where its bar    *)
(* traded, and a rebalanced book holds nothing past its last bar: see the  *)
(* engines.                                                                *)
(***************************************************************************)
BacktestsAreHonest ==
  /\ engine = "trigger" => T!CurveMatchesTrades /\ T!ExitsArePriced
  /\ engine = "portfolio" => P!NothingDelistedIsHeld
  /\ CurveMatchesTrades
=============================================================================
