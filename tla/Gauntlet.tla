------------------------------ MODULE Gauntlet ------------------------------
(***************************************************************************)
(* What a hypothesis is put through before it has a verdict (pipeline.py,  *)
(* option_pipeline.py, evaluator/score.py, validation/overfitting.py and   *)
(* the two robustness.py): the backtest of the whole window, with and      *)
(* without friction, the walk forward, the perturbations and the slices,   *)
(* the regression on the benchmark, the overfitting signals, and the       *)
(* gates before the weights.  What an engine makes of a rule is the        *)
(* environment's.  Shares, Sharpes, drawdowns and ratios are hundredths.   *)
(***************************************************************************)
EXTENDS Integers, FiniteSets, FiniteSetsExt, SequencesExt

CONSTANTS
  Rules,               \* [mode, knobs]: a value for each knob of the rule
  Runs,                \* what the whole window may come to
  Walks,               \* what a walk forward may come to
  NoRun,
  Slicings,            \* what the runs without a name, a year, at a term may
  Failed,
  Regressions,         \* what a regression of enough sessions may
  Searched,            \* how many hypotheses were tried before
  SearchCost,          \* by their number: a third of its logarithm
  Inflation,           \* and the best Sharpe of as many worthless ones
  MinRatioTrades, MinTrades, MinCycles, MinSlice, MinObservations,
  TradesPerParameter, FullSample, FullCurve

VARIABLES
  stage,
  rule,
  peak,                \* the knobs at which any nudge loses the edge
  evidence,            \* what was measured so far
  verdict, status

gvars == <<stage, rule, peak, evidence, verdict, status>>

Half == 50
Clip(v) == Max({0, Min({100, v})})
Total(f, S) == FoldSet(LAMBDA x, sum : sum + f[x], 0, S)

\* Python rounds a half to the even number; n is in hundredths.
Round(n) == LET q == n \div 100
                r == n % 100
            IN IF r > Half \/ (r = Half /\ q % 2 = 1) THEN q + 1 ELSE q

-----------------------------------------------------------------------------
(* The knobs.                                                              *)

Structured == {"hold", "rebalance_every", "multiplier", "period", "ratio",
               "max_holding_bars", "risk_per_trade", "max_position_pct"}
OptionKnobs == {"anchor", "dte", "cadence", "width"}

\* The knobs with a whole value: the literals of an expression are whole here.
Integral == {"period", "max_holding_bars", "hold", "rebalance_every", "dte", "cadence",
             "entry", "regime", "rank_by", "screen"}

\* Those out of whose range no rule is built, in hundredths.
Largest == [k \in {"risk_per_trade", "max_position_pct", "anchor"} |->
              CASE k = "risk_per_trade" -> 10 [] k = "max_position_pct" -> 100 [] k = "anchor" -> 99]

\* What an engine consults: a book its ranking and its clock, a signal its
\* entry and exits.
EngineReads(mode) ==
  CASE mode = "portfolio" -> {"hold", "rebalance_every", "rank_by", "screen"}
    [] mode = "signal" -> (Structured \ {"hold", "rebalance_every"}) \union {"entry", "regime"}
    [] mode = "option" -> OptionKnobs \union {"call_anchor", "entry"}

\* Mutant: every field of a specification is a parameter of it.
AllKnobs(r) == DOMAIN r.knobs \intersect (Structured \union OptionKnobs \union
                                          {"entry", "regime", "rank_by", "screen"})

\* slots, _option_slots: those the rule has and its engine reads.
Slots(r) ==
  DOMAIN r.knobs \intersect
    (CASE r.mode = "portfolio" -> {"hold", "rebalance_every", "rank_by", "screen"}
       [] r.mode = "signal" -> (Structured \ {"hold", "rebalance_every"}) \union {"entry", "regime"}
       [] r.mode = "option" -> OptionKnobs)

\* neighbours: the values a knob is nudged to, each once.
Neighbours(r, k) ==
  LET value == r.knobs[k]
      nudged(f) == IF k \in Integral THEN Max({1, Round(value * f)}) ELSE (value * f) \div 100
  IN {v \in {nudged(f) : f \in {75, 90, 110, 125}} :
        v # value /\ (k \in DOMAIN Largest => v <= Largest[k])}

\* parameter_stability: the share of the neighbours that keep half the
\* baseline; a baseline of nothing is kept by none.
Stability(r, peaks, baseline) ==
  LET count == [k \in Slots(r) |-> Cardinality(Neighbours(r, k))]
      total == Total(count, Slots(r))
  IN IF total = 0 THEN 100
     ELSE IF baseline <= 0 THEN 0
     ELSE (100 * Total(count, Slots(r) \ peaks)) \div total

\* parameter_count: the degrees of freedom of a rule.
ParameterCount(r) ==
  IF r.mode = "option"
  THEN 3 + Cardinality(DOMAIN r.knobs \intersect {"entry", "width", "call_anchor"})
  ELSE 2 + Cardinality(DOMAIN r.knobs \intersect {"entry", "regime", "ratio"})

-----------------------------------------------------------------------------
(* What is read off a run.                                                 *)

Pnl(trades) == [i \in DOMAIN trades |-> trades[i].pnl]
Net(trades) == Total(Pnl(trades), DOMAIN trades)

\* compute_metrics: no ratio of too few trades.
Sharpe(run) == IF Len(run.trades) < MinRatioTrades THEN 0 ELSE run.sharpe

\* _trade_stats: no losses is a high factor and not an infinite one.
ProfitFactor(trades) ==
  LET won == Total(Pnl(trades), {i \in DOMAIN trades : trades[i].pnl > 0})
      lost == -Total(Pnl(trades), {i \in DOMAIN trades : trades[i].pnl < 0})
  IN IF lost > 0 THEN (100 * won) \div lost ELSE IF won > 0 THEN 1000 ELSE 0

\* independent_cycles, over trades in the order of their entry.
Cycles(trades) ==
  FoldLeft(LAMBDA walk, t : IF t.entry < walk.free THEN walk
                            ELSE [count |-> walk.count + 1, free |-> t.exit],
           [count |-> 0, free |-> 0], trades).count

\* The share of what could be judged that made money: of too few trades it
\* is nobody's, and of nothing it is none.
Share(slices) ==
  LET judged == {s \in DOMAIN slices : slices[s] # Failed /\ slices[s].count >= MinSlice}
  IN IF judged = {} THEN 0
     ELSE (100 * Cardinality({s \in judged : slices[s].net > 0})) \div Cardinality(judged)

\* A trade belongs to the regime it was opened in.
ByRegime(trades) ==
  LET of(g) == {i \in DOMAIN trades : trades[i].regime = g}
      seen == {trades[i].regime : i \in DOMAIN trades} \ {"unknown"}
  IN [g \in seen |-> [count |-> Cardinality(of(g)), net |-> Total(Pnl(trades), of(g))]]

RegimeRobustness(trades) == Share(ByRegime(trades))

\* _leave_one_out: the book without each name, of which two have to be left.
WithoutOne(names) == IF Cardinality(DOMAIN names) < 3 THEN 0 ELSE Share(names)

\* asset_robustness: a signal one name at a time, a book on the others.
AssetRobustness(slicing, mode) ==
  IF mode = "portfolio" THEN WithoutOne(slicing.names) ELSE Share(slicing.names)

YearRobustness(slicing) == Share(slicing.years)   \* without the entries of each year
TermAgreement(slicing) == Share(slicing.terms)    \* at each of the vendor's terms

YearDteRobustness(slicing) == (YearRobustness(slicing) + TermAgreement(slicing)) \div 2

-----------------------------------------------------------------------------
(* The walk forward, and the benchmark over its sessions.                  *)

\* oos_sharpe: of the chained curve, or the mean of the folds.
OosSharpe(walk) ==
  IF walk.chained # NoRun THEN Sharpe(walk.chained)
  ELSE Total([i \in DOMAIN walk.folds |-> Sharpe(walk.folds[i].test)], DOMAIN walk.folds) \div Len(walk.folds)

TrainSharpe(walk) ==
  Total([i \in DOMAIN walk.folds |-> walk.folds[i].train], DOMAIN walk.folds) \div Len(walk.folds)

\* _worst_case: where nothing could be chained, the worst fold.
Oos(walk) ==
  IF walk.chained # NoRun THEN walk.chained
  ELSE walk.folds[CHOOSE i \in DOMAIN walk.folds : \A j \in DOMAIN walk.folds :
                    Sharpe(walk.folds[i].test) <= Sharpe(walk.folds[j].test)].test

\* _residual: the sessions both have a return into.
Paired(walk) == {walk.chained.sessions[i] : i \in DOMAIN walk.chained.sessions}
                  \intersect (walk.market \ {Min(walk.market)})

\* There is a curve, and a market to set it against.
HasMarket(walk) == walk.chained # NoRun /\ Cardinality(walk.market) >= 3

\* residual_alpha: refused on too few.
CanRegress(walk) == HasMarket(walk) /\ Cardinality(Paired(walk)) >= MinObservations

\* _frictionless_oos_sharpe: fold by fold where there is one, or the window's.
Frictionless(e) ==
  IF e.rule.mode = "option" \/ e.walk.chained = NoRun THEN e.free ELSE e.walk.free

-----------------------------------------------------------------------------
(* detect_overfitting.                                                     *)

Top(trades) == SubSeq(SortSeq(Pnl(trades), LAMBDA x, y : x > y), 1, Max({1, Round(5 * Len(trades))}))

\* How much of the profit came from the best few.
ProfitConcentration(trades) ==
  IF Net(trades) <= 0 THEN 0
  ELSE LET top == Top(trades)
       IN Clip((((100 * Total(top, DOMAIN top)) \div Net(trades) - 30) * 100) \div 70)

\* The best of k parts, over an even share of them.
Excess(sums, total, k) == 
  Clip((((100 * Max({sums[x] : x \in DOMAIN sums})) \div total) * k - 100) \div (k - 1))

AssetConcentration(trades) ==
  LET symbols == {trades[i].symbol : i \in DOMAIN trades}
      by == [s \in symbols |-> Total(Pnl(trades), {i \in DOMAIN trades : trades[i].symbol = s})]
      gains == Total(by, {s \in symbols : by[s] > 0})
  IN IF Cardinality(symbols) = 1 THEN Half
     ELSE IF gains <= 0 THEN 0
     ELSE Excess(by, gains, Cardinality(symbols))

TimeConcentration(trades) ==
  LET times == {trades[i].exit : i \in DOMAIN trades}
      buckets == Min({10, Max({2, Len(trades) \div 5})})
      bucket(t) == ((t - Min(times)) * buckets) \div (Max(times) + 1 - Min(times))
      sums == [b \in 0 .. buckets - 1 |->
                 Total(Pnl(trades), {i \in DOMAIN trades : bucket(trades[i].exit) = b})]
  IN IF Len(trades) < 4 THEN Half
     ELSE IF Net(trades) <= 0 THEN 0
     ELSE IF Cardinality(times) = 1 THEN 100
     ELSE Excess(sums, Net(trades), buckets)

\* The nine signals; zero is no evidence of overfitting.
Signals(e) ==
  LET trades == e.run.trades
      sharpe == Sharpe(e.run)
  IN << Clip(100 - (100 * Len(trades)) \div (ParameterCount(e.rule) * TradesPerParameter)),
        SearchCost[e.prior + 1],
        Clip((100 * Inflation[e.prior + 1]) \div Max({sharpe, -sharpe, Half})),
        Clip((TrainSharpe(e.walk) - OosSharpe(e.walk)) \div 2),
        ProfitConcentration(trades), AssetConcentration(trades), TimeConcentration(trades),
        IF e.free > 0 THEN Clip(100 - (100 * sharpe) \div e.free) ELSE 0,
        Clip(100 - (100 * Len(trades)) \div FullSample) >>

LikelyOverfit(e) == Total(Signals(e), 1 .. 9) >= 9 * 60

-----------------------------------------------------------------------------
(* evaluate_strategy, evaluate_option_strategy.                            *)

\* _curve: saturates.
Curve(value, good) == IF value <= 0 THEN 0 ELSE Min({(100 * value) \div good, 100})

\* _drawdown_component: full marks below ten percent, none from forty.
DrawdownComponent(drawdown) == Clip(100 - (100 * (drawdown - 10)) \div 30)

Score(e) ==
  30 * (IF e.residual = NoRun THEN 0 ELSE Curve(e.residual.ratio, Half))
    + 20 * Curve(ProfitFactor(Oos(e.walk).trades) - 100, FullCurve)
    + 15 * DrawdownComponent(Oos(e.walk).drawdown)
    + 15 * Stability(e.rule, e.peak, Sharpe(e.run))
    + 10 * (IF e.rule.mode = "option" THEN YearDteRobustness(e.slicing)
            ELSE AssetRobustness(e.slicing, e.rule.mode))
    + 10 * RegimeRobustness(e.run.trades)

\* A rule is judged by its trades, a rule of options by its cycles.
TooFew(e) ==
  IF e.rule.mode = "option" THEN Cycles(Oos(e.walk).trades) < MinCycles
  ELSE Len(Oos(e.walk).trades) < MinTrades

\* Costs take more than half of the edge.
OnlyWithoutCosts(e) == Frictionless(e) > 0 /\ 2 * OosSharpe(e.walk) < Frictionless(e)

\* A curve no one would hold, or nothing beside the benchmark.
NoEdge(e) ==
  \/ Oos(e.walk).drawdown > 35
  \/ OosSharpe(e.walk) <= 0
  \/ e.residual = NoRun \/ e.residual.alpha <= 0 \/ e.residual.t <= 0

Fatal(e) == TooFew(e) \/ NoEdge(e) \/ OnlyWithoutCosts(e) \/ LikelyOverfit(e)

Significant(e) == e.residual # NoRun /\ e.residual.t > 200

Verdict(e) ==
  IF Fatal(e) THEN "REJECT"
  ELSE IF ~Significant(e) THEN "REVIEW"
  ELSE IF Score(e) >= 7000 THEN "ACCEPT"
  ELSE IF Score(e) >= 5500 THEN "PAPER" ELSE "REVIEW"

-----------------------------------------------------------------------------
(* The pipeline.                                                           *)

Init ==
  /\ rule \in Rules
  /\ peak \in {{}, EngineReads(rule.mode) \intersect DOMAIN rule.knobs}
                \union {{k} : k \in EngineReads(rule.mode) \intersect DOMAIN rule.knobs}
  /\ stage = "loaded" /\ evidence = NoRun /\ verdict = "UNKNOWN" /\ status = "PROPOSED"

\* _record: REVIEW leaves the status alone.
Record(v) ==
  /\ verdict' = v
  /\ status' = CASE v = "REJECT" -> "REJECTED" [] v \in {"ACCEPT", "PAPER"} -> "PAPER"
                 [] v = "REVIEW" -> status
  /\ stage' = "recorded"

RejectEarly == Record("REJECT") /\ UNCHANGED <<rule, peak, evidence>>

\* No data for the universe, data of another timeframe, a rule that cannot be
\* evaluated on it.
Unevaluable == stage = "loaded" /\ RejectEarly

\* The whole window, and again without friction.
Backtest ==
  /\ stage = "loaded"
  /\ \E run \in Runs, free \in {"kept", "halved", "lost"} :
       /\ evidence' = [rule |-> rule, peak |-> peak, run |-> run,
                       free |-> CASE free = "kept" -> Sharpe(run)
                                  [] free = "halved" -> 2 * Sharpe(run)
                                  [] free = "lost" -> 5 * Sharpe(run)]
       /\ IF run.trades = <<>> THEN Record("REJECT")
          ELSE stage' = "backtested" /\ UNCHANGED <<verdict, status>>
  /\ UNCHANGED <<rule, peak>>

\* The number that counts; no folds is not enough history.
WalkForward ==
  /\ stage = "backtested"
  /\ \/ RejectEarly
     \/ \E walk \in Walks :
          /\ evidence' = [walk |-> walk] @@ evidence
          /\ stage' = "walked" /\ UNCHANGED <<rule, peak, verdict, status>>

\* The slices, the search so far, the benchmark, and the verdict.
Judge ==
  /\ stage = "walked"
  /\ \E slicing \in Slicings, prior \in Searched,
        residual \in IF CanRegress(evidence.walk) THEN Regressions ELSE {NoRun} :
       LET e == [slicing |-> slicing, prior |-> prior, residual |-> residual] @@ evidence
       IN evidence' = e /\ Record(Verdict(e))
  /\ UNCHANGED <<rule, peak>>

Next == Unevaluable \/ Backtest \/ WalkForward \/ Judge

Spec == Init /\ [][Next]_gvars

-----------------------------------------------------------------------------
Judged == stage = "recorded" /\ evidence # NoRun /\ "slicing" \in DOMAIN evidence

(***************************************************************************)
(* Whoever is promoted made money out of sample, on one curve, in as many  *)
(* bets that did not overlap as its family asks of it; half of that is     *)
(* left by the costs of the same sessions; and what is left of it beside   *)
(* the benchmark was measured on sessions both of them have.               *)
(***************************************************************************)
PromotionsAreEarned ==
  status = "PAPER" =>
    LET walk == evidence.walk
        trades == walk.chained.trades
    IN /\ walk.chained # NoRun /\ walk.chained.sharpe > 0 /\ walk.chained.drawdown <= 35
       /\ IF rule.mode = "option"
          THEN \E S \in SUBSET DOMAIN trades :
                 /\ Cardinality(S) >= MinCycles
                 /\ \A i, j \in S : i < j => trades[i].exit <= trades[j].entry
          ELSE Len(trades) >= MinTrades
       /\ Cardinality(Paired(walk)) >= MinObservations /\ evidence.residual.t > 200
       /\ rule.mode # "option" => 2 * walk.chained.sharpe >= walk.free

Rank(v) == CASE v = "REJECT" -> 0 [] v = "REVIEW" -> 1 [] v = "PAPER" -> 2 [] v = "ACCEPT" -> 3

Gains(slices) ==
  {[slices EXCEPT ![s].net = 1] : s \in {t \in DOMAIN slices : slices[t] # Failed /\ slices[t].net <= 0}}

\* The same evidence, stronger in one piece of it.
Stronger(e) ==
  {[e EXCEPT !.prior = p] : p \in {q \in Searched : q < e.prior}}
    \union {[e EXCEPT !.peak = e.peak \ {k}] : k \in e.peak}
    \union {[e EXCEPT !.slicing.names = f] : f \in Gains(e.slicing.names)}
    \union {[e EXCEPT !.slicing.years = f] : f \in Gains(e.slicing.years)}
    \union {[e EXCEPT !.free = f] : f \in {0, e.free \div 2}}
    \union (IF e.residual = NoRun THEN {} ELSE {[e EXCEPT !.residual.t = t] : t \in {e.residual.t + 100}})
    \union (IF e.walk.chained = NoRun THEN {}
            ELSE {[e EXCEPT !.walk.chained.drawdown = d] : d \in {0, e.walk.chained.drawdown - 1}})

(***************************************************************************)
(* No verdict gets worse when one piece of its evidence gets better: fewer *)
(* hypotheses tried, a plateau for a peak, a loss that was a gain, a       *)
(* shallower drawdown, less lost to friction, an alpha better measured.    *)
(***************************************************************************)
StrongerIsNoWorse ==
  Judged /\ evidence.free >= 0 => \A e \in Stronger(evidence) : Rank(Verdict(e)) >= Rank(verdict)

(***************************************************************************)
(* A rule that works at one value only, of every knob its engine reads,    *)
(* has no stability, unless there was nothing to nudge.                    *)
(***************************************************************************)
PeaksAreSeen ==
  Judged /\ peak = EngineReads(rule.mode) \intersect DOMAIN rule.knobs
    => \/ Stability(rule, peak, Sharpe(evidence.run)) = 0
       \/ \A k \in peak : k \in Slots(rule) => Neighbours(rule, k) = {}

\* A verdict is earned, charged for what it cost, and no accident of one value.
VerdictsAreEarned == PromotionsAreEarned /\ StrongerIsNoWorse /\ PeaksAreSeen
=============================================================================
