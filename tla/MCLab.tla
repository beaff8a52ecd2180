-------------------------------- MODULE MCLab -------------------------------
(***************************************************************************)
(* What the research does apart from its ledger: the roots the data is     *)
(* kept in, the backtests, the search for a rule and a walk forward, which *)
(* are modules of their own, and on instances the folds of options and the *)
(* verdict on a rule.  A run is of one of them, chosen at the start; the   *)
(* instances share the variables of the engines of shares.                 *)
(***************************************************************************)
EXTENDS DataRoots, Backtests, Proposals, WalkForward, TLC

\* The processes differ in nothing but their names.
Symmetric == Permutations(Procs)

LabSymbols == {"a", "b"}
LabRank == ("a" :> 1) @@ ("b" :> 2)
TriggerBar(o, l, h, c) == [open |-> o, low |-> l, high |-> h, close |-> c]

\* The second bar reaches a target, the third a stop and a target, the
\* fourth opens through a stop.
LabTriggerBars == {TriggerBar(9, 8, 10, 9), TriggerBar(9, 8, 13, 12),
                   TriggerBar(9, 5, 13, 8), TriggerBar(4, 3, 5, 4)}
LabRankedBars == {[open |-> 4, close |-> 5], [open |-> 34, close |-> 3]}

Quote(dte, strike, right, bid, ask, delta) ==
  [dte |-> dte, strike |-> strike, right |-> right, bid |-> bid, ask |-> ask, delta |-> delta]

\* A ladder about a spot, with wings nobody bids for, and one of few strikes
\* whose greeks say nothing of the spot.
Ladder(spot) ==
  {Quote(2, spot, "call", 4, 5, 50), Quote(2, spot + 10, "call", 1, 2, 20),
   Quote(2, spot + 20, "call", 0, 1, 8), Quote(2, spot, "put", 4, 5, 50),
   Quote(2, spot - 10, "put", 2, 3, 20), Quote(2, spot - 20, "put", 0, 1, 8),
   Quote(3, spot - 10, "put", 3, 4, 18)}

Thin == {Quote(4, 100, "call", 4, 5, 50), Quote(2, 90, "put", 2, 2, 24),
         Quote(2, 80, "put", 3, 3, 8)}

Anchor(delta, tolerance, byDelta, byPoints) ==
  [delta |-> delta, tolerance |-> tolerance, byDelta |-> byDelta, byPoints |-> byPoints]
OptionRule(kind, target, tolerance, put, call) ==
  [kind |-> kind, dte |-> [target |-> target, tolerance |-> tolerance],
   put |-> put, call |-> call]

LabRules ==
  {OptionRule("put_credit_spread", 2, 0, Anchor(20, 2, 8, 0), Anchor(20, 2, 8, 0)),
   OptionRule("iron_condor", 2, 1, Anchor(20, 5, 8, 0), Anchor(20, 5, 0, 10)),
   OptionRule("long_put", 3, 1, Anchor(20, 5, 0, 0), Anchor(20, 5, 0, 0)),
   OptionRule("call_debit_spread", 2, 0, Anchor(50, 5, 20, 0), Anchor(50, 5, 20, 0))}
LabChains == {Ladder(100), Ladder(120), Thin}
LabCloses == {84, 100, 125}
LabCalendars == {1 .. 6, {1, 2, 5, 6}, {2, 3, 4}}

\* A series that is the calendar and one that comes, goes, has gaps, or is no
\* member; and with an embargo the last fold is a stub.
FoldSymbols == {"x", "y"}
FoldHistories ==
  {[x |-> 1 .. 9, y |-> days] : days \in {1 .. 9, 1 .. 4, 3 .. 6, 5 .. 9, {1, 2, 4, 6, 7, 8}, {1, 2, 8, 9}}}
FoldTables ==
  {NoTable} \union {[x |-> 1 .. 9, y |-> days] : days \in {{}, 1 .. 9, 1 .. 3, 4 .. 7, 6 .. 9}}

\* Five short months, one shorter; a chain may begin on a day it does not have.
Q == INSTANCE OptionFolds WITH
       MonthLengths <- <<3, 2, 3, 3, 3>>, FirstDays <- {2, 3}, LastSessions <- {11, 12, 14},
       TrainMonths <- 2, TestMonths <- 1, StepMonths <- 1, MinFoldTestDays <- 2,
       Terms <- {1, 3}, MaxEntries <- 2,
       ends <- xLife, train <- xHeld, fold <- xTrades, counted <- xStep, pooled <- xAccount

\* Two sessions of two features: iv is 1 or 4, and close 3 or 1.
Test(feature, op, number, mirrored) ==
  [feature |-> feature, op |-> op, number |-> number, mirrored |-> mirrored]
Entry(form, tests) == [form |-> form, tests |-> tests]
Single(feature, op, number, mirrored) == Entry("test", {Test(feature, op, number, mirrored)})
Rule(kind, dte, anchor, width, callAnchor, callWidth, cadence, entry) ==
  [named |-> TRUE, argued |-> TRUE, kind |-> kind, dte |-> dte, anchor |-> anchor, width |-> width,
   callAnchor |-> callAnchor, callWidth |-> callWidth, cadence |-> cadence, entry |-> entry]
Premium == Rule("put_credit_spread", 28, 160, 60, 0, 0, 5, Single("iv", ">", 1, FALSE))
Condor == Rule("iron_condor", 14, 160, 60, 100, 40, 3,
               Entry("or", {Test("iv", ">", 9, FALSE), Test("close", ">", 2, FALSE)}))
Debit == Rule("put_debit_spread", 28, 300, 220, 0, 0, 5, Single("close", "<", 2, FALSE))

\* What a model may answer: a rule, and the rule with one thing wrong.
OptionReplies ==
  {Premium, Condor, Debit, Rule("long_put", 28, 450, 0, 0, 0, 1, Single("close", "<", 2, TRUE)),
   [Premium EXCEPT !.named = FALSE], [Premium EXCEPT !.anchor = NoNumber],
   [Premium EXCEPT !.width = 0], [Premium EXCEPT !.width = 160], [Premium EXCEPT !.callWidth = 20],
   [Premium EXCEPT !.kind = "custom"], [Premium EXCEPT !.kind = "long_put"],
   [Premium EXCEPT !.dte = 7], [Premium EXCEPT !.cadence = 0],
   [Condor EXCEPT !.callWidth = 100], [Condor EXCEPT !.callAnchor = 1000]}
    \union {[Premium EXCEPT !.entry = e] : e \in
       {Entry("number", {}), Entry("garbage", {}), Entry("not", {Test("iv", ">", 9, FALSE)}),
        Entry("and", {Test("iv", "<=", 0, FALSE), Test("close", ">", 2, FALSE)}),
        Single("iv", ">", 9, FALSE), Single("iv", ">", 9, TRUE), Single("iv", "<", 3, TRUE)}}

Plan(mode, entry, ranking, screen, stop, profit, holding) ==
  [named |-> TRUE, argued |-> TRUE, mode |-> mode, direction |-> "long", entry |-> entry,
   shortEntry |-> "blank", rankBy |-> ranking, screen |-> screen, regime |-> "blank",
   signalExit |-> "blank", hold |-> 3, timeframe |-> "1D", stop |-> stop, profit |-> profit,
   holding |-> holding]
Signal == Plan("signal", "condition", "blank", "blank", 200, 150, 3)
Ranked == Plan("portfolio", "blank", "number", "condition", 0, 0, 0)

EquityReplies ==
  {Signal, Ranked, [Signal EXCEPT !.stop = -100], [Signal EXCEPT !.holding = -1],
   [Signal EXCEPT !.timeframe = "4h"], [Signal EXCEPT !.timeframe = "2h"], [Signal EXCEPT !.stop = 0],
   [Signal EXCEPT !.profit = -1], [Signal EXCEPT !.profit = NoNumber], [Signal EXCEPT !.mode = "other"], [Signal EXCEPT !.direction = "other"],
   [Signal EXCEPT !.rankBy = "number"], [Signal EXCEPT !.shortEntry = "garbage"],
   [Signal EXCEPT !.direction = "market_neutral"],
   [Signal EXCEPT !.direction = "market_neutral", !.shortEntry = "condition"],
   [Ranked EXCEPT !.entry = "condition"]}
    \union {[Signal EXCEPT !.entry = e] : e \in {"blank", "number"}}
    \union {[Ranked EXCEPT !.rankBy = e] : e \in {"blank", "condition"}}

LabSessions == {[iv |-> 1, close |-> 3], [iv |-> 4, close |-> 1]}
OptionTemplates == <<[Premium EXCEPT !.entry = Entry("empty", {})], Debit>>
EquityTemplates == <<[Signal EXCEPT !.regime = "condition"],
                     [Signal EXCEPT !.stop = 150, !.holding = 1]>>
LabFrames == {"1D"}

\* Trades of two names that are bets of their own, and trades in a heap.
Trade(symbol, regime, pnl, entry, exit) ==
  [symbol |-> symbol, regime |-> regime, pnl |-> pnl, entry |-> entry, exit |-> exit]
Good == <<Trade("x", "bull", 3, 1, 2), Trade("y", "bear", 3, 2, 3),
          Trade("x", "bull", -1, 3, 5), Trade("y", "bear", 2, 5, 6)>>
Heaped == <<Trade("x", "bull", 1, 1, 4), Trade("x", "bull", 9, 2, 5),
            Trade("x", "unknown", 1, 3, 6), Trade("x", "unknown", 1, 4, 6)>>
Ran(sharpe, drawdown, made) == [sharpe |-> sharpe, drawdown |-> drawdown, trades |-> made]
Chained(run, sessions) == [sessions |-> sessions] @@ run
Fold(train, run) == [train |-> train, test |-> run]
Walked(folds, chained, free, market) ==
  [folds |-> folds, chained |-> chained, free |-> free, market |-> market]
Sliced(names, years, terms) == [names |-> names, years |-> years, terms |-> terms]
Made(n, net) == [count |-> n, net |-> net]
Beta(alpha, t, ratio) == [alpha |-> alpha, t |-> t, ratio |-> ratio]
RuleOf(mode, knobs) == [mode |-> mode, knobs |-> knobs]
Bets == Ran(120, 8, Good)

\* Three rules of a family each; costs that take nothing, half or nearly all.
G == INSTANCE Gauntlet WITH
       Rules <- {RuleOf("signal", [multiplier |-> 200, max_holding_bars |-> 5, hold |-> 3, entry |-> 20]),
                 RuleOf("portfolio", [multiplier |-> 200, max_holding_bars |-> 5, hold |-> 6, rank_by |-> 2]),
                 RuleOf("option", [anchor |-> 80, dte |-> 28, cadence |-> 5, width |-> 20])},
       Runs <- {Bets, Ran(60, 30, Heaped), Ran(0, 0, <<>>),
                Ran(-20, 20, <<Trade("x", "bull", -1, 1, 2), Trade("x", "bear", 1, 2, 4)>>)},
       Walks <- {Walked(<<Fold(300, Bets), Fold(290, Bets)>>, Chained(r, <<2, 3, 4>>), free, 1 .. 4) :
                    r \in {Bets, Ran(70, 36, Good), Ran(90, 20, Heaped), Ran(40, 12, Good)}, free \in {100, -10}}
                 \union {Walked(<<Fold(150, Bets)>>, Chained(Bets, <<2, 3, 4>>), 100, 3 .. 5)}
                 \union {Walked(<<Fold(150, Bets), Fold(110, Ran(0, 0, <<>>))>>, NoTable, 0, 1 .. 4)},
       Slicings <- {Sliced([x |-> Made(2, 3), y |-> Made(2, a), z |-> NoNumber],
                           [a |-> Made(2, b), b |-> Made(1, 4)], [s |-> Made(2, 1), l |-> Made(2, 1)]) :
                      a \in {-1, 1}, b \in {-1, 1}},
       Regressions <- {NoTable} \union {Beta(5, t, r) : t \in {-50, 150, 250}, r \in {20, 60}},
       Searched <- {0, 2}, SearchCost <- <<0, 90, 100>>, Inflation <- <<0, 200, 300>>,
       MinRatioTrades <- 2, MinTrades <- 3, MinCycles <- 3, MinSlice <- 2, MinObservations <- 2,
       TradesPerParameter <- 4, FullSample <- 12, FullCurve <- 80,
       NoRun <- NoTable, Failed <- NoNumber,
       stage <- xPhase, rule <- xLife, peak <- xHeld, evidence <- xAccount, verdict <- xCash, status <- xOrders

\* A part that does not run stands where it may begin.
NoRoots == Init /\ today = 1
NoRun == RunInit /\ bars = 1 .. Steps /\ life = CHOOSE r \in Rules : r.kind = "long_put"
NoSearch == SearchInit /\ family = "equity" /\ source = "library" /\ issued = <<>>
NoWalk ==
  /\ WalkInit /\ prints = CHOOSE h \in Histories : TRUE
  /\ table = NoTable /\ plan.anchored /\ plan.embargo = 0 /\ plan.mode = "signal"

MCInit ==
  \/ BacktestInit /\ (engine # "options" => NoRun) /\ NoRoots /\ NoSearch /\ NoWalk
  \/ engine = "folds" /\ WalkInit /\ NoRoots /\ NoRun /\ NoSearch /\ NoShares
  \/ engine = "option folds" /\ Q!Init
       /\ xPhase = NoBar /\ xBars = NoBar /\ xCash = NoBar /\ xOrders = NoBar
       /\ NoRoots /\ NoRun /\ NoSearch /\ NoWalk
  \/ engine = "proposals" /\ SearchInit /\ NoRoots /\ NoRun /\ NoWalk /\ NoShares
  \/ engine = "gauntlet" /\ G!Init /\ xStep = NoBar /\ xBars = NoBar /\ xTrades = NoBar
       /\ NoRoots /\ NoRun /\ NoSearch /\ NoWalk
  \/ engine = "roots" /\ Init /\ NoRun /\ NoSearch /\ NoWalk /\ NoShares

MCNext ==
  \/ BacktestNext /\ UNCHANGED <<vars, searchVars, walkVars>>
  \/ engine = "folds" /\ WalkNext /\ UNCHANGED <<engine, shareVars, vars, runVars, searchVars>>
  \/ engine = "option folds" /\ Q!Next
       /\ UNCHANGED <<engine, xPhase, xBars, xCash, xOrders, vars, runVars, searchVars, walkVars>>
  \/ engine = "proposals" /\ SearchNext /\ UNCHANGED <<engine, shareVars, vars, runVars, walkVars>>
  \/ engine = "gauntlet" /\ G!Next
       /\ UNCHANGED <<engine, xStep, xBars, xTrades, vars, runVars, searchVars, walkVars>>
  \/ engine = "roots" /\ Next /\ UNCHANGED <<engine, shareVars, runVars, searchVars, walkVars>>

MCSpec == MCInit /\ [][MCNext]_<<engine, shareVars, vars, runVars, searchVars, walkVars>>

(***************************************************************************)
(* A verdict follows from its evidence, and from all of it, and the cycles *)
(* that a rule of options is judged by did not overlap: see Gauntlet and   *)
(* OptionFolds.                                                            *)
(***************************************************************************)
VerdictsAreEarned ==
  /\ engine = "gauntlet" => G!VerdictsAreEarned
  /\ engine = "option folds" => Q!CyclesAreIndependent
=============================================================================
