---------------------------- MODULE PortfolioRun ----------------------------
(***************************************************************************)
(* aqr/backtest/portfolio.py, run_portfolio: always invested, ranked and   *)
(* rebalanced.  The core holds the top of the ranking and reports the      *)
(* round trips; the sleeve holds every eligible name.  A decision of one   *)
(* step fills at the open of the next.  Weights are fractions of units.    *)
(***************************************************************************)
EXTENDS Integers, Sequences, FiniteSets, Functions, SequencesExt

CONSTANTS
  Symbols, NoBar,
  Bars,           \* the bars a symbol may print: open and close
  Steps,          \* bound: the length of the timeline
  Funds, Slip, Fee,
  Hold, RebalanceEvery,
  Core, Sleeve,   \* the two budgets, in parts of their sum
  HasTable        \* whether the run is given a membership table

VARIABLES
  phase, step,
  bars,      \* today and ahead: what each symbol prints, and whether the rule's
             \* screen and the membership table admit it
  life,      \* the step of each symbol's final bar
  cash,
  held,      \* the core legs, the sleeve's shares
  orders,    \* the targets decided and not yet filled, or none
  trades,    \* the round trips reported
  account    \* equity, and the targets in force

vars == <<phase, step, bars, life, cash, held, orders, trades, account>>

NoTargets == [core |-> [s \in {} |-> 0], sleeve |-> [s \in {} |-> 0]]
Without(f, S) == [s \in DOMAIN f \ S |-> f[s]]
SumOf(f) == SumFunction(f)

\* What a step may show; a symbol prints at its final bar and not after it.
Views(k) ==
  {v \in [Symbols -> [bar : Bars \union {NoBar}, screen : BOOLEAN, member : BOOLEAN]] :
     \A s \in Symbols : /\ k = life[s] => v[s].bar # NoBar
                        /\ k > life[s] => v[s].bar = NoBar
                        /\ v[s].bar = NoBar => ~v[s].screen
                        /\ ~HasTable => v[s].member}

Blank == [s \in Symbols |-> [bar |-> NoBar, screen |-> FALSE, member |-> ~HasTable]]

Init ==
  /\ phase = "bars" /\ step = 0
  /\ life \in [Symbols -> 1 .. Steps] /\ \E s \in Symbols : life[s] = Steps
  /\ \E v \in Views(1) : bars = [today |-> Blank, ahead |-> v]
  /\ cash = Funds /\ held = NoTargets /\ orders = <<>> /\ trades = <<>>
  /\ account = [equity |-> Funds, marks |-> [s \in Symbols |-> 0], force |-> NoTargets]

\* mark_px: the close, carried forward; before the first, zero.
NextBars ==
  /\ phase = "bars" /\ step < Steps
  /\ step' = step + 1 /\ phase' = "fill"
  /\ \E v \in Views(step + 2) : bars' = [today |-> bars.ahead, ahead |-> v]
  /\ account' = [account EXCEPT !.marks = [s \in Symbols |->
       IF bars.ahead[s].bar = NoBar THEN @[s] ELSE bars.ahead[s].bar.close]]
  /\ UNCHANGED <<life, cash, held, orders, trades>>

Prints(s) == bars.today[s].bar # NoBar

\* Screen and membership of a view: what may be ranked, held, benchmarked.
Admits(v, s) == v[s].screen /\ v[s].member

-----------------------------------------------------------------------------
(* The rebalance.                                                          *)

Have(f, s) == IF s \in DOMAIN f THEN f[s] ELSE 0
Legs == held.core
CoreShares(s) == IF s \in DOMAIN Legs THEN Legs[s].shares ELSE 0

Marked == SumOf([s \in DOMAIN Legs |-> Legs[s].shares * account.marks[s]])
          + SumOf([s \in DOMAIN held.sleeve |-> held.sleeve[s] * account.marks[s]])

\* _shares: the whole shares a weight of the marked book buys.
SharesOf(targets, s, equity) ==
  IF s \in DOMAIN targets /\ equity > 0
  THEN (targets[s].num * equity) \div (targets[s].den * bars.today[s].bar.open) ELSE 0

\* _round_trip.
RoundTrip(s, price, fee, why) ==
  [symbol |-> s, shares |-> Legs[s].shares, entry |-> Legs[s].entry, exit |-> price,
   fees |-> Legs[s].fees + fee, age |-> step - Legs[s].step, why |-> why, at |-> step]

\* _rebalance: every name that prints is traded to its targets; one that does
\* not keeps what it has.  The core leg is the one that reports a trade.
Fill ==
  /\ phase = "fill" /\ phase' = "leave"
  /\ IF orders = <<>> THEN UNCHANGED <<cash, held, orders, trades, account>>
     ELSE
     LET target == orders[1]
         equity == cash + Marked
         core(s) == SharesOf(target.core, s, equity)
         sleeve(s) == SharesOf(target.sleeve, s, equity)
         tradable == {s \in DOMAIN target.core \union DOMAIN target.sleeve
                             \union DOMAIN Legs \union DOMAIN held.sleeve : Prints(s)}
         delta == [s \in tradable |->
                     core(s) + sleeve(s) - CoreShares(s) - Have(held.sleeve, s)]
         fee(s) == IF delta[s] = 0 THEN 0 ELSE Fee
         fill(s) == bars.today[s].bar.open + (IF delta[s] > 0 THEN Slip ELSE -Slip)
         left == {s \in tradable \intersect DOMAIN Legs : core(s) = 0}
         kept == (DOMAIN Legs \ left) \union {s \in tradable : core(s) > 0}
     IN /\ cash' = cash - SumOf([s \in tradable |-> delta[s] * fill(s) + fee(s)])
        /\ held' = [core |-> [s \in kept |->
                      IF s \notin tradable THEN Legs[s]
                      ELSE IF s \in DOMAIN Legs THEN [Legs[s] EXCEPT !.shares = core(s)]
                      ELSE [shares |-> core(s), entry |-> bars.today[s].bar.open,
                            step |-> step, fees |-> fee(s)]],
                    sleeve |-> [s \in (DOMAIN held.sleeve \ tradable)
                                       \union {r \in tradable : sleeve(r) > 0} |->
                      IF s \in tradable THEN sleeve(s) ELSE held.sleeve[s]]]
        /\ trades' = trades \o SetToSeq(
             {RoundTrip(s, bars.today[s].bar.open, fee(s), "rebalance") : s \in left})
        /\ account' = [account EXCEPT !.force = target]
        /\ orders' = <<>>
  /\ UNCHANGED <<step, bars, life>>

-----------------------------------------------------------------------------
(* A final bar is an exit, and so is leaving the index.                    *)

StopsTrading(s) == life[s] = step /\ step < Steps

LeavesIndex(s) ==
  /\ HasTable /\ step < Steps
  /\ Admits(bars.today, s) /\ ~Admits(bars.ahead, s)

Leave ==
  LET out == {s \in DOMAIN Legs \union DOMAIN held.sleeve :
                Prints(s) /\ (StopsTrading(s) \/ LeavesIndex(s))}
      price(s) == bars.today[s].bar.close
      why(s) == IF StopsTrading(s) THEN "delisted" ELSE "left_universe"
  IN /\ phase = "leave" /\ phase' = "decide"
     /\ trades' = trades \o
          SetToSeq({RoundTrip(s, price(s), 0, why(s)) : s \in out \intersect DOMAIN Legs})
     /\ cash' = cash + SumOf([s \in out |->
          (CoreShares(s) + Have(held.sleeve, s)) * price(s)])
     /\ held' = [core |-> Without(Legs, out), sleeve |-> Without(held.sleeve, out)]
     /\ account' = [account EXCEPT
          !.force = [core |-> Without(@.core, out), sleeve |-> Without(@.sleeve, out)]]
     /\ UNCHANGED <<step, bars, life, orders>>

-----------------------------------------------------------------------------
(* The mark and the decision.                                              *)

\* Divided by hold and not by how many qualify; what the core leaves over
\* joins the sleeve, which is shared by every eligible name: sleeve.idle is
\* "benchmark".
Targets(chosen, eligible) ==
  LET n == Cardinality(eligible)
      k == Cardinality(chosen)
  IN [core |-> [s \in chosen |-> [num |-> Core, den |-> (Core + Sleeve) * Hold]],
      sleeve |-> [s \in eligible |-> [num |-> Sleeve * Hold + Core * (Hold - k),
                                      den |-> (Core + Sleeve) * Hold * n]]]

\* Whatever ranks highest of what is eligible: a name without a rank is not.
Decide ==
  /\ phase = "decide" /\ phase' = "bars"
  /\ account' = [account EXCEPT !.equity = cash + Marked]
  /\ IF (step - 1) % RebalanceEvery = 0 /\ step < Steps
     THEN \E eligible \in SUBSET {s \in Symbols :
               Admits(bars.today, s) /\ bars.ahead[s].bar # NoBar} :
            \E chosen \in SUBSET eligible :
              /\ Cardinality(chosen) = Hold
                   \/ (chosen = eligible /\ Cardinality(eligible) < Hold)
              /\ orders' = <<Targets(chosen, eligible)>>
     ELSE UNCHANGED orders
  /\ UNCHANGED <<step, bars, life, cash, held, trades>>

Next == NextBars \/ Fill \/ Leave \/ Decide

Spec == Init /\ [][Next]_vars

-----------------------------------------------------------------------------
(***************************************************************************)
(* "The position sits in the book at its final mark, contributing a flat,  *)
(* riskless, permanently profitable line for the rest of the run": between *)
(* two steps no name whose bars have stopped is held in either leg,        *)
(* however it came to be bought.  A target of which no share could be      *)
(* bought stays in force, and buys nothing.                                *)
(***************************************************************************)
NothingDelistedIsHeld ==
  phase = "bars" /\ step < Steps =>
    \A s \in DOMAIN Legs \union DOMAIN held.sleeve : life[s] > step
=============================================================================
