----------------------------- MODULE TriggerRun -----------------------------
(***************************************************************************)
(* aqr/backtest/engine.py, run_backtest: a rule that is triggered, held    *)
(* and stopped out, over the shared timeline of its universe.  A decision  *)
(* of one bar fills at the open of the symbol's next.  Money is whole      *)
(* units; signals and volume are whatever the series say.                  *)
(***************************************************************************)
EXTENDS Integers, FiniteSets, Functions

CONSTANTS
  Symbols, Rank,       \* the universe and its order
  NoBar,               \* a symbol that does not print
  Bars,                \* the bars a symbol may print: open, low, high, close
  Steps,               \* bound: the length of the timeline
  Funds,               \* initial_equity
  Slip, Fee, Borrow,   \* CostModel: per share, per order, per share and bar
  StopDistance,        \* the stop distance, when the series gives one
  Reward,              \* the target distance; 0 for a rule without a target
  MaxHolding, MaxPositions,
  Volumes,             \* the liquidity ceilings a bar may put on an order
  RiskShare, SizeShare, LossShare   \* 1/n: risk a trade, a position, the halt

VARIABLES
  phase, step,
  bars,       \* the bar each symbol prints at this step
  life,       \* the step of each symbol's final bar
  cash, held,
  orders,     \* the orders queued: a symbol, what it is to do, and the step of it
  trades,     \* the trades booked; a symbol has one of a reason at a step
  account     \* the last settled equity, its peak, halted, and last_price

vars == <<phase, step, bars, life, cash, held, orders, trades, account>>

Prints(s) == bars[s] # NoBar
Ends(s) == life[s] = step /\ step # Steps
SumOf(f) == SumFunction(f)

\* One timeline over the universe: some symbol prints at every step of it.
Init ==
  /\ phase = "bars" /\ step = 0
  /\ bars = [s \in Symbols |-> NoBar]
  /\ life \in [Symbols -> 1 .. Steps] /\ \E s \in Symbols : life[s] = Steps
  /\ cash = Funds /\ held = [s \in {} |-> 0] /\ orders = {} /\ trades = {}
  /\ account = [equity |-> Funds, peak |-> Funds, halted |-> FALSE,
                price |-> [s \in {} |-> 0]]

NextBars ==
  /\ phase = "bars" /\ step < Steps
  /\ step' = step + 1
  /\ bars' \in [Symbols -> Bars \union {NoBar}]
  /\ \E s \in Symbols : bars'[s] # NoBar
  /\ \A s \in Symbols : /\ step' = life[s] => bars'[s] # NoBar
                        /\ step' > life[s] => bars'[s] = NoBar
  /\ phase' = "exits"
  /\ UNCHANGED <<life, cash, held, orders, trades, account>>

-----------------------------------------------------------------------------
(* Exits.                                                                  *)

Sign(p) == IF p.long THEN 1 ELSE -1

Quote(at, why) == [at |-> at, why |-> why]
Stays == Quote(0, "stays")

\* _exit_quote: the stop is taken before the target, a gap fills at the open.
ExitQuote(p, b) ==
  LET up(x) == Sign(p) * x
      worst == IF p.long THEN b.low ELSE b.high
      best == IF p.long THEN b.high ELSE b.low
  IN IF up(b.open) <= up(p.stop) THEN Quote(b.open, "stop_gap")
     ELSE IF up(worst) <= up(p.stop) THEN Quote(p.stop, "stop")
     ELSE IF p.target = 0 THEN Stays
     ELSE IF up(b.open) >= up(p.target) THEN Quote(b.open, "target_gap")
     ELSE IF up(best) >= up(p.target) THEN Quote(p.target, "target")
     ELSE Stays

\* What closes a position at this bar, with the signal of the bar before.
Closing(s, signalled) ==
  LET quote == IF signalled THEN Quote(bars[s].open, "signal")
               ELSE IF held[s].age + 1 >= MaxHolding THEN Quote(bars[s].open, "max_holding")
               ELSE ExitQuote(held[s], bars[s])
  IN IF quote = Stays /\ Ends(s) THEN Quote(bars[s].close, "delisted") ELSE quote

\* _close: the other side of the book, a commission, and a short's borrow.
TradeOf(s, quote, age) ==
  LET p == held[s] IN
  [symbol |-> s, long |-> p.long, quantity |-> p.quantity, entry |-> p.entry,
   exit |-> quote.at - Sign(p) * Slip, why |-> quote.why, at |-> step, age |-> age,
   fees |-> p.fee + Fee + (IF p.long THEN 0 ELSE Borrow * p.quantity * age)]

GrossOf(t) == Sign(t) * t.quantity * (t.exit - t.entry)
NetOf(t) == GrossOf(t) - t.fees

\* What closing adds to the cash.
Proceeds(t, entryFee) == Sign(t) * t.quantity * t.exit - (t.fees - entryFee)

\* The quoted positions are closed, this bar counted in their age or not.
CloseAll(quotes, aged) ==
  LET done == [s \in DOMAIN quotes |-> TradeOf(s, quotes[s], held[s].age + aged)]
  IN /\ trades' = trades \union {done[s] : s \in DOMAIN quotes}
     /\ cash' = cash + SumOf([s \in DOMAIN quotes |-> Proceeds(done[s], held[s].fee)])

Exits ==
  /\ phase = "exits" /\ phase' = "fills"
  /\ \E signalled \in SUBSET {s \in DOMAIN held : Prints(s)} :
       LET quotes == [s \in {r \in DOMAIN held : Prints(r)} |-> Closing(s, s \in signalled)]
           gone == {s \in DOMAIN quotes : quotes[s] # Stays}
       IN /\ CloseAll([s \in gone |-> quotes[s]], 1)
          /\ held' = [s \in DOMAIN held \ gone |->
                        IF Prints(s) THEN [held[s] EXCEPT !.age = @ + 1] ELSE held[s]]
          /\ orders' = {o \in orders : ~(o.symbol \in gone /\ quotes[o.symbol].why = "delisted")}
  /\ UNCHANGED <<step, bars, life, account>>

-----------------------------------------------------------------------------
(* Fills.                                                                  *)

Smallest(S) == CHOOSE x \in S : \A y \in S : x <= y

\* _size: the risk sets the intent, and every ceiling can only shrink it.
SizeOf(o, fill, volume) ==
  LET cap == account.equity \div (SizeShare * fill)
      risk == account.equity \div (RiskShare * o.distance)
      own == IF o.long THEN {IF cash > 0 THEN cash \div fill ELSE 0} ELSE {}
  IN IF account.equity <= 0 THEN 0 ELSE Smallest({cap, risk, volume} \union own)

\* A queued order, in the order they were queued: at the symbol's next bar
\* it fills or it is dropped, and until then it waits.
Due == {o \in orders : Prints(o.symbol)}

Before(o, p) == o.queued < p.queued \/ (o.queued = p.queued /\ Rank[o.symbol] < Rank[p.symbol])

Fillable(o) ==
  /\ ~account.halted /\ o.symbol \notin DOMAIN held
  /\ Cardinality(DOMAIN held) < MaxPositions
  /\ o.distance > 0

Fill(o) ==
  LET quoted == bars[o.symbol].open
      sign == Sign(o)
      fill == quoted + sign * Slip
  IN /\ orders' = orders \ {o}
     /\ \E volume \in Volumes :
          LET quantity == SizeOf(o, fill, volume) IN
          IF Fillable(o) /\ quantity > 0
          THEN /\ cash' = cash - (sign * quantity * fill + Fee)
               /\ held' = [s \in DOMAIN held \union {o.symbol} |->
                    IF s \in DOMAIN held THEN held[s]
                    ELSE [long |-> o.long, quantity |-> quantity, entry |-> fill, fee |-> Fee,
                          stop |-> fill - sign * o.distance, age |-> 0,
                          target |-> IF Reward = 0 THEN 0 ELSE fill + sign * Reward]]
          ELSE UNCHANGED <<cash, held>>

Fills ==
  /\ phase = "fills"
  /\ \/ Due = {} /\ phase' = "decide" /\ UNCHANGED <<cash, held, orders>>
     \/ \E o \in Due : (\A p \in Due \ {o} : Before(o, p)) /\ Fill(o) /\ UNCHANGED phase
  /\ UNCHANGED <<step, bars, life, trades, account>>

-----------------------------------------------------------------------------
(* Decisions, marks and the halt.                                          *)

MayQueue(s) ==
  /\ Prints(s) /\ step < life[s] /\ s \notin DOMAIN held
  /\ \A o \in orders : o.symbol # s

\* What the entry rules say of the symbols that may queue: a bar that is
\* both long and short is neither.
Decide ==
  /\ phase = "decide" /\ phase' = "mark"
  /\ \E fires \in SUBSET {s \in Symbols : MayQueue(s)}, long \in BOOLEAN,
        distance \in {0, StopDistance} :
       orders' = IF account.halted THEN orders
                 ELSE orders \union {[symbol |-> s, long |-> long, distance |-> distance,
                                      queued |-> step] : s \in fires}
  /\ UNCHANGED <<step, bars, life, cash, held, trades, account>>

\* mark: a symbol that does not print is carried at its last close.
PriceNow == [s \in DOMAIN held |-> IF Prints(s) THEN bars[s].close ELSE account.price[s]]

Worth(book, price) ==
  SumOf([s \in DOMAIN book |-> Sign(book[s]) * book[s].quantity * price[s]])

Settle(equity, peak, halted) ==
  account' = [equity |-> equity, peak |-> peak, halted |-> halted,
              price |-> [s \in DOMAIN held' |-> PriceNow[s]]]

MarkToMarket ==
  LET equity == cash + Worth(held, PriceNow)
      peak == IF equity > account.peak THEN equity ELSE account.peak
      breached == ~account.halted /\ (peak - equity) * LossShare > peak
      flat == {s \in DOMAIN held : Prints(s)}
  IN /\ phase = "mark"
     /\ phase' = IF step = Steps THEN "close" ELSE "bars"
     /\ IF breached
        THEN /\ orders' = {}
             /\ CloseAll([s \in flat |-> Quote(bars[s].close, "halt")], 0)
             /\ held' = [s \in DOMAIN held \ flat |-> held[s]]
             /\ Settle(cash' + Worth(held', PriceNow), peak, TRUE)
        ELSE /\ UNCHANGED <<cash, held, orders, trades>>
             /\ Settle(equity, peak, account.halted)
     /\ UNCHANGED <<step, bars, life>>

\* Whatever is still open is closed at its last close.
CloseOut ==
  /\ phase = "close" /\ phase' = "done"
  /\ CloseAll([s \in DOMAIN held |-> Quote(account.price[s], "end_of_data")], 0)
  /\ held' = [s \in {} |-> 0]
  /\ account' = [account EXCEPT !.equity = cash']
  /\ UNCHANGED <<step, bars, life, orders>>

Next == NextBars \/ Exits \/ Fills \/ Decide \/ MarkToMarket \/ CloseOut

Spec == Init /\ [][Next]_vars

-----------------------------------------------------------------------------
(***************************************************************************)
(* The module docstring and the last comment of run_backtest: the equity   *)
(* curve and the trade list describe the same run.  Whatever was opened,   *)
(* stopped, halted, delisted or carried over a gap, the equity last marked *)
(* is the funds, the net of the trades and the open positions.             *)
(***************************************************************************)
CurveMatchesTrades ==
  phase \in {"bars", "done"} =>
    account.equity = Funds + SumOf([t \in trades |-> NetOf(t)])
      + SumOf([s \in DOMAIN held |->
          Sign(held[s]) * held[s].quantity * (account.price[s] - held[s].entry) - held[s].fee])

(***************************************************************************)
(* A trade is priced where its bar traded, no better than its stop when    *)
(* the bar reached it, and never on the bar it was entered, unless the run *)
(* itself ended or halted there.                                           *)
(***************************************************************************)
ExitsArePriced ==
  \A t \in trades :
    LET quoted == t.exit + Sign(t) * Slip
    IN /\ t.at = step /\ t.why # "end_of_data" =>
            bars[t.symbol].low <= quoted /\ quoted <= bars[t.symbol].high
       /\ t.why = "target" /\ t.at = step =>
            IF t.long THEN bars[t.symbol].low > t.entry - StopDistance
                      ELSE bars[t.symbol].high < t.entry + StopDistance
       /\ t.age = 0 => t.why \in {"halt", "end_of_data"}
=============================================================================
