---------------------------- MODULE OptionsEntry ----------------------------
(***************************************************************************)
(* The options agent from its book to an order: what gather reads and      *)
(* builds (live/wiring.py, agent/candidates.py, agent/exits.py), the slot  *)
(* that uses it (agent/runner.py, agent/cycle.py) and the Gate in between  *)
(* (risk).  Orders fill when the broker likes; the journal hears of it at  *)
(* the next reconciliation of the same day; the process may die and start  *)
(* again.  OptionsSession has the same agent with the journal, the door    *)
(* and the kill switch in detail and without the money.                    *)
(***************************************************************************)
EXTENDS Integers, Sequences, FiniteSets, Functions

CONSTANTS
  Days, SlotsPerDay, FullSlots,   \* the calendar, and the slots that may open
  Quoted,                         \* the structures a chain may quote
  NoGreeks,                       \* the delta of a structure nobody computed
  Allocation,                     \* of the sleeve
  TradePct, HeatPct, UnderlyingPct, DrawdownPct,
  DeltaLow, DeltaHigh,            \* the band, per unit of equity
  MaxStructures, MaxDaily, SpreadPct, MaxAge, DteLow, DteHigh,   \* RiskLimits
  ShortlistPct,                   \* SHORTLIST_SPREAD_PCT
  Spacing, MaxConcurrent,         \* cadence and sizing of the pinned rule
  ProfitPct, StopPct, MinDte,     \* ExitPolicy
  Thinking,                       \* bound: what a model call may take
  MaxRestarts                     \* bound: deaths of the process

\* A structure has a largest loss that is positive (options/risk.py,
\* StructureRisk); the limits are shares of an equity.
ASSUME EntryAssumption ==
  /\ SlotsPerDay \in Nat \ {0} /\ Days \in Nat
  /\ \A q \in Quoted :
       /\ q.loss \in Nat \ {0} /\ q.profit \in Nat /\ q.delta \in Int \union {NoGreeks}
       /\ q.spread \in Nat /\ q.age \in Nat /\ q.dte \in Int
  /\ Allocation \in Nat
  /\ {TradePct, HeatPct, UnderlyingPct, DrawdownPct} \subseteq Nat \ {0}
  /\ {DeltaLow, DeltaHigh} \subseteq Int
  /\ {MaxStructures, MaxDaily, SpreadPct, MaxAge, DteLow, DteHigh, Spacing} \subseteq Nat

VARIABLES
  clock,      \* the slot that has come
  agent,      \* the process: its stage, its peak_equity and its restarts
  state,      \* journal/state.json: the peak on disk; 0 for none
  inputs,     \* CycleInputs and the snapshot behind them
  book,       \* every entry made, at the broker and in the journal
  days,       \* the days the journal holds a file for
  top         \* history: the highest equity a process has read

vars == <<clock, agent, state, inputs, book, days, top>>

Day(slot) == (slot - 1) \div SlotsPerDay + 1
MayOpen(slot) == (slot - 1) % SlotsPerDay < FullSlots
Nothing == [equity |-> 0, peak |-> 0, risk |-> 0, on |-> <<>>, open |-> 0, delta |-> 0,
            fills |-> 0, menu |-> {}, block |-> FALSE]

Init ==
  /\ clock = 0
  /\ agent = [pc |-> "waiting", peak |-> 0, restarts |-> 0]
  /\ state = 0 /\ inputs = Nothing /\ book = <<>> /\ days = {} /\ top = 0

-----------------------------------------------------------------------------
(* The book a slot reads.                                                  *)

AtBroker(p) == p.at \in {"held", "closing", "stuck"}

\* open_positions: what the journal knows to be filled and the broker holds.
Known == {i \in DOMAIN book : AtBroker(book[i]) /\ book[i].told}

LossOf(S) == SumFunctionOnSet([i \in S |-> book[i].of.loss * book[i].quantity], S)
DeltaOf(S) == SumFunctionOnSet([i \in S |-> book[i].of.delta * book[i].quantity], S)
On(S, u) == {i \in S : book[i].of.under = u}

\* realised_pl: the sum of outcome.realised_pl, which no caller of
\* outcome_from gives and nothing else writes.
RealisedPl == 0

WorthOf(S) == SumFunctionOnSet([i \in S |-> book[i].mark * book[i].quantity], S)

\* Sleeve.equity: the marks are those of every leg, known or not.
Equity ==
  LET worth == Allocation + RealisedPl + WorthOf({i \in DOMAIN book : AtBroker(book[i])})
  IN IF worth > 0 THEN worth ELSE 0

FillsOn(day) ==
  Cardinality({i \in DOMAIN book : book[i].told /\ book[i].day = day})
    + Cardinality({i \in DOMAIN book : book[i].cleared /\ book[i].sent = day})

\* Mutant: an entry that still works at the broker is not one yet.
FilledEntryDays == {book[i].day : i \in {j \in DOMAIN book : book[j].told}}

\* last_entry_day counts what is submitted and what is filled.
EntryDays == {book[i].day : i \in DOMAIN book}

\* _entry_block and entry_refusal, of the book before the exits of the slot.
EntryBlock(today) ==
  \/ Cardinality(Known) >= MaxConcurrent
  \/ /\ EntryDays # {}
     /\ Cardinality({d \in days : d <= today /\ \A e \in EntryDays : e < d}) < Spacing

-----------------------------------------------------------------------------
(* The menu.                                                               *)

\* Mutant: the size is rounded up.
SizedUp(q, equity) == (TradePct * equity) \div (100 * q.loss) + 1

\* size_for
SizeFor(q, equity) == (TradePct * equity) \div (100 * q.loss)

InBand(delta, equity) == DeltaLow * equity <= delta /\ delta <= DeltaHigh * equity

\* build_candidates: what may be chosen; rank and length only cut it.
OnMenu(q, equity) ==
  /\ q.age <= MaxAge
  /\ q.spread <= ShortlistPct
  /\ DteLow <= q.dte /\ q.dte <= DteHigh
  /\ SizeFor(q, equity) > 0
  /\ q.delta = NoGreeks \/ InBand(DeltaOf(Known) + q.delta * SizeFor(q, equity), equity)

-----------------------------------------------------------------------------
(* The Gate.                                                               *)

\* Sleeve.drawdown and drawdown_killswitch, of the peak before this reading.
InDrawdown ==
  inputs.equity < inputs.peak
    /\ 100 * (inputs.peak - inputs.equity) >= DrawdownPct * inputs.peak

\* The checks an order of n fails, late being what passed since its quotes
\* were read: of the order alone, of the order in the book, of the day.
OrderFails(q, n, late) ==
  {c \in {"defined_risk", "known_greeks", "fresh_quotes", "per_trade_loss"} :
    CASE c = "defined_risk" -> q.loss <= 0
      [] c = "known_greeks" -> q.delta = NoGreeks
      [] c = "fresh_quotes" -> q.age + late > MaxAge
      [] c = "per_trade_loss" -> 100 * q.loss * n > TradePct * inputs.equity}

BookFails(q, n) ==
  {c \in {"portfolio_heat", "position_count", "underlying_concentration", "net_delta_budget"} :
    CASE c = "portfolio_heat" -> 100 * (inputs.risk + q.loss * n) > HeatPct * inputs.equity
      [] c = "position_count" -> inputs.open >= MaxStructures
      [] c = "underlying_concentration" ->
           100 * (inputs.on[q.under] + q.loss * n) > UnderlyingPct * inputs.equity
      [] c = "net_delta_budget" ->
           q.delta = NoGreeks \/ ~InBand(inputs.delta + q.delta * n, inputs.equity)}

DayFails(q) ==
  {c \in {"liquidity", "expiry_window", "drawdown_killswitch", "daily_trade_cap"} :
    CASE c = "liquidity" -> q.spread > SpreadPct
      [] c = "expiry_window" -> ~(DteLow <= q.dte /\ q.dte <= DteHigh)
      [] c = "drawdown_killswitch" -> InDrawdown
      [] c = "daily_trade_cap" -> inputs.fills >= MaxDaily}

\* run_all: every check, each time.
Fails(q, n, late) == OrderFails(q, n, late) \union BookFails(q, n) \union DayFails(q)

\* run_cycle is given the slot's own time for both instants, however long the
\* model took.
Elapsed(late) == 0

Approved(q, n, late) == Fails(q, n, Elapsed(late)) = {}

-----------------------------------------------------------------------------
(* A slot.                                                                 *)

\* evaluate_exit: the profit target, the stop, the days left, in this order.
Due(p, today) ==
  \/ 100 * p.mark >= ProfitPct * p.of.profit
  \/ 100 * p.mark <= -StopPct * p.of.profit
  \/ p.of.dte - (today - p.day) <= MinDte

\* Mutant: the mark is raised in the process and not saved.
ObserveInProcess(equity) ==
  /\ agent' = [agent EXCEPT !.pc = "gathered", !.peak = IF equity > @ THEN equity ELSE @]
  /\ UNCHANGED state

\* SessionState.observe
Observe(equity) ==
  /\ agent' = [agent EXCEPT !.pc = "gathered", !.peak = IF equity > @ THEN equity ELSE @]
  /\ state' = IF equity > agent.peak THEN equity ELSE state

\* The day orders of a day are done with before the next one.
Working == {i \in DOMAIN book : book[i].at \in {"working", "closing"}}
Overnight == Day(clock + 1) # Day(clock)

Comes ==
  /\ agent.pc = "waiting" /\ clock < Days * SlotsPerDay
  /\ Overnight => Working = {}
  /\ clock' = clock + 1

\* A read of the slot fails, or there is no equity to make a snapshot of.
GatherFails ==
  /\ Comes
  /\ UNCHANGED <<agent, state, inputs, book, days, top>>

\* What a slot reads: the snapshot, the menu and the block, of one moment.
Inputs(today) ==
  [equity |-> Equity, peak |-> agent.peak, risk |-> LossOf(Known),
   on |-> [u \in {q.under : q \in Quoted} |-> LossOf(On(Known, u))],
   open |-> Cardinality(Known), delta |-> DeltaOf(Known), fills |-> FillsOn(today),
   menu |-> {q \in Quoted : OnMenu(q, Equity)}, block |-> EntryBlock(today)]

\* _exit_cycles: each position that is managed and could be priced, past a
\* Gate that waives for an exit whatever it fails.
Exits(priced, today) ==
  LET closes == {i \in priced : book[i].at = "held" /\ Due(book[i], today)} IN
  /\ book' = [i \in DOMAIN book |->
                IF i \in closes THEN [book[i] EXCEPT !.at = "closing", !.sent = today]
                ELSE book[i]]
  /\ days' = IF closes = {} THEN days ELSE days \union {today}

\* gather: the book and the menu of it, and then the exits.
Gather ==
  LET today == Day(clock + 1) IN
  /\ Comes
  /\ Equity > 0
  /\ Observe(Equity)
  /\ top' = IF Equity > top THEN Equity ELSE top
  /\ inputs' = Inputs(today)
  /\ \E priced \in SUBSET Known : Exits(priced, today)

\* The reconciler reads the file of the day; the exits of the slot are
\* appended before the slot may open.
Reconcile ==
  /\ agent.pc = "gathered"
  /\ book' = [i \in DOMAIN book |->
                [book[i] EXCEPT
                   !.told = @ \/ (book[i].day = Day(clock)
                                   /\ book[i].at \in {"held", "closing", "closed"}),
                   !.cleared = @ \/ (book[i].sent = Day(clock) /\ book[i].at = "closed")]]
  /\ agent' = [agent EXCEPT !.pc = IF MayOpen(clock) THEN "choosing" ELSE "waiting"]
  /\ inputs' = IF MayOpen(clock) THEN inputs ELSE Nothing
  /\ UNCHANGED <<clock, state, days, top>>

Settle ==
  /\ agent.pc = "choosing"
  /\ agent' = [agent EXCEPT !.pc = "waiting"]
  /\ days' = days \union {Day(clock)}
  /\ inputs' = Nothing
  /\ UNCHANGED <<clock, state, top>>

\* run_cycle: blocked, no setup, no candidate, declined, or vetoed.
StandAside == Settle /\ UNCHANGED book

\* run_cycle: the model's choice, the Gate, and the order.
Submit(q, late, filled) ==
  LET n == SizeFor(q, inputs.equity) IN
  /\ Settle
  /\ ~inputs.block
  /\ q \in inputs.menu
  /\ Approved(q, n, late)
  /\ book' = Append(book, [of |-> q, quantity |-> n, day |-> Day(clock), mark |-> 0,
                           at |-> IF filled THEN "held" ELSE "working", told |-> filled,
                           sent |-> 0, cleared |-> FALSE])

Choose == \E q \in inputs.menu, late \in 0 .. Thinking, filled \in BOOLEAN : Submit(q, late, filled)

-----------------------------------------------------------------------------
(* The broker, the market and the process.                                 *)

\* An order that works fills, a close at the mark of the moment.
Fill(i) ==
  /\ i \in Working
  /\ book' = [book EXCEPT ![i].at = IF @ = "working" THEN "held" ELSE "closed"]
  /\ UNCHANGED <<clock, agent, state, inputs, days, top>>

\* Day orders that have not filled when their day is over.  The line of such
\* a close stays at submitted, working_closes counts it, and the position is
\* never managed again.
Expires ==
  /\ Overnight /\ agent.pc \in {"waiting", "down"}
  /\ Working # {}
  /\ book' = [i \in DOMAIN book |->
                CASE book[i].at = "working" -> [book[i] EXCEPT !.at = "dead"]
                  [] book[i].at = "closing" -> [book[i] EXCEPT !.at = "stuck"]
                  [] OTHER -> book[i]]
  /\ UNCHANGED <<clock, agent, state, inputs, days, top>>

\* The mark of a held structure lies between what it can lose and make.
Marks(i) ==
  /\ AtBroker(book[i])
  /\ \E m \in {-book[i].of.loss, 0, book[i].of.profit} :
       m # book[i].mark /\ book' = [book EXCEPT ![i].mark = m]
  /\ UNCHANGED <<clock, agent, state, inputs, days, top>>

Market == \E i \in DOMAIN book : Fill(i) \/ Marks(i)

Dies ==
  /\ agent.pc # "down" /\ agent.restarts < MaxRestarts
  /\ agent' = [pc |-> "down", peak |-> 0, restarts |-> agent.restarts + 1]
  /\ inputs' = Nothing
  /\ UNCHANGED <<clock, state, book, days, top>>

\* SessionState.load
Load ==
  /\ agent.pc = "down"
  /\ agent' = [agent EXCEPT !.pc = "waiting", !.peak = state]
  /\ UNCHANGED <<clock, state, inputs, book, days, top>>

Next ==
  \/ GatherFails \/ Gather \/ Reconcile \/ StandAside \/ Choose
  \/ Market \/ Expires \/ Dies \/ Load

Spec == Init /\ [][Next]_vars
=============================================================================
