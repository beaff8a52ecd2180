----------------------------- MODULE OptionRun ------------------------------
(***************************************************************************)
(* aqr/options/engine.py, run_option_backtest: a rule decides on the close *)
(* before its session's reference close, fills at the session's quotes and *)
(* holds to expiry.  The days of the bars and of the sessions are not the  *)
(* same days.  A multiplier of one, and no mark: the curve's cash only.    *)
(***************************************************************************)
EXTENDS OptionChain

CONSTANTS
  Rules,           \* the rules a run may be of: OptionSpec
  Chains,          \* the ladders a session may show
  Closes,          \* the closes of the underlying
  Steps,           \* bound: the last day of the calendar
  Calendars,       \* the sets of days that may have had a bar
  Boundary,        \* the first day nothing may settle on
  Funds, EntryFee, ItmFee,
  Staleness,       \* max_reference_staleness_days
  RiskShare,       \* 1/n: what one entry may risk of the realised equity
  MaxConcurrent, Cadence

(***************************************************************************)
(* What a quote, a rule and a calendar may be. A rule of the search waits  *)
(* for an expiry at most ten days off its target, of no less than eleven:  *)
(* nothing is entered on the day it expires (agent/option_proposer.py).    *)
(***************************************************************************)
Kinds == {"long_call", "long_put", "put_credit_spread", "call_credit_spread",
          "put_debit_spread", "call_debit_spread", "iron_condor"}

QuoteType == [dte : Nat, strike : Nat, right : {"put", "call"}, bid : Nat, ask : Nat, delta : Nat]
AnchorType == [delta : Nat, tolerance : Nat, byDelta : Nat, byPoints : Nat]
RuleType == [kind : Kinds, dte : [target : Nat, tolerance : Nat], put : AnchorType, call : AnchorType]

ASSUME RunAssumption ==
  /\ \A chain \in Chains : IsFiniteSet(chain) /\ chain \subseteq QuoteType
  /\ Rules \subseteq RuleType /\ \A r \in Rules : r.dte.tolerance < r.dte.target
  /\ Steps \in Nat \ {0} /\ Calendars \subseteq SUBSET (1 .. Steps) /\ Closes \subseteq Nat
  /\ {Boundary, Funds} \subseteq Int /\ {EntryFee, ItmFee, Staleness, MaxConcurrent, Cadence} \subseteq Nat
  /\ RiskShare \in Nat \ {0}

VARIABLES
  phase, step,     \* the day, and whether its bar or its session is next
  bars,            \* the days that have a bar
  life,            \* the rule
  cash,            \* the curve's cash
  held,            \* open positions, and the sessions seen and last entered
  orders,          \* the signals of the bar before the last one and of the last
  trades,          \* positions and trades are numbered by the session they were entered in
  account          \* realised equity, the last close and its day, why it skipped

runVars == <<phase, step, bars, life, cash, held, orders, trades, account>>
rule == life

RunInit ==
  /\ phase = "bar" /\ step = 1
  /\ bars \in Calendars
  /\ life \in Rules
  /\ cash = Funds
  /\ held = [open |-> {}, seen |-> 0, last |-> 0]
  /\ orders = <<FALSE, FALSE>>
  /\ trades = {}
  /\ account = [realised |-> Funds, close |-> 0, day |-> 0, skips |-> {}]

-----------------------------------------------------------------------------
(* Settlement, against the underlying's close.                             *)

ItmLegs(legs, close) == Cardinality({l \in legs : Intrinsic(l.quote, close) > 0})

\* What one position pays at expiry, fees of it apart.
Settlement(p, close) ==
  p.contracts * (SettlementValue(p.legs, close) - ItmFee * ItmLegs(p.legs, close))

\* _settlement_pnl.
SettlementPnl(p, close) ==
  p.contracts * EntryCash(p.legs) - p.fee + Settlement(p, close)

TradeOf(p, close) ==
  [entered |-> p.entered, legs |-> p.legs, contracts |-> p.contracts, expiry |-> p.expiry,
   decided |-> p.decided, filled |-> p.filled, fees |-> p.fee + p.contracts * ItmFee * ItmLegs(p.legs, close),
   gross |-> p.contracts * (EntryCash(p.legs) + SettlementValue(p.legs, close))]

\* A bar: its signal, and every position that expires on it is settled.
Bar ==
  /\ phase = "bar" /\ phase' = "session"
  /\ IF step \notin bars THEN UNCHANGED <<cash, held, orders, trades, account>>
     ELSE \E close \in Closes, signal \in BOOLEAN :
       LET due == {p \in held.open : p.expiry = step}
           paid == [p \in due |-> Settlement(p, close)]
           pnl == [p \in due |-> SettlementPnl(p, close)]
       IN /\ cash' = cash + SumOf(paid)
          /\ held' = [held EXCEPT !.open = @ \ due]
          /\ orders' = <<orders[2], signal>>
          /\ trades' = trades \union {TradeOf(p, close) : p \in due}
          /\ account' = [account EXCEPT !.realised = @ + SumOf(pnl), !.close = close, !.day = step]
  /\ UNCHANGED <<step, bars, life>>

-----------------------------------------------------------------------------
(* A session.                                                              *)

\* The day ends; the day after the last is not simulated.
Tomorrow == step' = step + 1 /\ phase' = IF step = Steps THEN "done" ELSE "bar"

Skip(why) ==
  /\ account' = [account EXCEPT !.skips = @ \union {why}]
  /\ held' = [held EXCEPT !.seen = @ + 1]
  /\ UNCHANGED <<cash, trades>>

\* Nothing recorded: no decision bar, no signal, too soon, or too many live.
Passes ==
  \/ Cardinality({d \in bars : d <= step}) < 2
  \/ ~orders[1]
  \/ held.last # 0 /\ held.seen + 1 - held.last < Cadence
  \/ Cardinality(held.open) >= MaxConcurrent

\* The greeks were computed against another spot: more than 5% away.
Inconsistent(chain) ==
  \E spot \in ImpliedSpot(chain) : 20 * Distance(spot, account.close) > account.close

\* What the realised equity may risk, over what one contract can lose.
Contracts(legs) == account.realised \div (RiskShare * MaxLoss(legs))

ExpiryOf(legs) == step + (CHOOSE l \in legs : TRUE).quote.dte

\* Why the entry is refused, in the order it is asked.
Refusal(chain) ==
  LET built == Build(chain, rule)
      legs == built.legs
  IN IF Inconsistent(chain) THEN "greek_consistency"
     ELSE IF legs = {} THEN built.why
     ELSE IF ExpiryOf(legs) >= Boundary THEN "embargo_refusal"
     ELSE IF ExpiryOf(legs) \notin bars THEN "stale_underlying"
     ELSE IF Contracts(legs) < 1 THEN "affordability"
     ELSE "none"

EntryFees(legs, n) == EntryFee * Cardinality(legs) * n

\* Mutant: the commission is remembered by the position and never paid.
EntryFlowGross(legs, n) == n * EntryCash(legs)

\* What an entry adds to the curve's cash.
EntryFlow(legs, n) == n * EntryCash(legs) - EntryFees(legs, n)

\* The last bar before the one whose close is the reference.
DecisionBar ==
  CHOOSE d \in bars : d < account.day /\ \A e \in bars : e < account.day => e <= d

Enter(chain) ==
  LET legs == Build(chain, rule).legs
      n == Contracts(legs)
  IN /\ held' = [open |-> held.open \union
                   {[entered |-> held.seen + 1, legs |-> legs, contracts |-> n,
                     fee |-> EntryFees(legs, n), expiry |-> ExpiryOf(legs), decided |-> DecisionBar,
                     filled |-> account.day, stake |-> account.realised]},
                 seen |-> held.seen + 1, last |-> held.seen + 1]
     /\ cash' = cash + EntryFlow(legs, n)
     /\ UNCHANGED <<trades, account>>

\* The session of a day that has one.
Session ==
  /\ phase = "session" /\ Tomorrow
  /\ \E chain \in Chains :
       IF account.day = 0 \/ step - account.day > Staleness THEN Skip("stale_underlying")
       ELSE IF Passes THEN /\ held' = [held EXCEPT !.seen = @ + 1]
                           /\ UNCHANGED <<cash, trades, account>>
       ELSE IF Refusal(chain) # "none" THEN Skip(Refusal(chain))
       ELSE Enter(chain)
  /\ UNCHANGED <<bars, life, orders>>

NoSession ==
  /\ phase = "session" /\ Tomorrow
  /\ UNCHANGED <<bars, life, cash, held, orders, trades, account>>

RunNext == Bar \/ Session \/ NoSession

RunSpec == RunInit /\ [][RunNext]_runVars

-----------------------------------------------------------------------------
(***************************************************************************)
(* The curve and the trades are built by two functions that settle the     *)
(* same positions: the curve's cash is the realised equity and the premium *)
(* of what is open, realised is the net of the trades, and at the end      *)
(* nothing is open.                                                        *)
(***************************************************************************)
CurveMatchesTrades ==
  /\ account.realised = Funds + SumOf([t \in trades |-> t.gross - t.fees])
  /\ cash = account.realised + SumOf([p \in held.open |-> p.contracts * EntryCash(p.legs) - p.fee])
  /\ phase = "done" => held.open = {}

(***************************************************************************)
(* A position is what the rule was allowed: no more at risk than its share *)
(* of the realised equity it was sized on, whatever close it settles at,   *)
(* decided before the close it is filled against, and over before the      *)
(* boundary.                                                               *)
(***************************************************************************)
RiskIsDefined ==
  /\ \A p \in held.open :
       /\ RiskShare * p.contracts * MaxLoss(p.legs) <= p.stake
       /\ \A close \in Closes :
            EntryCash(p.legs) + SettlementValue(p.legs, close) >= -MaxLoss(p.legs)
       /\ p.decided < p.filled /\ p.filled <= step /\ p.expiry < Boundary
  /\ \A t \in trades : t.gross >= -t.contracts * MaxLoss(t.legs)
  /\ Cardinality(held.open) <= MaxConcurrent
=============================================================================
