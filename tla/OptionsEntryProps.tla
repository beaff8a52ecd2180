------------------------- MODULE OptionsEntryProps --------------------------
(***************************************************************************)
(* What the limits of the options agent promise.                           *)
(***************************************************************************)
EXTENDS OptionsEntry

\* An opening order leaves the Gate.
Opens == Len(book') > Len(book)

\* What is at risk when it does: held, working at the broker, and the order
\* itself; without the entries of earlier days that filled after the last
\* reconciliation of their day, which no journal tells of.
Exposed ==
  {i \in DOMAIN book : /\ book[i].at = "working" \/ AtBroker(book[i])
                       /\ book[i].told \/ book[i].day = Day(clock)}

(***************************************************************************)
(* RiskLimits bound the book and not the snapshot: a snapshot counts only  *)
(* what the journal knew to be filled when the slot gathered, and an order *)
(* still working is in nobody's heat.  The cadence covers for it: with     *)
(* every order filled the book stays within the heat and the count that    *)
(* the equity of the slot allowed, and what it has on the underlying of    *)
(* the order within the concentration.                                     *)
(***************************************************************************)
HeatHolds ==
  [][Opens =>
       /\ 100 * LossOf(Exposed)' <= HeatPct * inputs.equity
       /\ 100 * LossOf(On(Exposed, book[Len(book)].of.under))' <= UnderlyingPct * inputs.equity
       /\ Cardinality(Exposed)' <= MaxStructures]_vars

(***************************************************************************)
(* The kill switch measures from the highest equity any process has read,  *)
(* whichever of them read it and whether that was its last act: no order   *)
(* opens at or below the drawdown limit from it.                           *)
(***************************************************************************)
DrawdownRemembersPeak ==
  [][Opens => 100 * (top - inputs.equity) < DrawdownPct * top]_vars

(***************************************************************************)
(* "The menu must not rank the Gate's refusals to the top": what is on the *)
(* menu is never refused for its own size, window or age, nor, where its   *)
(* greeks are known, for its delta.                                        *)
(***************************************************************************)
MenuAgreesWithGate ==
  \A q \in inputs.menu :
    LET failed == Fails(q, SizeFor(q, inputs.equity), Elapsed(0)) IN
    /\ failed \intersect {"fresh_quotes", "per_trade_loss", "expiry_window"} = {}
    /\ "net_delta_budget" \in failed => q.delta = NoGreeks

(***************************************************************************)
(* specs/03, D6: "every kill switch measures the drawdown of its own       *)
(* sleeve", whose equity is its allocation, what it realised and what is   *)
(* unrealised.  With what earlier days realised, nothing opens once that   *)
(* is a drawdown whatever the rest may still earn.                         *)
(***************************************************************************)
KillSwitchCountsLosses ==
  [][LET settled == {i \in DOMAIN book : book[i].cleared /\ book[i].sent < Day(clock)}
         rest == {i \in DOMAIN book : AtBroker(book[i]) \/ book[i].at = "closed"} \ settled
     IN Opens => 100 * (Allocation
                   + WorthOf(settled)
                   + SumFunctionOnSet([i \in rest |-> book[i].of.profit * book[i].quantity], rest))
                 > (100 - DrawdownPct) * Allocation]_vars
=============================================================================
