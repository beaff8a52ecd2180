---------------------------- MODULE OptionChain -----------------------------
(***************************************************************************)
(* Which contracts a rule names on one session's ladder, and what the      *)
(* position they make can lose: aqr/options/chain.py, structure.py and     *)
(* build_structure of engine.py.  A chain is a set of quotes; expiry is in *)
(* days from the session, delta a magnitude in hundredths, and prices are  *)
(* whole units.                                                            *)
(***************************************************************************)
EXTENDS Integers, FiniteSets, Functions, SequencesExt

Distance(x, y) == IF x < y THEN y - x ELSE x - y

\* Lexicographic order of two pairs.
Before(a, b) == a[1] < b[1] \/ (a[1] = b[1] /\ a[2] < b[2])

\* A member no other comes before, by a key that is a pair.
First(S, key) == CHOOSE x \in S : \A y \in S : ~Before(key[y], key[x])

Sellable(q) == q.bid > 0

-----------------------------------------------------------------------------
(* Selection: it refuses rather than approximates, and every tie has a     *)
(* winner.  A refusal is the empty set.                                    *)

\* _expiry_for: nearest the target, the earlier of two as near.
ExpiryFor(chain, right, dte) ==
  LET near == {q.dte : q \in {r \in chain : /\ r.right = right
                                            /\ Distance(r.dte, dte.target) <= dte.tolerance}}
  IN IF near = {} THEN {}
     ELSE {First(near, [e \in near |-> <<Distance(e, dte.target), e>>])}

\* select: nearest the delta, the lower of two strikes as near; a leg to be
\* sold is looked for among those that have a bid.
Select(chain, right, dte, anchor, sold) ==
  LET near == {q \in chain : /\ q.right = right
                             /\ q.dte \in ExpiryFor(chain, right, dte)
                             /\ sold => Sellable(q)
                             /\ Distance(q.delta, anchor.delta) <= anchor.tolerance}
  IN IF near = {} THEN {}
     ELSE {First(near, [q \in near |-> <<Distance(q.delta, anchor.delta), q.strike>>])}

\* _is_protective: the side that caps the loss.
IsProtective(q, short) ==
  IF short.right = "put" THEN q.strike < short.strike ELSE q.strike > short.strike

\* select_wing_by_delta and select_wing, by whichever the rule names.
Wing(chain, short, anchor) ==
  LET side == {q \in chain : /\ q.right = short.right /\ q.dte = short.dte
                             /\ IsProtective(q, short)}
      near == {q \in side : Distance(q.delta, anchor.byDelta) <= anchor.tolerance}
      key == [q \in near |-> <<Distance(q.delta, anchor.byDelta), Distance(q.strike, short.strike)>>]
  IN IF anchor.byDelta = 0
     THEN {q \in side : Distance(q.strike, short.strike) = anchor.byPoints}
     ELSE IF near = {} THEN {} ELSE {First(near, key)}

\* delta_implied_spot: the median over expiries of the call nearest the money.
ImpliedSpot(chain) ==
  LET calls(e) == {q \in chain : q.right = "call" /\ q.dte = e}
      atm(e) == First(calls(e), [q \in calls(e) |-> <<Distance(q.delta, 50), q.strike>>])
      expiries == {e \in {q.dte : q \in chain} :
                     calls(e) # {} /\ Distance(atm(e).delta, 50) <= 15}
      ordered == SetToSortSeq(expiries, LAMBDA d, e : atm(d).strike < atm(e).strike)
      n == Len(ordered)
  IN IF n = 0 THEN {}
     ELSE {(atm(ordered[(n + 1) \div 2]).strike + atm(ordered[n \div 2 + 1]).strike) \div 2}

-----------------------------------------------------------------------------
(* A structure: its legs and its money.                                    *)

Leg(q, side) == [quote |-> q, side |-> side]
Sign(leg) == IF leg.side = "buy" THEN 1 ELSE -1
SumOf(f) == SumFunction(f)

\* Leg.cash: the full spread is crossed.
LegCash(leg) == IF leg.side = "sell" THEN leg.quote.bid ELSE -leg.quote.ask

EntryCash(legs) == SumOf([l \in legs |-> LegCash(l)])

Intrinsic(q, spot) ==
  LET inTheMoney == IF q.right = "call" THEN spot - q.strike ELSE q.strike - spot
  IN IF inTheMoney > 0 THEN inTheMoney ELSE 0

SettlementValue(legs, spot) == SumOf([l \in legs |-> Sign(l) * Intrinsic(l.quote, spot)])

\* Mutant: only the strikes are looked at, and the premium is forgotten.
LossWithoutPremium(legs) ==
  LET worst == CHOOSE v \in {SettlementValue(legs, l.quote.strike) : l \in legs} :
                 \A l \in legs : v <= SettlementValue(legs, l.quote.strike)
  IN IF worst < 0 THEN -worst ELSE 1

\* max_loss: the payoff has its kinks at the strikes, so it is worst at one
\* of them or at an end.
MaxLoss(legs) ==
  LET strikes == {l.quote.strike : l \in legs}
      top == CHOOSE k \in strikes : \A l \in strikes : l <= k
      spots == {0, 2 * top} \union strikes
      worst == CHOOSE v \in {EntryCash(legs) + SettlementValue(legs, x) : x \in spots} :
                 \A x \in spots : v <= EntryCash(legs) + SettlementValue(legs, x)
  IN IF worst < 0 THEN -worst ELSE 0

\* What Structure refuses of the legs build_structure can put together.
Defined(legs) ==
  /\ \A l, m \in legs : l.quote.dte = m.quote.dte
  /\ \A l \in legs : l.side = "sell" => Sellable(l.quote)
  /\ SumOf([l \in {m \in legs : m.quote.right = "call"} |-> Sign(l)]) >= 0
  /\ MaxLoss(legs) > 0

-----------------------------------------------------------------------------
(* build_structure: the anchor's right and side follow from the kind.      *)

AnchorOf(kind) ==
  CASE kind = "long_call"          -> <<"call", "buy">>
    [] kind = "long_put"           -> <<"put", "buy">>
    [] kind = "put_credit_spread"  -> <<"put", "sell">>
    [] kind = "call_credit_spread" -> <<"call", "sell">>
    [] kind = "put_debit_spread"   -> <<"put", "buy">>
    [] kind = "call_debit_spread"  -> <<"call", "buy">>

Other(side) == IF side = "buy" THEN "sell" ELSE "buy"

\* An anchor and, when the rule names a width, its wing: all of it or nothing.
Legs(chain, rule, right, side) ==
  LET anchor == rule[right] IN
  UNION {IF anchor.byDelta = 0 /\ anchor.byPoints = 0 THEN {Leg(q, side)}
         ELSE UNION {{Leg(q, side), Leg(w, Other(side))} :
                       w \in {v \in Wing(chain, q, anchor) : side = "buy" => Sellable(v)}}
         : q \in Select(chain, right, rule.dte, anchor, side = "sell")}

\* The legs of the structure a rule names, or none with the reason: the put
\* side of a condor is looked for first.
Build(chain, rule) ==
  LET rights == IF rule.kind = "iron_condor" THEN {"put", "call"} ELSE {AnchorOf(rule.kind)[1]}
      side == IF rule.kind = "iron_condor" THEN "sell" ELSE AnchorOf(rule.kind)[2]
      legs(r) == Legs(chain, rule, r, side)
      missing == {r \in rights : legs(r) = {}}
      blamed == IF "put" \in missing THEN "put" ELSE "call"
      all == UNION {legs(r) : r \in rights}
  IN IF missing # {}
     THEN [legs |-> {}, why |-> IF ExpiryFor(chain, blamed, rule.dte) = {}
                                THEN "no_expiry_in_band" ELSE "no_leg_or_wing"]
     ELSE IF ~Defined(all) THEN [legs |-> {}, why |-> "no_leg_or_wing"]
     ELSE [legs |-> all, why |-> "built"]
=============================================================================
