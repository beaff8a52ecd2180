------------------------------ MODULE LabProofs ------------------------------
(***************************************************************************)
(* Theorems about what the research does apart from its ledger.            *)
(*                                                                         *)
(* The backtest of an option rule, for any rules, chains, closes, fees and *)
(* calendars.  LossIsBounded is of the payoffs: what legs of one expiry    *)
(* and one strike width settle for never costs more than the loss they     *)
(* were sized by.  RunInv is of the run: every position is entered once,   *)
(* on a bar after the one it was decided on, and expires on a bar that is  *)
(* to come, so every one is settled; cash is the premiums of what is open  *)
(* and the results of what is over.                                        *)
(*                                                                         *)
(* The backtests of shares, for any bars, universe, costs and ceilings.    *)
(* TriggerInv is of a triggered rule: what is held has a price, and a      *)
(* symbol is closed once for a reason at a step, so no trade is lost among *)
(* those booked.  PortfolioInv is of a ranked book: its names' bars last.  *)
(*                                                                         *)
(* The search for a rule, for any answers and any library without a pair   *)
(* of templates that are one rule.  SearchInv is of what came out: which   *)
(* template a rule of the library was, that a mutation follows its parent, *)
(* and that the versions given of a name are the ones counted.             *)
(*                                                                         *)
(* The walk forward, for any series and splits, of a rule that is ranked   *)
(* no sooner than its screen is warm.  WalkInv is of the folds so far: the *)
(* curves chained end before the next test begins.                         *)
(*                                                                         *)
(* The roots research reads, for any number of processes, any embargo, and *)
(* deaths inside any write.  SealInv is of the certificates alone: it      *)
(* needs that a process which searched is one a promotion refuses.         *)
(* KeptInv is of the files: the vendor's file only grows, as long as it    *)
(* ends where the vendor did, and what a command holds between two writes  *)
(* is in it.                                                               *)
(***************************************************************************)
EXTENDS DataRoots, Backtests, Proposals, WalkForward, SumTheorems, TLAPS

(***************************************************************************)
(* What a position can lose. Between two strikes that have none between    *)
(* them its value is a straight line, and above the highest a line that    *)
(* does not fall; so what it loses anywhere it loses at a strike, or at    *)
(* zero, and MaxLoss looks at all of those.                                *)
(***************************************************************************)
LegType == [quote : QuoteType, side : {"buy", "sell"}]

\* Legs a position may be made of.
Held(legs) == legs \subseteq LegType /\ IsFiniteSet(legs) /\ legs # {}

Value(legs, x) == [l \in legs |-> Sign(l) * Intrinsic(l.quote, x)]
Slope(l, a, b) ==
  IF l.quote.right = "call" /\ l.quote.strike <= a THEN 1
  ELSE IF l.quote.right = "put" /\ b <= l.quote.strike THEN -1 ELSE 0
Slopes(legs, a, b) == [l \in legs |-> Sign(l) * Slope(l, a, b)]

LEMMA LegParts ==
  ASSUME NEW l \in LegType
  PROVE  /\ l.quote \in QuoteType /\ l.quote.strike \in Nat /\ l.quote.dte \in Nat
         /\ l.quote.bid \in Nat /\ l.quote.ask \in Nat /\ l.quote.right \in {"put", "call"}
         /\ Sign(l) \in {-1, 1} /\ LegCash(l) \in Int
BY DEF LegType, QuoteType, Sign, LegCash

LEMMA IntrinsicIsNatural ==
  ASSUME NEW l \in LegType, NEW x \in Nat
  PROVE  Intrinsic(l.quote, x) \in Nat /\ Sign(l) * Intrinsic(l.quote, x) \in Int
BY LegParts DEF Intrinsic

LEMMA MoneyIsWhole ==
  ASSUME NEW legs, Held(legs), NEW x \in Nat
  PROVE  /\ EntryCash(legs) \in Int /\ SettlementValue(legs, x) \in Int
         /\ SettlementValue(legs, x) = SumFunctionOnSet(Value(legs, x), legs)
<1>1. EntryCash(legs) = SumFunctionOnSet([l \in legs |-> LegCash(l)], legs)
  BY DEF EntryCash, SumOf, SumFunction
<1>2. \A l \in legs : [k \in legs |-> LegCash(k)][l] \in Int
  BY LegParts DEF Held
<1>3. EntryCash(legs) \in Int
  BY <1>1, <1>2, SumIsInteger DEF Held
<1>4. SettlementValue(legs, x) = SumFunctionOnSet(Value(legs, x), legs)
  BY DEF SettlementValue, SumOf, SumFunction, Value
<1>5. \A l \in legs : Value(legs, x)[l] \in Int
  BY IntrinsicIsNatural DEF Held, Value
<1> QED BY <1>3, <1>4, <1>5, SumIsInteger DEF Held

LEMMA LegIsALine ==
  ASSUME NEW l \in LegType, NEW a \in Nat, NEW b \in Nat, NEW c \in a..b,
         l.quote.strike <= a \/ b <= l.quote.strike
  PROVE  /\ Slope(l, a, b) \in {-1, 0, 1}
         /\ Intrinsic(l.quote, c) = Intrinsic(l.quote, a) + (c - a) * Slope(l, a, b)
<1>1. l.quote.strike \in Nat /\ l.quote.right \in {"put", "call"} /\ c \in Nat /\ c - a \in Nat
  BY LegParts
<1>2. CASE l.quote.right = "call" /\ l.quote.strike <= a
  <2>1. Slope(l, a, b) = 1 /\ (c - a) * 1 = c - a
    BY <1>1, <1>2 DEF Slope
  <2> QED BY <1>1, <1>2, <2>1 DEF Intrinsic
<1>3. CASE l.quote.right = "call" /\ ~(l.quote.strike <= a)
  <2>1. Slope(l, a, b) = 0 /\ (c - a) * 0 = 0
    BY <1>1, <1>3 DEF Slope
  <2> QED BY <1>1, <1>3, <2>1 DEF Intrinsic
<1>4. CASE l.quote.right = "put" /\ b <= l.quote.strike
  <2>1. Slope(l, a, b) = -1 /\ (c - a) * (-1) = a - c
    BY <1>1, <1>4 DEF Slope
  <2> QED BY <1>1, <1>4, <2>1 DEF Intrinsic
<1>5. CASE l.quote.right = "put" /\ ~(b <= l.quote.strike)
  <2>1. Slope(l, a, b) = 0 /\ (c - a) * 0 = 0
    BY <1>1, <1>5 DEF Slope
  <2> QED BY <1>1, <1>5, <2>1 DEF Intrinsic
<1> QED BY <1>1, <1>2, <1>3, <1>4, <1>5

LEMMA ValueIsALine ==
  ASSUME NEW legs, Held(legs), NEW a \in Nat, NEW b \in Nat, NEW c \in a..b,
         \A l \in legs : l.quote.strike <= a \/ b <= l.quote.strike
  PROVE  /\ SumFunctionOnSet(Slopes(legs, a, b), legs) \in Int
         /\ SettlementValue(legs, c) =
              SettlementValue(legs, a) + (c - a) * SumFunctionOnSet(Slopes(legs, a, b), legs)
<1> DEFINE f == Value(legs, c)
           g == Value(legs, a)
           h == Slopes(legs, a, b)
           d == c - a
<1>1. c \in Nat /\ d \in Int /\ IsFiniteSet(legs)
  BY DEF Held
<1>2. ASSUME NEW l \in legs
      PROVE  g[l] \in Int /\ h[l] \in Int /\ f[l] = g[l] + d * h[l]
  <2>1. l \in LegType
    BY DEF Held
  <2>2. f[l] = Sign(l) * Intrinsic(l.quote, c) /\ g[l] = Sign(l) * Intrinsic(l.quote, a)
        /\ h[l] = Sign(l) * Slope(l, a, b)
    BY DEF Value, Slopes
  <2>3. /\ Slope(l, a, b) \in {-1, 0, 1}
        /\ Intrinsic(l.quote, c) = Intrinsic(l.quote, a) + d * Slope(l, a, b)
    BY <2>1, LegIsALine
  <2>4. Sign(l) \in {-1, 1} /\ Intrinsic(l.quote, a) \in Nat
    BY <2>1, LegParts, IntrinsicIsNatural
  <2> HIDE DEF f, g, h, d
  <2>5. CASE Slope(l, a, b) = 0
    BY <1>1, <2>2, <2>3, <2>4, <2>5
  <2>6. CASE Slope(l, a, b) = 1
    BY <1>1, <2>2, <2>3, <2>4, <2>6
  <2>7. CASE Slope(l, a, b) = -1
    BY <1>1, <2>2, <2>3, <2>4, <2>7
  <2> QED BY <2>3, <2>5, <2>6, <2>7
<1>3. SettlementValue(legs, c) = SumFunctionOnSet(f, legs) /\ SettlementValue(legs, a) = SumFunctionOnSet(g, legs)
  BY <1>1, MoneyIsWhole
<1> HIDE DEF f, g, h, d
<1>4. SumFunctionOnSet(f, legs) = SumFunctionOnSet(g, legs) + d * SumFunctionOnSet(h, legs)
  <2>1. \A l \in legs : g[l] \in Int /\ h[l] \in Int /\ f[l] = g[l] + d * h[l]
    BY <1>2
  <2> QED BY <1>1, <2>1, SumIsLinear
<1>5. SumFunctionOnSet(h, legs) \in Int
  <2>1. \A l \in legs : h[l] \in Int
    BY <1>2
  <2> QED BY <1>1, <2>1, SumIsInteger
<1> QED BY <1>3, <1>4, <1>5 DEF d, h

\* Above every strike the line is as steep as calls are bought over sold.
NetCalls(legs) == SumOf([l \in {m \in legs : m.quote.right = "call"} |-> Sign(l)])

LEMMA SlopeAbove ==
  ASSUME NEW legs, Held(legs), NEW a \in Nat, \A l \in legs : l.quote.strike <= a, NEW b \in Nat, b > a
  PROVE  SumFunctionOnSet(Slopes(legs, a, b), legs) = NetCalls(legs)
<1> DEFINE f == Slopes(legs, a, b)
           calls == {l \in legs : l.quote.right = "call"}
           puts == legs \ calls
           s == [l \in calls |-> Sign(l)]
<1>1. IsFiniteSet(calls) /\ IsFiniteSet(puts) /\ calls \intersect puts = {} /\ calls \union puts = legs
  BY FS_Subset DEF Held
<1>2. \A l \in legs : l \in LegType /\ Sign(l) \in Int /\ l.quote.strike \in Nat /\ l.quote.right \in {"put", "call"}
  BY LegParts DEF Held
<1>3. \A l \in legs : f[l] = Sign(l) * Slope(l, a, b)
  BY DEF Slopes
<1>4. \A l \in calls : f[l] = Sign(l)
  BY <1>2, <1>3 DEF Slope
<1>5. \A l \in puts : f[l] = 0
  BY <1>2, <1>3 DEF Slope
<1>6. SumFunctionOnSet(f, puts) = 0
  <2>1. \A l \in puts : f[l] \in Int /\ f[l] = f[l] + (-1) * f[l]
    BY <1>5
  <2>2. SumFunctionOnSet(f, puts) \in Int
    BY <1>1, <2>1, SumIsInteger
  <2> HIDE DEF f, puts
  <2>3. SumFunctionOnSet(f, puts) = SumFunctionOnSet(f, puts) + (-1) * SumFunctionOnSet(f, puts)
    BY <1>1, <2>1, SumIsLinear
  <2> QED BY <2>2, <2>3
<1>7. SumFunctionOnSet(f, calls) = NetCalls(legs)
  <2>1. \A l \in calls : f[l] \in Int /\ f[l] = s[l]
    BY <1>2, <1>4
  <2>2. NetCalls(legs) = SumFunctionOnSet(s, calls)
    BY DEF NetCalls, SumOf, SumFunction
  <2> HIDE DEF f, calls, s
  <2> QED BY <1>1, <2>1, <2>2, SumIsOfValues
<1>8. SumFunctionOnSet(f, calls) \in Int
  <2>1. \A l \in calls : f[l] \in Int
    BY <1>2, <1>4
  <2> HIDE DEF f, calls
  <2> QED BY <1>1, <2>1, SumIsInteger
<1>9. SumFunctionOnSet(f, calls \union puts) = SumFunctionOnSet(f, calls) + SumFunctionOnSet(f, puts)
  <2>1. \A l \in calls \union puts : f[l] \in Int
    BY <1>1, <1>2, <1>4, <1>5
  <2> HIDE DEF f, calls, puts
  <2> QED BY <1>1, <2>1, SumOfParts
<1> HIDE DEF f, calls, puts
<1> QED BY <1>1, <1>6, <1>7, <1>8, <1>9 DEF f

Payoff(legs, x) == EntryCash(legs) + SettlementValue(legs, x)
Strikes(legs) == {l.quote.strike : l \in legs}

LEMMA StrikesAreFinite ==
  ASSUME NEW legs, Held(legs)
  PROVE  /\ IsFiniteSet(Strikes(legs)) /\ Strikes(legs) \subseteq Nat /\ Strikes(legs) # {}
         /\ \E k \in Strikes(legs) : \A l \in Strikes(legs) : l <= k
<1> DEFINE f == [l \in legs |-> l.quote.strike]
<1>1. Strikes(legs) = {f[l] : l \in legs}
  BY DEF Strikes
<1>2. IsFiniteSet(Strikes(legs))
  <2>1. IsFiniteSet(legs)
    BY DEF Held
  <2> HIDE DEF f
  <2> QED BY <1>1, <2>1, ImageIsNoMore
<1>3. Strikes(legs) \subseteq Nat /\ Strikes(legs) # {}
  BY LegParts DEF Held, Strikes
<1>4. PICK bound \in Nat : Strikes(legs) \subseteq 0..bound
  BY <1>2, <1>3, FiniteIsBounded
<1>5. Max(Strikes(legs)) \in Strikes(legs) /\ \A n \in Strikes(legs) : n <= Max(Strikes(legs))
  BY <1>3, <1>4, GreatestNatural
<1> QED BY <1>2, <1>3, <1>5

\* Wherever it settles, it does no better at some strike or at zero.
LEMMA WorstIsAtAKink ==
  ASSUME NEW legs, Held(legs), NetCalls(legs) >= 0, NEW x \in Nat
  PROVE  \E k \in {0} \union Strikes(legs) : Payoff(legs, k) <= Payoff(legs, x)
<1>1. PICK top \in Strikes(legs) : \A l \in Strikes(legs) : l <= top
  BY StrikesAreFinite
<1>2. top \in Nat /\ \A l \in legs : l.quote.strike \in Nat /\ l.quote.strike \in Strikes(legs)
  BY StrikesAreFinite DEF Strikes
<1>3. EntryCash(legs) \in Int /\ \A c \in Nat : SettlementValue(legs, c) \in Int
  BY MoneyIsWhole
<1>4. CASE x >= top
  <2> DEFINE m == SumFunctionOnSet(Slopes(legs, top, x + 1), legs)
  <2>1. \A l \in legs : l.quote.strike <= top
    BY <1>1, <1>2
  <2>2. m = NetCalls(legs)
    BY <1>2, <1>4, <2>1, SlopeAbove
  <2>3. m \in Int /\ SettlementValue(legs, x) = SettlementValue(legs, top) + (x - top) * m
    BY <1>2, <1>4, <2>1, ValueIsALine
  <2> HIDE DEF m
  <2>4. (x - top) * m >= 0
    <3>1. x - top \in Nat /\ m \in Nat
      BY <1>2, <1>4, <2>2, <2>3
    <3> QED BY <3>1
  <2>5. (x - top) * m \in Int
    BY <1>2, <2>3
  <2>6. SettlementValue(legs, top) \in Int
    BY <1>2, <1>3
  <2>7. Payoff(legs, top) <= Payoff(legs, x)
    BY <1>3, <2>3, <2>4, <2>5, <2>6 DEF Payoff
  <2>8. top \in {0} \union Strikes(legs)
    BY <1>1
  <2> QED BY <2>7, <2>8
<1>5. CASE x < top
  <2> DEFINE Below == {k \in {0} \union Strikes(legs) : k <= x}
             Above == {k \in Strikes(legs) : x <= k}
  <2>1. Below \subseteq 0..x /\ 0 \in Below /\ Above \subseteq Nat /\ top \in Above
    BY <1>1, <1>2, <1>5, StrikesAreFinite
  <2> DEFINE a == Max(Below)
             b == Min(Above)
  <2>2. a \in Below /\ \A k \in Below : k <= a
    <3> HIDE DEF Below
    <3> QED BY <2>1, GreatestNatural
  <2>3. b \in Above /\ \A k \in Above : b <= k
    <3> HIDE DEF Above
    <3> QED BY <2>1, LeastNatural
  <2>4. a \in Nat /\ b \in Nat /\ x \in a..b /\ b \in a..b /\ a \in a..b
    BY <2>1, <2>2, <2>3
  <2>5. \A l \in legs : l.quote.strike <= a \/ b <= l.quote.strike
    BY <1>2, <2>2, <2>3
  <2>6. a \in {0} \union Strikes(legs) /\ b \in {0} \union Strikes(legs)
    BY <2>2, <2>3
  <2> DEFINE m == SumFunctionOnSet(Slopes(legs, a, b), legs)
  <2> HIDE DEF a, b
  <2>7. /\ m \in Int
        /\ SettlementValue(legs, x) = SettlementValue(legs, a) + (x - a) * m
        /\ SettlementValue(legs, b) = SettlementValue(legs, a) + (b - a) * m
    BY <2>4, <2>5, ValueIsALine
  <2> HIDE DEF m
  <2>8. SettlementValue(legs, a) \in Int /\ x - a \in Nat /\ b - x \in Nat
    BY <1>3, <2>4
  <2>9. (b - a) * m = (b - x) * m + (x - a) * m /\ (x - a) * m \in Int /\ (b - x) * m \in Int
    BY <2>4, <2>7
  <2>10. CASE m >= 0
    <3>1. (x - a) * m >= 0
      BY <2>7, <2>8, <2>10
    <3> QED BY <1>3, <2>6, <2>7, <2>8, <2>9, <3>1 DEF Payoff
  <2>11. CASE m < 0
    <3>1. (b - x) * m <= 0
      BY <2>7, <2>8, <2>11
    <3> QED BY <1>3, <2>6, <2>7, <2>8, <2>9, <3>1 DEF Payoff
  <2> QED BY <2>7, <2>10, <2>11
<1> QED BY <1>2, <1>4, <1>5

\* No settlement costs more than MaxLoss.
LEMMA LossIsBounded ==
  ASSUME NEW legs, Held(legs), NetCalls(legs) >= 0, NEW x \in Nat
  PROVE  MaxLoss(legs) \in Nat /\ EntryCash(legs) + SettlementValue(legs, x) >= -MaxLoss(legs)
<1> DEFINE strikes == Strikes(legs)
           top == CHOOSE k \in strikes : \A l \in strikes : l <= k
           spots == {0, 2 * top} \union strikes
           payoffs == {Payoff(legs, k) : k \in spots}
           worst == CHOOSE v \in payoffs : \A k \in spots : v <= Payoff(legs, k)
<1>1. top \in strikes /\ strikes \subseteq Nat /\ IsFiniteSet(strikes)
  BY StrikesAreFinite
<1> HIDE DEF strikes, top
<1>2. top \in Nat /\ spots \subseteq Nat /\ 0 \in spots
  BY <1>1
<1>3. IsFiniteSet(spots)
  <2>1. IsFiniteSet({}) /\ IsFiniteSet({} \union {0}) /\ IsFiniteSet(({} \union {0}) \union {2 * top})
    BY FS_EmptySet, FS_AddElement
  <2>2. {0, 2 * top} = ({} \union {0}) \union {2 * top}
    OBVIOUS
  <2> QED BY <1>1, <2>1, <2>2, FS_Union
<1>4. \A k \in Nat : Payoff(legs, k) \in Int
  BY MoneyIsWhole DEF Payoff
<1> HIDE DEF spots
<1>5. IsFiniteSet(payoffs) /\ payoffs \subseteq Int /\ payoffs # {}
  <2> DEFINE f == [k \in spots |-> Payoff(legs, k)]
  <2>1. payoffs = {f[k] : k \in spots}
    OBVIOUS
  <2>2. IsFiniteSet(payoffs)
    BY <1>3, <2>1, ImageIsNoMore
  <2> QED BY <1>2, <1>4, <2>2
<1>6. \E v \in payoffs : \A k \in spots : v <= Payoff(legs, k)
  <2>1. PICK v \in payoffs : \A u \in payoffs : v <= u
    <3> HIDE DEF payoffs
    <3> QED BY <1>5, LeastInteger
  <2> QED BY <2>1
<1>7. worst \in payoffs /\ \A k \in spots : worst <= Payoff(legs, k)
  BY <1>6
<1>8. worst \in Int
  BY <1>5, <1>7
<1>9. MaxLoss(legs) = IF worst < 0 THEN -worst ELSE 0
  BY DEF MaxLoss, Payoff, Strikes, spots, top, strikes
<1> HIDE DEF worst
<1>10. PICK k \in {0} \union strikes : Payoff(legs, k) <= Payoff(legs, x)
  BY WorstIsAtAKink DEF strikes
<1>11. worst <= Payoff(legs, k) /\ Payoff(legs, k) \in Int /\ Payoff(legs, x) \in Int
  BY <1>1, <1>2, <1>4, <1>7, <1>10 DEF spots
<1>12. worst <= EntryCash(legs) + SettlementValue(legs, x)
       /\ EntryCash(legs) + SettlementValue(legs, x) \in Int
  BY <1>8, <1>10, <1>11 DEF Payoff
<1> QED BY <1>8, <1>9, <1>12

(***************************************************************************)
(* A key that is a pair of naturals always has a first, so a selection     *)
(* names a member of what it looks among.                                  *)
(***************************************************************************)
LEMMA FirstIsThere ==
  ASSUME NEW S, S # {}, NEW key, \A x \in S : key[x][1] \in Nat /\ key[x][2] \in Nat
  PROVE  First(S, key) \in S
<1> DEFINE K == {key[x][1] : x \in S}
           m == Min(K)
           L == {key[x][2] : x \in {y \in S : key[y][1] = m}}
           n == Min(L)
<1>1. m \in K /\ \A k \in K : m <= k
  <2>1. K \subseteq Nat /\ K # {}
    OBVIOUS
  <2> HIDE DEF K
  <2> QED BY <2>1, LeastNatural
<1>2. m \in Nat
  BY <1>1
<1> HIDE DEF m
<1>3. n \in L /\ \A k \in L : n <= k
  <2>1. L \subseteq Nat /\ L # {}
    BY <1>1
  <2> HIDE DEF L
  <2> QED BY <2>1, LeastNatural
<1> HIDE DEF n
<1>4. PICK x \in S : key[x][1] = m /\ key[x][2] = n
  BY <1>3
<1>5. ASSUME NEW y \in S  PROVE ~Before(key[y], key[x])
  <2>1. m <= key[y][1] /\ (key[y][1] = m => n <= key[y][2])
    BY <1>1, <1>3
  <2> QED BY <1>2, <1>4, <2>1 DEF Before
<1> QED BY <1>4, <1>5 DEF First

LEMMA DistanceIsNatural ==
  ASSUME NEW x \in Nat, NEW y \in Nat  PROVE Distance(x, y) \in Nat
BY DEF Distance

LEMMA ExpiryIsOfTheBand ==
  ASSUME NEW board, board \subseteq QuoteType, NEW right, NEW dte, dte.target \in Nat,
         dte.tolerance \in Nat, dte.tolerance < dte.target, NEW e \in ExpiryFor(board, right, dte)
  PROVE  e \in Nat \ {0}
<1> DEFINE near == {q.dte : q \in {r \in board : /\ r.right = right
                                                 /\ Distance(r.dte, dte.target) <= dte.tolerance}}
           key == [d \in near |-> <<Distance(d, dte.target), d>>]
<1>1. \A d \in near : d \in Nat \ {0}
  BY DEF QuoteType, Distance
<1>2. \A d \in near : key[d][1] \in Nat /\ key[d][2] \in Nat
  BY <1>1, DistanceIsNatural
<1>3. near # {} /\ e = First(near, key)
  BY DEF ExpiryFor
<1>4. First(near, key) \in near
  <2> HIDE DEF near, key
  <2> QED BY <1>2, <1>3, FirstIsThere
<1> QED BY <1>1, <1>3, <1>4

LEMMA SelectedIsQuoted ==
  ASSUME NEW board, board \subseteq QuoteType, NEW right, NEW dte, dte.target \in Nat,
         dte.tolerance \in Nat, dte.tolerance < dte.target,
         NEW anchor \in AnchorType, NEW sold, NEW q \in Select(board, right, dte, anchor, sold)
  PROVE  q \in board /\ q.dte \in Nat \ {0}
<1> DEFINE near == {r \in board : /\ r.right = right
                                  /\ r.dte \in ExpiryFor(board, right, dte)
                                  /\ sold => Sellable(r)
                                  /\ Distance(r.delta, anchor.delta) <= anchor.tolerance}
           key == [r \in near |-> <<Distance(r.delta, anchor.delta), r.strike>>]
<1>1. \A r \in near : r \in QuoteType /\ r.delta \in Nat /\ r.strike \in Nat
  BY DEF QuoteType
<1>2. \A r \in near : key[r][1] \in Nat /\ key[r][2] \in Nat
  BY <1>1, DistanceIsNatural DEF AnchorType
<1>3. near # {} /\ q = First(near, key)
  <2>1. q \in IF near = {} THEN {} ELSE {First(near, key)}
    BY DEF Select
  <2> HIDE DEF near, key
  <2> QED BY <2>1
<1>4. First(near, key) \in near
  <2> HIDE DEF near, key
  <2> QED BY <1>2, <1>3, FirstIsThere
<1>5. q \in board /\ q.dte \in ExpiryFor(board, right, dte)
  BY <1>3, <1>4
<1> HIDE DEF near, key
<1> QED BY <1>5, ExpiryIsOfTheBand

LEMMA WingIsQuoted ==
  ASSUME NEW board, board \subseteq QuoteType, NEW short \in QuoteType,
         NEW anchor \in AnchorType, NEW w \in Wing(board, short, anchor)
  PROVE  w \in board /\ w.dte = short.dte
<1> DEFINE side == {q \in board : /\ q.right = short.right /\ q.dte = short.dte
                                  /\ IsProtective(q, short)}
           near == {q \in side : Distance(q.delta, anchor.byDelta) <= anchor.tolerance}
           key == [q \in near |-> <<Distance(q.delta, anchor.byDelta), Distance(q.strike, short.strike)>>]
<1>1. \A q \in near : q.delta \in Nat /\ q.strike \in Nat /\ short.strike \in Nat
  BY DEF QuoteType
<1>2. \A q \in near : key[q][1] \in Nat /\ key[q][2] \in Nat
  BY <1>1, DistanceIsNatural DEF AnchorType
<1>3. CASE anchor.byDelta = 0
  <2>1. w \in side
    BY <1>3 DEF Wing
  <2> QED BY <2>1
<1>4. CASE anchor.byDelta # 0
  <2>1. near # {} /\ w = First(near, key)
    BY <1>4 DEF Wing
  <2>2. First(near, key) \in near
    <3> HIDE DEF near, key
    <3> QED BY <1>2, <2>1, FirstIsThere
  <2> QED BY <2>1, <2>2
<1> QED BY <1>3, <1>4

LEMMA LegsAreQuoted ==
  ASSUME NEW board, board \subseteq QuoteType, NEW r \in RuleType, r.dte.tolerance < r.dte.target,
         NEW right \in {"put", "call"}, NEW side \in {"buy", "sell"},
         NEW l \in Legs(board, r, right, side)
  PROVE  /\ l \in [quote : board, side : {"buy", "sell"}]
         /\ l.quote.dte \in Nat \ {0}
<1> DEFINE anchor == r[right]
           picked == Select(board, right, r.dte, anchor, side = "sell")
           Of(q) == IF anchor.byDelta = 0 /\ anchor.byPoints = 0 THEN {Leg(q, side)}
                    ELSE UNION {{Leg(q, side), Leg(w, Other(side))} :
                                  w \in {v \in Wing(board, q, anchor) : side = "buy" => Sellable(v)}}
<1>1. anchor \in AnchorType /\ r.dte.target \in Nat /\ r.dte.tolerance \in Nat
  BY DEF RuleType
<1>2. PICK q \in picked : l \in Of(q)
  BY DEF Legs
<1>3. q \in board /\ q.dte \in Nat \ {0} /\ q \in QuoteType
  <2> HIDE DEF anchor
  <2> QED BY <1>1, SelectedIsQuoted
<1>4. Other(side) \in {"buy", "sell"}
  BY DEF Other
<1>5. CASE l = Leg(q, side)
  BY <1>3, <1>5 DEF Leg
<1>6. CASE l # Leg(q, side)
  <2>1. PICK w \in Wing(board, q, anchor) : l = Leg(w, Other(side))
    <3> HIDE DEF anchor
    <3> QED BY <1>2, <1>6
  <2>2. w \in board /\ w.dte = q.dte
    <3> HIDE DEF anchor
    <3> QED BY <1>1, <1>3, WingIsQuoted
  <2> QED BY <1>3, <1>4, <2>1, <2>2 DEF Leg
<1> QED BY <1>5, <1>6

\* What is built is finite, is defined, and expires on a later day.
LEMMA BuiltIsHeld ==
  ASSUME NEW board, IsFiniteSet(board), board \subseteq QuoteType,
         NEW r \in RuleType, r.dte.tolerance < r.dte.target, Build(board, r).legs # {}
  PROVE  LET legs == Build(board, r).legs IN
         /\ Held(legs) /\ NetCalls(legs) >= 0 /\ MaxLoss(legs) > 0
         /\ \A l \in legs : l.quote.dte \in Nat \ {0}
<1> DEFINE rights == IF r.kind = "iron_condor" THEN {"put", "call"} ELSE {AnchorOf(r.kind)[1]}
           side == IF r.kind = "iron_condor" THEN "sell" ELSE AnchorOf(r.kind)[2]
           all == UNION {Legs(board, r, x, side) : x \in rights}
           legs == Build(board, r).legs
<1>1. legs = all /\ Defined(all)
  <2> HIDE DEF rights, side
  <2> QED BY DEF Build, rights, side
<1>2. rights \subseteq {"put", "call"} /\ side \in {"buy", "sell"}
  BY DEF AnchorOf, RuleType, Kinds
<1>3. \A l \in legs : l \in [quote : board, side : {"buy", "sell"}] /\ l.quote.dte \in Nat \ {0}
  <2> HIDE DEF rights, side, legs
  <2> SUFFICES ASSUME NEW l \in legs
               PROVE  l \in [quote : board, side : {"buy", "sell"}] /\ l.quote.dte \in Nat \ {0}
    OBVIOUS
  <2>1. PICK x \in rights : l \in Legs(board, r, x, side)
    BY <1>1
  <2>2. x \in {"put", "call"} /\ side \in {"buy", "sell"}
    BY <1>2
  <2> QED BY <2>1, <2>2, LegsAreQuoted
<1>4. IsFiniteSet(legs)
  <2> DEFINE buy == [q \in board |-> Leg(q, "buy")]
             sell == [q \in board |-> Leg(q, "sell")]
             bought == {buy[q] : q \in board}
             sold == {sell[q] : q \in board}
  <2>1. IsFiniteSet(bought) /\ IsFiniteSet(sold)
    <3> HIDE DEF buy, sell
    <3> QED BY ImageIsNoMore
  <2>2. ASSUME NEW l \in legs  PROVE l \in bought \union sold
    <3>1. l.quote \in board /\ l.side \in {"buy", "sell"} /\ l = [quote |-> l.quote, side |-> l.side]
      <4> HIDE DEF legs
      <4> QED BY <1>3
    <3>2. buy[l.quote] = [quote |-> l.quote, side |-> "buy"] /\ sell[l.quote] = [quote |-> l.quote, side |-> "sell"]
      BY <3>1 DEF Leg
    <3>3. l = buy[l.quote] \/ l = sell[l.quote]
      BY <3>1, <3>2
    <3> HIDE DEF legs, buy, sell
    <3> QED BY <3>1, <3>3
  <2>3. legs \subseteq bought \union sold /\ IsFiniteSet(bought \union sold)
    BY <2>1, <2>2, FS_Union
  <2> HIDE DEF legs, bought, sold
  <2> QED BY <2>3, FS_Subset
<1>5. legs \subseteq LegType
  <2> HIDE DEF legs
  <2> QED BY <1>3 DEF LegType
<1>6. NetCalls(legs) >= 0 /\ MaxLoss(legs) > 0
  BY <1>1 DEF Defined, NetCalls
<1> QED BY <1>3, <1>4, <1>5, <1>6 DEF Held

Prem(p) == p.contracts * EntryCash(p.legs) - p.fee
Net(t) == t.gross - t.fees
Premiums(ps) == SumFunctionOnSet([p \in ps |-> Prem(p)], ps)
Nets(ts) == SumFunctionOnSet([t \in ts |-> Net(t)], ts)

\* A position, as an entry makes it.
Placed(p) ==
  /\ p.entered \in Nat /\ p.contracts \in Nat /\ p.fee \in Int
  /\ p.decided \in Int /\ p.filled \in Int /\ p.expiry \in Int
  /\ Held(p.legs) /\ NetCalls(p.legs) >= 0
  /\ RiskShare * p.contracts * MaxLoss(p.legs) <= p.stake

\* A trade, as a settlement makes it.
Settled(t) ==
  /\ t.entered \in Nat /\ t.gross \in Int /\ t.fees \in Int
  /\ t.gross >= -t.contracts * MaxLoss(t.legs)

RunType ==
  /\ phase \in {"bar", "session", "done"} /\ step \in Nat \ {0}
  /\ bars \subseteq 1 .. Steps /\ life \in Rules /\ cash \in Int
  /\ IsFiniteSet(held.open) /\ held.seen \in Nat /\ held.last \in Nat
  /\ held = [open |-> held.open, seen |-> held.seen, last |-> held.last]
  /\ IsFiniteSet(trades)
  /\ account.realised \in Int /\ account.close \in Nat /\ account.day \in Nat
  /\ account = [realised |-> account.realised, close |-> account.close,
                day |-> account.day, skips |-> account.skips]

\* The last close known is that of the last bar.
CloseIsTheLast ==
  /\ account.day <= step
  /\ phase = "bar" => \A d \in bars : d < step => d <= account.day
  /\ phase = "session" => \A d \in bars : d <= step => d <= account.day

\* What is open was entered once, and expires on a bar that is to come.
OpenIsToCome ==
  /\ \A p \in held.open :
       /\ Placed(p) /\ p.entered <= held.seen
       /\ p.decided < p.filled /\ p.filled <= step
       /\ p.expiry \in bars /\ p.expiry < Boundary
       /\ p.expiry >= step /\ (phase = "session" => p.expiry > step)
  /\ \A p, q \in held.open : p.entered = q.entered => p = q
  /\ Cardinality(held.open) <= MaxConcurrent
  /\ phase = "done" => step > Steps

TradesAreOver ==
  /\ \A t \in trades : Settled(t) /\ t.entered <= held.seen
  /\ \A t \in trades, p \in held.open : t.entered # p.entered

Accounts ==
  /\ account.realised = Funds + Nets(trades)
  /\ cash = account.realised + Premiums(held.open)

RunInv == RunType /\ CloseIsTheLast /\ OpenIsToCome /\ TradesAreOver /\ Accounts

-----------------------------------------------------------------------------
LEMMA PremIsWhole ==
  ASSUME NEW p, Placed(p)
  PROVE  Prem(p) \in Int
<1>1. EntryCash(p.legs) \in Int
  BY MoneyIsWhole, 0 \in Nat DEF Placed
<1>2. p.contracts * EntryCash(p.legs) \in Int
  BY <1>1 DEF Placed
<1> QED BY <1>2 DEF Prem, Placed

LEMMA ItmIsNatural ==
  ASSUME NEW legs, Held(legs), NEW close
  PROVE  ItmLegs(legs, close) \in Nat
<1> DEFINE itm == {l \in legs : Intrinsic(l.quote, close) > 0}
<1>1. IsFiniteSet(itm)
  BY FS_Subset DEF Held
<1> QED BY <1>1, FS_CardinalityType DEF ItmLegs

\* What one settlement does to the curve is what it does to the trades.
LEMMA Spread ==
  ASSUME NEW c \in Int, NEW e \in Int, NEW s \in Int, NEW i \in Int, NEW n \in Int, NEW f \in Int
  PROVE  /\ c * e \in Int /\ c * (s - i * n) \in Int /\ c * (e + s) \in Int /\ c * i * n \in Int
         /\ c * (e + s) - (f + c * i * n) = c * e - f + c * (s - i * n)
<1>1. i * n \in Int /\ c * (i * n) \in Int /\ c * i * n = c * (i * n)
  OBVIOUS
<1> DEFINE m == i * n
<1>2. m \in Int
  BY <1>1
<1> HIDE DEF m
<1>3. c * (e + s) = c * e + c * s /\ c * (s - m) = c * s - c * m
  BY <1>2
<1>4. c * e \in Int /\ c * s \in Int /\ c * m \in Int
  BY <1>2
<1>5. c * i * n = c * m
  BY <1>1 DEF m
<1>6. c * (s - i * n) = c * (s - m)
  BY DEF m
<1> QED BY <1>2, <1>3, <1>4, <1>5, <1>6

LEMMA SettlementIsOne ==
  ASSUME NEW p, Placed(p), NEW close \in Nat, ItmFee \in Nat
  PROVE  /\ Settlement(p, close) \in Int /\ SettlementPnl(p, close) \in Int
         /\ SettlementPnl(p, close) = Prem(p) + Settlement(p, close)
         /\ Net(TradeOf(p, close)) = SettlementPnl(p, close)
         /\ Settled(TradeOf(p, close)) /\ TradeOf(p, close).entered = p.entered
<1> DEFINE c == p.contracts
           e == EntryCash(p.legs)
           s == SettlementValue(p.legs, close)
           n == ItmLegs(p.legs, close)
           t == TradeOf(p, close)
<1>1. c \in Nat /\ e \in Int /\ s \in Int /\ n \in Nat /\ p.fee \in Int
  BY MoneyIsWhole, ItmIsNatural DEF Placed
<1>2. MaxLoss(p.legs) \in Nat /\ e + s >= -MaxLoss(p.legs)
  BY LossIsBounded DEF Placed
<1>3. /\ Settlement(p, close) = c * (s - ItmFee * n)
      /\ SettlementPnl(p, close) = c * e - p.fee + Settlement(p, close)
      /\ Prem(p) = c * e - p.fee
      /\ t.gross = c * (e + s) /\ t.fees = p.fee + c * ItmFee * n
      /\ t.entered = p.entered /\ t.contracts = c /\ t.legs = p.legs
  BY DEF Settlement, SettlementPnl, Prem, TradeOf
<1> HIDE DEF c, e, s, n, t
<1>4. /\ c * e \in Int /\ c * (s - ItmFee * n) \in Int /\ c * (e + s) \in Int /\ c * ItmFee * n \in Int
      /\ c * (e + s) - (p.fee + c * ItmFee * n) = c * e - p.fee + c * (s - ItmFee * n)
  BY <1>1, Spread
<1>5. t.gross - t.fees = SettlementPnl(p, close)
  BY <1>3, <1>4
<1>6. t.gross >= -t.contracts * MaxLoss(t.legs)
  <2> DEFINE m == MaxLoss(p.legs)
  <2>1. m \in Nat /\ e + s >= -m
    BY <1>2
  <2> HIDE DEF m
  <2>2. e + s + m \in Nat /\ c * (e + s + m) >= 0 /\ c * (e + s + m) = c * (e + s) + c * m
    BY <1>1, <2>1
  <2>3. c * m \in Int /\ -c * m = -(c * m)
    BY <1>1, <2>1
  <2>4. c * (e + s) >= -c * m
    BY <1>4, <2>2, <2>3
  <2> QED BY <1>3, <2>4 DEF m
<1>7. t.entered \in Nat /\ t.gross \in Int /\ t.fees \in Int
  <2>1. p.entered \in Nat
    BY DEF Placed
  <2> QED BY <1>1, <1>3, <1>4, <2>1
<1>8. Settled(t)
  BY <1>6, <1>7 DEF Settled
<1>9. Net(t) = SettlementPnl(p, close)
  BY <1>5 DEF Net
<1> QED BY <1>1, <1>3, <1>4, <1>8, <1>9 DEF t

LEMMA SumOfIs ==
  ASSUME NEW f, NEW S, f = [x \in S |-> f[x]]
  PROVE  SumOf(f) = SumFunctionOnSet(f, S)
BY DEF SumOf, SumFunction

LEMMA PremiumsOfParts ==
  ASSUME NEW A, NEW B, IsFiniteSet(A), IsFiniteSet(B), A \intersect B = {},
         \A p \in A \union B : Placed(p)
  PROVE  /\ Premiums(A) \in Int /\ Premiums(B) \in Int
         /\ Premiums(A \union B) = Premiums(A) + Premiums(B)
<1> DEFINE f == [p \in A \union B |-> Prem(p)]
           g == [p \in A |-> Prem(p)]
           h == [p \in B |-> Prem(p)]
<1>1. \A p \in A \union B : f[p] \in Int
  BY PremIsWhole
<1>2. /\ \A p \in A : g[p] \in Int /\ g[p] = f[p]
      /\ \A p \in B : h[p] \in Int /\ h[p] = f[p]
  BY <1>1
<1>3. Premiums(A) = SumFunctionOnSet(g, A) /\ Premiums(B) = SumFunctionOnSet(h, B)
      /\ Premiums(A \union B) = SumFunctionOnSet(f, A \union B)
  BY DEF Premiums
<1> HIDE DEF f, g, h
<1>4. SumFunctionOnSet(f, A \union B) = SumFunctionOnSet(f, A) + SumFunctionOnSet(f, B)
  BY <1>1, SumOfParts
<1>5. SumFunctionOnSet(g, A) = SumFunctionOnSet(f, A) /\ SumFunctionOnSet(g, A) \in Int
  BY <1>2, SumIsOfValues, SumIsInteger
<1>6. SumFunctionOnSet(h, B) = SumFunctionOnSet(f, B) /\ SumFunctionOnSet(h, B) \in Int
  BY <1>2, SumIsOfValues, SumIsInteger
<1> QED BY <1>3, <1>4, <1>5, <1>6

LEMMA PremiumOfOne ==
  ASSUME NEW p, Placed(p)
  PROVE  IsFiniteSet({p}) /\ Premiums({p}) = Prem(p)
<1> DEFINE f == [q \in {p} |-> Prem(q)]
<1>1. IsFiniteSet({}) /\ {} \union {p} = {p}
  BY FS_EmptySet
<1>2. IsFiniteSet({p})
  BY <1>1, FS_AddElement
<1>3. f[p] = Prem(p) /\ \A x \in {} \union {p} : f[x] \in Int
  BY PremIsWhole
<1>4. Premiums({p}) = SumFunctionOnSet(f, {p})
  BY DEF Premiums
<1> HIDE DEF f
<1>5. SumFunctionOnSet(f, {} \union {p}) = SumFunctionOnSet(f, {}) + f[p]
  BY <1>1, <1>3, SumOfOneMore
<1>6. SumFunctionOnSet(f, {}) = 0
  BY SumOfNone
<1> QED BY <1>1, <1>2, <1>3, <1>4, <1>5, <1>6, PremIsWhole

Paid(ps, close) == SumOf([p \in ps |-> Settlement(p, close)])
Pnl(ps, close) == SumOf([p \in ps |-> SettlementPnl(p, close)])
TradesOf(ps, close) == {TradeOf(p, close) : p \in ps}

\* What a bar settles goes off the premiums, onto the cash and the trades.
LEMMA BarSettles ==
  ASSUME NEW due, IsFiniteSet(due), \A p \in due : Placed(p),
         \A p, q \in due : p.entered = q.entered => p = q,
         NEW ts, IsFiniteSet(ts), \A t \in ts : Settled(t),
         \A t \in ts, p \in due : t.entered # p.entered,
         NEW close \in Nat, ItmFee \in Nat
  PROVE  /\ Paid(due, close) \in Int /\ Pnl(due, close) \in Int
         /\ Pnl(due, close) = Premiums(due) + Paid(due, close)
         /\ IsFiniteSet(TradesOf(due, close)) /\ Nets(ts) \in Int
         /\ Nets(ts \union TradesOf(due, close)) = Nets(ts) + Pnl(due, close)
<1> DEFINE paid == [p \in due |-> Settlement(p, close)]
           pnl == [p \in due |-> SettlementPnl(p, close)]
           prem == [p \in due |-> Prem(p)]
           made == [p \in due |-> TradeOf(p, close)]
           new == {TradeOf(p, close) : p \in due}
           nets == [t \in ts \union new |-> Net(t)]
           old == [t \in ts |-> Net(t)]
<1>1. \A p \in due : /\ paid[p] \in Int /\ pnl[p] \in Int /\ prem[p] \in Int
                     /\ pnl[p] = prem[p] + paid[p]
                     /\ made[p] \in new /\ made[p].entered = p.entered
                     /\ Settled(made[p]) /\ Net(made[p]) = pnl[p]
  BY SettlementIsOne, PremIsWhole
<1>2. /\ SumOf(paid) = SumFunctionOnSet(paid, due) /\ SumOf(pnl) = SumFunctionOnSet(pnl, due)
      /\ Premiums(due) = SumFunctionOnSet(prem, due)
  BY SumOfIs DEF Premiums
<1>3. SumFunctionOnSet(paid, due) \in Int /\ SumFunctionOnSet(pnl, due) \in Int
      /\ SumFunctionOnSet(prem, due) \in Int
  <2> HIDE DEF paid, pnl, prem
  <2>1. /\ \A p \in due : paid[p] \in Int
        /\ \A p \in due : pnl[p] \in Int
        /\ \A p \in due : prem[p] \in Int
    BY <1>1
  <2> QED BY <2>1, SumIsInteger
<1>4. SumFunctionOnSet(pnl, due) = SumFunctionOnSet(prem, due) + SumFunctionOnSet(paid, due)
  <2> HIDE DEF paid, pnl, prem
  <2>1. \A p \in due : prem[p] \in Int /\ paid[p] \in Int /\ pnl[p] = prem[p] + 1 * paid[p]
    BY <1>1
  <2>2. SumFunctionOnSet(pnl, due) = SumFunctionOnSet(prem, due) + 1 * SumFunctionOnSet(paid, due)
    BY <2>1, SumIsLinear
  <2> QED BY <1>3, <2>2
<1>5. new = {made[p] : p \in due}
  OBVIOUS
<1>6. IsFiniteSet(new)
  <2> HIDE DEF made, new
  <2> QED BY <1>5, ImageIsNoMore
<1>7. ts \intersect new = {}
  <2> SUFFICES ASSUME NEW t \in ts, t \in new  PROVE FALSE
    OBVIOUS
  <2>1. PICK p \in due : t = made[p]
    BY <1>5
  <2>2. t.entered = p.entered
    BY <1>1, <2>1
  <2> QED BY <2>2
<1>8. \A t \in ts \union new : nets[t] \in Int /\ nets[t] = Net(t)
  <2>1. \A t \in new : Settled(t)
    BY <1>1, <1>5
  <2> HIDE DEF new
  <2>2. \A t \in ts \union new : Net(t) \in Int
    BY <2>1 DEF Settled, Net
  <2> QED BY <2>2
<1>9. SumFunctionOnSet(nets, ts \union new) = SumFunctionOnSet(nets, ts) + SumFunctionOnSet(nets, new)
  <2> HIDE DEF nets, new
  <2> QED BY <1>6, <1>7, <1>8, SumOfParts
<1>10. SumFunctionOnSet(nets, ts) = SumFunctionOnSet(old, ts) /\ SumFunctionOnSet(old, ts) \in Int
  <2>1. \A t \in ts : old[t] \in Int /\ old[t] = nets[t] /\ nets[t] \in Int
    BY <1>8
  <2> HIDE DEF nets, old
  <2> QED BY <2>1, SumIsOfValues, SumIsInteger
<1>11. SumFunctionOnSet(nets, new) = SumFunctionOnSet(pnl, due)
  <2> DEFINE took == [p \in due |-> nets[made[p]]]
  <2>1. \A p, q \in due : made[p] = made[q] => p = q
    <3> HIDE DEF made
    <3> QED BY <1>1
  <2>2. \A p \in due : nets[made[p]] \in Int /\ nets[made[p]] = pnl[p]
    <3> HIDE DEF made, new, nets, pnl
    <3> QED BY <1>1, <1>8
  <2>3. SumFunctionOnSet(nets, {made[p] : p \in due}) = SumFunctionOnSet([p \in due |-> nets[made[p]]], due)
    <3> HIDE DEF made, nets, pnl
    <3> QED BY <2>1, <2>2, SumOfImage
  <2>4. SumFunctionOnSet(took, due) = SumFunctionOnSet(pnl, due)
    <3>1. \A p \in due : took[p] \in Int /\ took[p] = pnl[p]
      BY <2>2
    <3> HIDE DEF took, pnl
    <3> QED BY <3>1, SumIsOfValues
  <2> QED BY <1>5, <2>3, <2>4
<1>12. Nets(ts) = SumFunctionOnSet(old, ts) /\ Nets(ts \union new) = SumFunctionOnSet(nets, ts \union new)
  BY DEF Nets
<1> HIDE DEF paid, pnl, prem, new, nets, old
<1>13. SumOf(paid) \in Int /\ SumOf(pnl) \in Int /\ SumOf(pnl) = Premiums(due) + SumOf(paid)
  BY <1>2, <1>3, <1>4
<1>14. Nets(ts) \in Int /\ Nets(ts \union new) = Nets(ts) + SumOf(pnl)
  BY <1>2, <1>9, <1>10, <1>11, <1>12
<1>15. SumOf(paid) = Paid(due, close) /\ SumOf(pnl) = Pnl(due, close) /\ new = TradesOf(due, close)
  BY DEF paid, pnl, new, Paid, Pnl, TradesOf
<1> QED BY <1>6, <1>13, <1>14, <1>15

LEMMA RunConstants ==
  /\ \A board \in Chains : IsFiniteSet(board) /\ board \subseteq QuoteType
  /\ Rules \subseteq RuleType /\ \A r \in Rules : r.dte.tolerance < r.dte.target
  /\ Steps \in Nat \ {0} /\ Calendars \subseteq SUBSET (1 .. Steps) /\ Closes \subseteq Nat
  /\ Boundary \in Int /\ Funds \in Int /\ EntryFee \in Nat /\ ItmFee \in Nat
  /\ MaxConcurrent \in Nat /\ RiskShare \in Nat \ {0}
BY RunAssumption

LEMMA RunInitially == RunInit => RunInv
<1> SUFFICES ASSUME RunInit  PROVE RunInv
  OBVIOUS
<1>1. IsFiniteSet({}) /\ Cardinality({}) = 0
  BY FS_EmptySet
<1>2. RunType
  BY <1>1, RunConstants DEF RunInit, RunType
<1>3. CloseIsTheLast
  BY <1>2, RunConstants DEF RunInit, CloseIsTheLast, RunType
<1>4. OpenIsToCome
  BY <1>1, RunConstants DEF RunInit, OpenIsToCome
<1>5. TradesAreOver
  BY DEF RunInit, TradesAreOver
<1>6. Accounts
  <2>1. Nets({}) = 0 /\ Premiums({}) = 0
    BY SumOfNone DEF Nets, Premiums
  <2> QED BY <2>1, RunConstants DEF RunInit, Accounts
<1> QED BY <1>2, <1>3, <1>4, <1>5, <1>6 DEF RunInv

-----------------------------------------------------------------------------
LEMMA BarKeeps == RunInv /\ Bar => RunInv'
<1> SUFFICES ASSUME RunInv, Bar  PROVE RunInv'
  OBVIOUS
<1> USE DEF RunInv
<1>1. phase = "bar" /\ phase' = "session" /\ UNCHANGED <<step, bars, life>>
  BY DEF Bar
<1>2. CASE step \notin bars
  <2>1. UNCHANGED <<cash, held, orders, trades, account>>
    BY <1>2 DEF Bar
  <2>2. RunType'
    BY <1>1, <2>1 DEF RunType
  <2>3. CloseIsTheLast'
    <3>1. \A d \in bars : d <= step => d < step
      BY <1>2 DEF RunType
    <3> QED BY <1>1, <2>1, <3>1 DEF CloseIsTheLast
  <2>4. OpenIsToCome'
    <3>1. \A p \in held.open : p.expiry > step
      BY <1>2 DEF OpenIsToCome, RunType
    <3>2. \A p \in held.open : Placed(p)'
      BY <2>1 DEF OpenIsToCome, Placed
    <3> QED BY <1>1, <2>1, <3>1, <3>2 DEF OpenIsToCome
  <2>5. TradesAreOver'
    BY <2>1 DEF TradesAreOver
  <2>6. Accounts'
    BY <2>1 DEF Accounts
  <2> QED BY <2>2, <2>3, <2>4, <2>5, <2>6
<1>3. CASE step \in bars
  <2>1. PICK close \in Closes, signal \in BOOLEAN :
       LET due == {p \in held.open : p.expiry = step}
           paid == [p \in due |-> Settlement(p, close)]
           pnl == [p \in due |-> SettlementPnl(p, close)]
       IN /\ cash' = cash + SumOf(paid)
          /\ held' = [held EXCEPT !.open = @ \ due]
          /\ orders' = <<orders[2], signal>>
          /\ trades' = trades \union {TradeOf(p, close) : p \in due}
          /\ account' = [account EXCEPT !.realised = @ + SumOf(pnl), !.close = close, !.day = step]
    BY <1>3 DEF Bar
  <2> DEFINE due == {p \in held.open : p.expiry = step}
             rest == held.open \ due
             paid == Paid(due, close)
             pnl == Pnl(due, close)
             new == TradesOf(due, close)
  <2>2. /\ cash' = cash + paid /\ trades' = trades \union new
        /\ held' = [open |-> rest, seen |-> held.seen, last |-> held.last]
        /\ account' = [realised |-> account.realised + pnl, close |-> close, day |-> step, skips |-> account.skips]
    BY <2>1 DEF RunType, Paid, Pnl, TradesOf
  <2>3. due \subseteq held.open /\ IsFiniteSet(due) /\ IsFiniteSet(rest) /\ close \in Nat
        /\ rest \intersect due = {} /\ rest \union due = held.open /\ IsFiniteSet(held.open)
    BY FS_Subset, RunConstants DEF RunType
  <2>4. \A p \in held.open : Placed(p)
    BY DEF OpenIsToCome
  <2>5. /\ paid \in Int /\ pnl \in Int /\ pnl = Premiums(due) + paid
        /\ IsFiniteSet(new) /\ Nets(trades) \in Int /\ Nets(trades \union new) = Nets(trades) + pnl
    <3>1. \A p, q \in due : p.entered = q.entered => p = q
      BY <2>3 DEF OpenIsToCome
    <3>2. IsFiniteSet(trades) /\ (\A t \in trades : Settled(t)) /\ \A t \in trades, p \in due : t.entered # p.entered
      BY <2>3 DEF RunType, TradesAreOver
    <3>3. \A p \in due : Placed(p)
      BY <2>3, <2>4
    <3>4. ItmFee \in Nat
      BY RunConstants
    <3> HIDE DEF due
    <3>5. IsFiniteSet(due) /\ close \in Nat
      BY <2>3
    <3> QED BY <3>1, <3>2, <3>3, <3>4, <3>5, BarSettles
  <2>6. /\ Premiums(rest) \in Int /\ Premiums(due) \in Int
        /\ Premiums(held.open) = Premiums(rest) + Premiums(due)
    <3> HIDE DEF due, rest
    <3> QED BY <2>3, <2>4, PremiumsOfParts
  <2>7. \A p \in due : Settled(TradeOf(p, close)) /\ TradeOf(p, close).entered = p.entered
    <3> HIDE DEF due
    <3> QED BY <2>3, <2>4, SettlementIsOne, RunConstants
  <2>8. \A p \in rest : p \in held.open /\ p.expiry # step
    OBVIOUS
  <2>9. \A t \in new : \E p \in due : t = TradeOf(p, close)
    BY DEF TradesOf
  <2> HIDE DEF due, rest, paid, pnl, new
  <2>10. RunType'
    <3>1. IsFiniteSet(trades')
      BY <2>2, <2>5, FS_Union DEF RunType
    <3>2. /\ held'.open = rest /\ held'.seen = held.seen /\ held'.last = held.last
          /\ held' = [open |-> held'.open, seen |-> held'.seen, last |-> held'.last]
      BY <2>2
    <3>3. /\ account'.realised = account.realised + pnl /\ account'.close = close /\ account'.day = step
          /\ account' = [realised |-> account'.realised, close |-> account'.close,
                          day |-> account'.day, skips |-> account'.skips]
      BY <2>2
    <3>4. cash' \in Int /\ account'.realised \in Int
      BY <2>2, <2>5, <3>3 DEF RunType
    <3> QED BY <1>1, <2>3, <3>1, <3>2, <3>3, <3>4 DEF RunType
  <2>11. CloseIsTheLast'
    BY <1>1, <2>2 DEF RunType, CloseIsTheLast
  <2>12. OpenIsToCome'
    <3>1. \A p \in rest : p.expiry > step
      BY <1>1, <2>8 DEF OpenIsToCome, RunType
    <3>2. Cardinality(rest) <= MaxConcurrent
      <4>1. rest \subseteq held.open
        BY <2>8
      <4>2. Cardinality(rest) <= Cardinality(held.open) /\ Cardinality(rest) \in Nat /\ Cardinality(held.open) \in Nat
        BY <2>3, <4>1, FS_Subset, FS_CardinalityType
      <4> QED BY <4>2, RunConstants DEF OpenIsToCome
    <3>3. \A p \in rest : Placed(p)'
      BY <2>4, <2>8 DEF Placed
    <3>4. held'.open = rest /\ held'.seen = held.seen
      BY <2>2
    <3> QED BY <1>1, <2>8, <3>1, <3>2, <3>3, <3>4 DEF OpenIsToCome
  <2>13. TradesAreOver'
    <3>1. held'.open = rest /\ held'.seen = held.seen
      BY <2>2
    <3>2. ASSUME NEW t \in trades'  PROVE Settled(t) /\ t.entered <= held.seen /\ \A p \in rest : t.entered # p.entered
      <4>1. CASE t \in trades
        BY <2>8, <4>1 DEF TradesAreOver
      <4>2. CASE t \in new
        <5>1. PICK q \in due : t = TradeOf(q, close)
          BY <2>9, <4>2
        <5>2. q \in held.open /\ Settled(t) /\ t.entered = q.entered
          BY <2>3, <2>7, <5>1
        <5>3. \A p \in rest : p # q
          BY <2>3
        <5> QED BY <2>8, <5>2, <5>3 DEF OpenIsToCome
      <4> QED BY <2>2, <3>2, <4>1, <4>2
    <3> QED BY <3>1, <3>2 DEF TradesAreOver, Settled
  <2>14. Accounts'
    <3>1. account'.realised = account.realised + pnl /\ held'.open = rest
      BY <2>2
    <3>2. Nets(trades') = Nets(trades) + pnl /\ Premiums(held'.open) = Premiums(rest)
      BY <2>2, <2>5, <3>1
    <3>3. account.realised \in Int /\ cash \in Int /\ Funds \in Int
      BY RunConstants DEF RunType
    <3>4. account'.realised = Funds + Nets(trades')
      BY <2>5, <3>1, <3>2, <3>3 DEF Accounts
    <3>5. cash' = account'.realised + Premiums(held'.open)
      BY <2>2, <2>5, <2>6, <3>1, <3>2, <3>3 DEF Accounts
    <3>6. Nets(trades)' = Nets(trades') /\ Premiums(held.open)' = Premiums(held'.open)
      BY DEF Nets, Premiums, Net, Prem
    <3> QED BY <3>4, <3>5, <3>6 DEF Accounts
  <2> QED BY <2>10, <2>11, <2>12, <2>13, <2>14
<1> QED BY <1>2, <1>3

\* With two bars behind it, a session has a bar to have decided on.
LEMMA DecisionIsBefore ==
  ASSUME RunType, CloseIsTheLast, phase = "session", ~(Cardinality({d \in bars : d <= step}) < 2)
  PROVE  DecisionBar \in bars /\ DecisionBar < account.day
<1> DEFINE past == {d \in bars : d <= step}
           before == {d \in bars : d < account.day}
<1>1. bars \subseteq 1 .. Steps /\ Steps \in Nat /\ account.day \in Nat
  BY RunConstants DEF RunType
<1>2. PICK d \in past : d # account.day
  <2>1. IsFiniteSet({}) /\ Cardinality({}) = 0 /\ {} \union {account.day} = {account.day}
    BY FS_EmptySet
  <2>2. IsFiniteSet({account.day}) /\ Cardinality({account.day}) = 1
    BY FS_Singleton
  <2>3. past \subseteq {account.day} => Cardinality(past) <= 1
    BY <2>2, FS_Subset
  <2>4. ~(Cardinality(past) < 2)
    OBVIOUS
  <2>5. past # {} /\ ~(past \subseteq {account.day})
    <3>1. Cardinality(past) \in Nat
      <4>1. IsFiniteSet(1 .. Steps) /\ past \subseteq 1 .. Steps
        BY <1>1, FS_Interval, 1 \in Int, Steps \in Int
      <4>2. IsFiniteSet(past)
        BY <4>1, FS_Subset
      <4> QED BY <4>2, FS_CardinalityType
    <3> HIDE DEF past
    <3> QED BY <2>1, <2>3, <2>4, <3>1
  <2> QED BY <2>5
<1>3. d \in before
  BY <1>1, <1>2 DEF CloseIsTheLast
<1>4. before \subseteq 0 .. Steps
  <2>1. \A e \in 1 .. Steps : e \in 0 .. Steps
    BY <1>1
  <2> QED BY <1>1, <2>1
<1>5. Max(before) \in before /\ \A e \in before : e <= Max(before)
  <2> HIDE DEF before
  <2> QED BY <1>1, <1>3, <1>4, GreatestNatural
<1>6. \E m \in bars : m < account.day /\ \A e \in bars : e < account.day => e <= m
  BY <1>5
<1> QED BY <1>6 DEF DecisionBar

\* What an entry may be of: not refused, it is built, and it is affordable.
LEMMA EntryIsAllowed ==
  ASSUME RunType, NEW board \in Chains, Refusal(board) = "none"
  PROVE  LET legs == Build(board, rule).legs IN
         /\ Held(legs) /\ NetCalls(legs) >= 0
         /\ Contracts(legs) \in Nat
         /\ RiskShare * Contracts(legs) * MaxLoss(legs) <= account.realised
         /\ ExpiryOf(legs) \in bars /\ ExpiryOf(legs) < Boundary /\ ExpiryOf(legs) > step
<1> DEFINE legs == Build(board, rule).legs
<1>1. Build(board, rule).why \in {"no_expiry_in_band", "no_leg_or_wing", "built"}
  BY DEF Build
<1>2. /\ legs # {} /\ ExpiryOf(legs) \in bars /\ ~(ExpiryOf(legs) >= Boundary) /\ ~(Contracts(legs) < 1)
  BY <1>1 DEF Refusal
<1>3. /\ Held(legs) /\ NetCalls(legs) >= 0 /\ MaxLoss(legs) > 0
      /\ \A l \in legs : l.quote.dte \in Nat \ {0}
  <2>1. rule \in RuleType /\ rule.dte.tolerance < rule.dte.target
    BY RunConstants DEF rule, RunType
  <2>2. IsFiniteSet(board) /\ board \subseteq QuoteType
    BY RunConstants
  <2> QED BY <1>2, <2>1, <2>2, BuiltIsHeld
<1> HIDE DEF legs
<1>4. MaxLoss(legs) \in Nat
  BY <1>3, LossIsBounded, 0 \in Nat
<1>5. ExpiryOf(legs) \in Int /\ ExpiryOf(legs) > step
  <2>1. (CHOOSE l \in legs : TRUE) \in legs
    BY <1>2
  <2>2. (CHOOSE l \in legs : TRUE).quote.dte \in Nat \ {0}
    BY <1>3, <2>1
  <2> QED BY <2>2 DEF ExpiryOf, RunType
<1>6. /\ Contracts(legs) \in Nat
      /\ RiskShare * Contracts(legs) * MaxLoss(legs) <= account.realised
  <2> DEFINE m == MaxLoss(legs)
             d == RiskShare * m
             n == account.realised \div d
  <2>1. m \in Nat \ {0} /\ RiskShare \in Nat \ {0} /\ account.realised \in Int
    BY <1>3, <1>4, RunConstants DEF RunType
  <2>2. Contracts(legs) = n
    BY DEF Contracts
  <2> HIDE DEF m
  <2>3. d \in Nat \ {0}
    BY <2>1
  <2>4. RiskShare * n * m = d * n
    <3>1. n \in Int
      <4> HIDE DEF d
      <4> QED BY <2>1, <2>3
    <3> HIDE DEF n
    <3> QED BY <2>1, <3>1
  <2>5. n \in Int /\ d * n <= account.realised
    <3> HIDE DEF d
    <3> QED BY <2>1, <2>3
  <2>6. n >= 1
    BY <1>2, <2>2, <2>5
  <2> QED BY <2>2, <2>4, <2>5, <2>6 DEF m
<1>7. Boundary \in Int
  BY RunConstants
<1> QED BY <1>2, <1>3, <1>5, <1>6, <1>7 DEF legs

LEMMA EnterKeeps ==
  ASSUME RunInv, phase = "session", Tomorrow, NEW board \in Chains, ~Passes,
         Refusal(board) = "none", Enter(board), UNCHANGED <<bars, life, orders>>
  PROVE  RunInv'
<1> USE DEF RunInv
<1> DEFINE legs == Build(board, rule).legs
           n == Contracts(legs)
           new == [entered |-> held.seen + 1, legs |-> legs, contracts |-> n,
                   fee |-> EntryFees(legs, n), expiry |-> ExpiryOf(legs), decided |-> DecisionBar,
                   filled |-> account.day, stake |-> account.realised]
<1>1. /\ held' = [open |-> held.open \union {new}, seen |-> held.seen + 1, last |-> held.seen + 1]
      /\ cash' = cash + EntryFlow(legs, n) /\ UNCHANGED <<trades, account>>
  BY DEF Enter
<1>2. /\ Held(legs) /\ NetCalls(legs) >= 0 /\ n \in Nat
      /\ RiskShare * n * MaxLoss(legs) <= account.realised
      /\ ExpiryOf(legs) \in bars /\ ExpiryOf(legs) < Boundary /\ ExpiryOf(legs) > step
  BY EntryIsAllowed
<1>3. DecisionBar \in bars /\ DecisionBar < account.day
  BY DecisionIsBefore DEF Passes
<1>4. /\ step \in Nat \ {0} /\ bars \subseteq 1 .. Steps /\ Steps \in Nat /\ held.seen \in Nat
      /\ account.day \in Nat /\ account.realised \in Int /\ cash \in Int
  BY RunConstants DEF RunType
<1>5. EntryCash(legs) \in Int /\ EntryFees(legs, n) \in Int
  <2>1. Cardinality(legs) \in Nat
    BY <1>2, FS_CardinalityType DEF Held
  <2>2. EntryFee * Cardinality(legs) * n \in Int
    BY <1>2, <2>1, RunConstants
  <2> QED BY <1>2, <2>2, MoneyIsWhole, 0 \in Nat DEF EntryFees
<1> HIDE DEF legs, n
<1>6. /\ new.entered = held.seen + 1 /\ new.legs = legs /\ new.contracts = n
      /\ new.fee = EntryFees(legs, n) /\ new.expiry = ExpiryOf(legs) /\ new.decided = DecisionBar
      /\ new.filled = account.day /\ new.stake = account.realised
  OBVIOUS
<1> HIDE DEF new
<1>7. Placed(new)
  <2>1. new.entered \in Nat /\ new.decided \in Int /\ new.filled \in Int /\ new.expiry \in Int
    <3>1. \A d \in bars : d \in Int
      BY <1>4
    <3>2. new.decided \in Int /\ new.expiry \in Int
      BY <1>2, <1>3, <1>6, <3>1
    <3> QED BY <1>4, <1>6, <3>2
  <2>2. new.contracts \in Nat /\ new.fee \in Int /\ Held(new.legs) /\ NetCalls(new.legs) >= 0
    BY <1>2, <1>5, <1>6
  <2>3. RiskShare * new.contracts * MaxLoss(new.legs) <= new.stake
    BY <1>2, <1>6
  <2> QED BY <2>1, <2>2, <2>3 DEF Placed
<1>8. Prem(new) = EntryFlow(legs, n) /\ Prem(new) \in Int
  BY <1>6, <1>7, PremIsWhole DEF Prem, EntryFlow
<1>9. step' = step + 1 /\ step' \in Nat \ {0} /\ phase' \in {"bar", "done"}
      /\ (phase' = "done" => step = Steps) /\ UNCHANGED <<bars, life>>
  BY <1>4 DEF Tomorrow
<1>10. new \notin held.open /\ \A p \in held.open : p.entered # new.entered
  BY <1>4, <1>6 DEF OpenIsToCome, Placed
<1>11. held'.open = held.open \union {new} /\ held'.seen = held.seen + 1
  BY <1>1
<1>12. IsFiniteSet(held.open) /\ IsFiniteSet({new}) /\ Premiums({new}) = Prem(new)
  BY <1>7, PremiumOfOne DEF RunType
<1>13. IsFiniteSet(held.open \union {new}) /\ Cardinality(held.open \union {new}) = Cardinality(held.open) + 1
  BY <1>10, <1>12, FS_AddElement
<1>14. RunType'
  <2>1. held' = [open |-> held'.open, seen |-> held'.seen, last |-> held'.last] /\ held'.last = held.seen + 1
    BY <1>1
  <2>2. cash' \in Int
    BY <1>1, <1>4, <1>8
  <2> QED BY <1>1, <1>4, <1>9, <1>11, <1>13, <2>1, <2>2 DEF RunType
<1>15. CloseIsTheLast'
  BY <1>1, <1>4, <1>9 DEF CloseIsTheLast
<1>16. OpenIsToCome'
  <2>1. Cardinality(held.open \union {new}) <= MaxConcurrent
    <3>1. ~(Cardinality(held.open) >= MaxConcurrent)
      BY DEF Passes
    <3>2. Cardinality(held.open) \in Nat /\ MaxConcurrent \in Nat
      BY <1>12, RunConstants, FS_CardinalityType
    <3> QED BY <1>13, <3>1, <3>2
  <2>2. ASSUME NEW p \in held.open
        PROVE  /\ Placed(p) /\ p.entered <= held.seen + 1 /\ p.decided < p.filled /\ p.filled <= step + 1
               /\ p.expiry \in bars /\ p.expiry < Boundary /\ p.expiry >= step + 1
    BY <1>4 DEF OpenIsToCome, Placed
  <2>3. /\ new.entered <= held.seen + 1 /\ new.decided < new.filled /\ new.filled <= step + 1
        /\ new.expiry \in bars /\ new.expiry < Boundary /\ new.expiry >= step + 1
    <3>1. DecisionBar \in Nat /\ ExpiryOf(legs) \in Nat /\ account.day <= step
      <4>1. \A d \in bars : d \in Nat
        BY <1>4
      <4>2. DecisionBar \in Nat /\ ExpiryOf(legs) \in Nat
        BY <1>2, <1>3, <4>1
      <4> QED BY <4>2 DEF CloseIsTheLast
    <3> QED BY <1>2, <1>3, <1>4, <1>6, <3>1
  <2>4. \A p, q \in held.open \union {new} : p.entered = q.entered => p = q
    BY <1>10 DEF OpenIsToCome
  <2>5. \A p : Placed(p)' <=> Placed(p)
    BY DEF Placed
  <2>6. phase' = "done" => step' > Steps
    BY <1>4, <1>9
  <2> QED BY <1>7, <1>9, <1>11, <2>1, <2>2, <2>3, <2>4, <2>5, <2>6 DEF OpenIsToCome
<1>17. TradesAreOver'
  <2>1. \A t \in trades : Settled(t) /\ t.entered <= held.seen + 1 /\ t.entered # new.entered
    BY <1>4, <1>6 DEF TradesAreOver, Settled
  <2>2. \A t : Settled(t)' <=> Settled(t)
    BY DEF Settled
  <2> QED BY <1>1, <1>11, <2>1, <2>2 DEF TradesAreOver
<1>18. Accounts'
  <2>1. /\ Premiums(held.open) \in Int
        /\ Premiums(held.open \union {new}) = Premiums(held.open) + Premiums({new})
    <3>1. \A p \in held.open \union {new} : Placed(p)
      BY <1>7 DEF OpenIsToCome
    <3>2. held.open \intersect {new} = {}
      BY <1>10
    <3> QED BY <1>12, <3>1, <3>2, PremiumsOfParts
  <2>2. Nets(trades)' = Nets(trades) /\ Premiums(held.open)' = Premiums(held'.open)
    BY <1>1 DEF Nets, Premiums, Net, Prem
  <2> QED BY <1>1, <1>4, <1>8, <1>11, <1>12, <2>1, <2>2 DEF Accounts
<1> QED BY <1>14, <1>15, <1>16, <1>17, <1>18

\* A day that ends with what it had open.
LEMMA QuietDayKeeps ==
  ASSUME RunInv, phase = "session", Tomorrow, UNCHANGED <<bars, life, cash, trades>>,
         held'.open = held.open, held'.seen \in Nat, held'.seen >= held.seen, held'.last = held.last,
         held' = [open |-> held'.open, seen |-> held'.seen, last |-> held'.last],
         account'.realised = account.realised, account'.close = account.close, account'.day = account.day,
         account' = [realised |-> account'.realised, close |-> account'.close,
                     day |-> account'.day, skips |-> account'.skips]
  PROVE  RunInv'
<1> USE DEF RunInv
<1>1. step \in Nat \ {0} /\ bars \subseteq 1 .. Steps /\ Steps \in Nat /\ account.day \in Nat /\ held.seen \in Nat
  BY RunConstants DEF RunType
<1>2. step' = step + 1 /\ step' \in Nat \ {0} /\ phase' \in {"bar", "done"}
      /\ (phase' = "done" => step = Steps)
  BY <1>1 DEF Tomorrow
<1>3. RunType'
  BY <1>2 DEF RunType
<1>4. CloseIsTheLast'
  BY <1>1, <1>2 DEF CloseIsTheLast
<1>5. OpenIsToCome'
  <2>1. ASSUME NEW p \in held.open
        PROVE  /\ Placed(p) /\ p.entered <= held'.seen /\ p.decided < p.filled /\ p.filled <= step + 1
               /\ p.expiry \in bars /\ p.expiry < Boundary /\ p.expiry >= step + 1
    BY <1>1 DEF OpenIsToCome, Placed
  <2>2. \A p : Placed(p)' <=> Placed(p)
    BY DEF Placed
  <2>3. phase' = "done" => step' > Steps
    BY <1>1, <1>2
  <2> QED BY <1>2, <2>1, <2>2, <2>3 DEF OpenIsToCome
<1>6. TradesAreOver'
  <2>1. \A t \in trades : Settled(t) /\ t.entered <= held'.seen
    BY <1>1 DEF TradesAreOver, Settled
  <2>2. \A t : Settled(t)' <=> Settled(t)
    BY DEF Settled
  <2> QED BY <2>1, <2>2 DEF TradesAreOver
<1>7. Accounts'
  <2>1. Nets(trades)' = Nets(trades) /\ Premiums(held.open)' = Premiums(held.open)
    BY DEF Nets, Premiums, Net, Prem
  <2> QED BY <2>1 DEF Accounts
<1> QED BY <1>3, <1>4, <1>5, <1>6, <1>7

LEMMA RunStep == RunInv /\ [RunNext]_runVars => RunInv'
<1> SUFFICES ASSUME RunInv, [RunNext]_runVars  PROVE RunInv'
  OBVIOUS
<1>1. RunType
  BY DEF RunInv
<1>2. CASE Bar
  BY <1>2, BarKeeps
<1>3. CASE Session
  <2>1. phase = "session" /\ Tomorrow /\ UNCHANGED <<bars, life, orders>>
    BY <1>3 DEF Session
  <2>2. PICK board \in Chains :
       IF account.day = 0 \/ step - account.day > Staleness THEN Skip("stale_underlying")
       ELSE IF Passes THEN /\ held' = [held EXCEPT !.seen = @ + 1]
                           /\ UNCHANGED <<cash, trades, account>>
       ELSE IF Refusal(board) # "none" THEN Skip(Refusal(board))
       ELSE Enter(board)
    BY <1>3 DEF Session
  <2>3. CASE \E why : Skip(why)
    <3>1. PICK why : Skip(why)
      BY <2>3
    <3>2. /\ held' = [open |-> held.open, seen |-> held.seen + 1, last |-> held.last]
          /\ account' = [realised |-> account.realised, close |-> account.close, day |-> account.day,
                         skips |-> account.skips \union {why}]
          /\ UNCHANGED <<cash, trades>>
      BY <1>1, <3>1 DEF Skip, RunType
    <3>3. held.seen + 1 \in Nat /\ held.seen + 1 >= held.seen
      BY <1>1 DEF RunType
    <3> QED BY <2>1, <3>2, <3>3, QuietDayKeeps
  <2>4. CASE held' = [held EXCEPT !.seen = @ + 1] /\ UNCHANGED <<cash, trades, account>>
    <3>1. held' = [open |-> held.open, seen |-> held.seen + 1, last |-> held.last]
      BY <1>1, <2>4 DEF RunType
    <3>2. account' = [realised |-> account.realised, close |-> account.close, day |-> account.day,
                      skips |-> account.skips]
      BY <1>1, <2>4 DEF RunType
    <3>3. held.seen + 1 \in Nat /\ held.seen + 1 >= held.seen
      BY <1>1 DEF RunType
    <3> QED BY <2>1, <2>4, <3>1, <3>2, <3>3, QuietDayKeeps
  <2>5. CASE ~Passes /\ Refusal(board) = "none" /\ Enter(board)
    BY <2>1, <2>5, EnterKeeps
  <2> QED BY <2>2, <2>3, <2>4, <2>5
<1>4. CASE NoSession
  <2>1. phase = "session" /\ Tomorrow /\ UNCHANGED <<bars, life, cash, held, orders, trades, account>>
    BY <1>4 DEF NoSession
  <2>2. held' = [open |-> held.open, seen |-> held.seen, last |-> held.last] /\ held.seen \in Nat
    BY <1>1, <2>1 DEF RunType
  <2>3. account' = [realised |-> account.realised, close |-> account.close, day |-> account.day,
                    skips |-> account.skips]
    BY <1>1, <2>1 DEF RunType
  <2> QED BY <2>1, <2>2, <2>3, QuietDayKeeps
<1>5. CASE UNCHANGED runVars
  BY <1>5 DEF runVars, RunInv, RunType, CloseIsTheLast, OpenIsToCome, TradesAreOver, Accounts, Placed,
              Settled, Premiums, Nets, Prem, Net
<1> QED BY <1>2, <1>3, <1>4, <1>5 DEF RunNext

LEMMA RunIsKept == RunSpec => []RunInv
BY RunInitially, RunStep, PTL DEF RunSpec

LEMMA BooksAgree == RunInv => CurveMatchesTrades
<1> SUFFICES ASSUME RunInv  PROVE CurveMatchesTrades
  OBVIOUS
<1>1. SumOf([t \in trades |-> t.gross - t.fees]) = Nets(trades)
  BY DEF SumOf, SumFunction, Nets, Net
<1>2. SumOf([p \in held.open |-> p.contracts * EntryCash(p.legs) - p.fee]) = Premiums(held.open)
  BY DEF SumOf, SumFunction, Premiums, Prem
<1>3. phase = "done" => held.open = {}
  <2> SUFFICES ASSUME phase = "done", NEW p \in held.open  PROVE FALSE
    OBVIOUS
  <2>1. step > Steps /\ p.expiry \in 1 .. Steps /\ p.expiry >= step /\ step \in Nat
    BY DEF RunInv, RunType, OpenIsToCome
  <2> QED BY <2>1, RunConstants
<1> QED BY <1>1, <1>2, <1>3 DEF RunInv, Accounts, CurveMatchesTrades

(***************************************************************************)
(* The two functions that settle an option run agree: the realised equity  *)
(* is what its trades came to, the curve's cash is that and the premium of *)
(* what is open, and when the calendar is over nothing is open, however    *)
(* the bars and the sessions fall and whatever the rule picked.            *)
(***************************************************************************)
THEOREM OptionCurveMatchesTrades == RunSpec => []CurveMatchesTrades
BY RunIsKept, BooksAgree, PTL

LEMMA RiskIsBounded == RunInv => RiskIsDefined
<1> SUFFICES ASSUME RunInv  PROVE RiskIsDefined
  OBVIOUS
<1>1. ASSUME NEW p \in held.open, NEW close \in Closes
      PROVE  EntryCash(p.legs) + SettlementValue(p.legs, close) >= -MaxLoss(p.legs)
  <2>1. close \in Nat /\ Held(p.legs) /\ NetCalls(p.legs) >= 0
    BY RunConstants DEF RunInv, OpenIsToCome, Placed
  <2> QED BY <2>1, LossIsBounded
<1> QED BY <1>1 DEF RunInv, OpenIsToCome, TradesAreOver, Placed, Settled, RiskIsDefined

(***************************************************************************)
(* No option position loses more than the share of the realised equity it  *)
(* was sized by, at whatever close it settles, and none was decided on the *)
(* close it filled against or may settle inside the embargo: max_loss,     *)
(* which looks at the strikes and the ends, is the worst of every close.   *)
(***************************************************************************)
THEOREM OptionRiskIsDefined == RunSpec => []RiskIsDefined
BY RunIsKept, RiskIsBounded, PTL

-----------------------------------------------------------------------------
(***************************************************************************)
(* The run of a triggered rule: the cash is the funds, what the trades     *)
(* earned and what the open positions took; a position is carried at a     *)
(* price that is known; and closing takes nothing out of the book but what *)
(* a trade accounts for.                                                   *)
(***************************************************************************)
LEMMA ShareConstants ==
  /\ IsFiniteSet(Symbols) /\ NoBar \notin TriggerBars
  /\ TriggerSteps \in Nat \ {0} /\ RankedSteps \in Nat \ {0} /\ ShareFunds \in Int
  /\ Slip \in Nat /\ Fee \in Nat /\ Borrow \in Nat
  /\ StopDistance \in Nat \ {0} /\ Reward \in Nat /\ MaxHolding \in Nat /\ MaxPositions \in Nat
  /\ Volumes \subseteq Nat
  /\ TradeRisk \in Nat \ {0} /\ SizeShare \in Nat \ {0} /\ LossShare \in Nat \ {0}
  /\ \A b \in TriggerBars :
       /\ b.open \in Nat /\ b.low \in Nat /\ b.high \in Nat /\ b.close \in Nat
       /\ b.low <= b.open /\ b.open <= b.high
       /\ b.low <= b.close /\ b.close <= b.high
       /\ Slip < b.low
BY SharesAssumption

\* What an open position is, what a queued order, and what a trade.
Opened(p) ==
  /\ p.long \in BOOLEAN /\ p.quantity \in Int /\ p.entry \in Int /\ p.fee \in Int
  /\ p.target \in Int /\ p.age \in Nat
  /\ p.stop = p.entry - T!Sign(p) * StopDistance

Queued(o) == o.symbol \in Symbols /\ o.long \in BOOLEAN /\ o.distance \in {0, StopDistance}

Booked(t) ==
  /\ t.symbol \in Symbols /\ t.long \in BOOLEAN /\ t.quantity \in Int /\ t.entry \in Int
  /\ t.exit \in Int /\ t.fees \in Int /\ t.age \in Nat /\ t.at \in Nat

\* What a position took from the cash, and what trades and a book come to.
Cost(p) == -(T!Sign(p) * p.quantity * p.entry) - p.fee
Earned(ts) == T!SumOf([t \in ts |-> T!NetOf(t)])
Spent(book) == T!SumOf([s \in DOMAIN book |-> Cost(book[s])])

BookType ==
  /\ xPhase \in {"bars", "exits", "fills", "decide", "mark", "close", "done"}
  /\ xStep \in Nat /\ xCash \in Int
  /\ xBars \in [Symbols -> TriggerBars \union {NoBar}]
  /\ DOMAIN xHeld \subseteq Symbols /\ \A s \in DOMAIN xHeld : Opened(xHeld[s])
  /\ IsFiniteSet(xTrades) /\ \A t \in xTrades : Booked(t)
  /\ \A o \in xOrders : Queued(o)
  /\ xAccount.equity \in Int
  /\ xAccount = [equity |-> xAccount.equity, peak |-> xAccount.peak,
                halted |-> xAccount.halted, price |-> xAccount.price]

\* What is held has a price, from the mark before or of this bar.
PricesAreKnown ==
  \A s \in DOMAIN xHeld :
    \/ s \in DOMAIN xAccount.price /\ xAccount.price[s] \in Int
    \/ xPhase \in {"fills", "decide", "mark"} /\ T!Prints(s)

\* A symbol is closed once for a reason at a step.
TradesAreOfTheirStep ==
  \A t \in xTrades :
    /\ t.at <= xStep /\ (xPhase = "exits" => t.at < xStep)
    /\ xPhase \in {"fills", "decide", "mark"} /\ t.at = xStep => t.why # "halt"
    /\ xPhase # "done" => t.why # "end_of_data"

CashIsSpent == xCash = ShareFunds + Earned(xTrades) + Spent(xHeld)

TriggerInv ==
  /\ BookType /\ PricesAreKnown /\ TradesAreOfTheirStep /\ CashIsSpent
  /\ T!CurveMatchesTrades /\ T!ExitsArePriced

LEMMA SignIs == ASSUME NEW p, p.long \in BOOLEAN  PROVE T!Sign(p) \in {-1, 1}
BY DEF T!Sign

\* The sums of the engine are those of the theorems about sums.
LEMMA SumsAreSums == \A f : T!SumOf(f) = SumFunctionOnSet(f, DOMAIN f)
BY DEF T!SumOf, T!SumFunction, T!SumFunctionOnSet, SumFunctionOnSet, T!FoldFunctionOnSet,
       FoldFunctionOnSet, T!MapThenFoldSet, MapThenFoldSet

LEMMA SumIs ==
  ASSUME NEW f, NEW S, f = [x \in S |-> f[x]]
  PROVE  T!SumOf(f) = SumFunctionOnSet(f, S)
BY SumsAreSums

LEMMA CostIsWhole ==
  ASSUME NEW p, Opened(p)  PROVE Cost(p) \in Int
<1>1. T!Sign(p) \in Int
  BY SignIs DEF Opened
<1>2. T!Sign(p) * p.quantity \in Int
  BY <1>1 DEF Opened
<1>3. T!Sign(p) * p.quantity * p.entry \in Int
  BY <1>2 DEF Opened
<1> QED BY <1>3 DEF Cost, Opened

LEMMA NetIsWhole ==
  ASSUME NEW t, Booked(t)  PROVE T!NetOf(t) \in Int
<1>1. T!Sign(t) \in Int
  BY SignIs DEF Booked
<1>2. T!Sign(t) * t.quantity \in Int /\ t.exit - t.entry \in Int
  BY <1>1 DEF Booked
<1>3. T!Sign(t) * t.quantity * (t.exit - t.entry) \in Int
  BY <1>2
<1> QED BY <1>3 DEF T!NetOf, T!GrossOf, Booked

LEMMA EarnedIsWhole ==
  ASSUME NEW ts, IsFiniteSet(ts), \A t \in ts : Booked(t)
  PROVE  Earned(ts) \in Int /\ Earned(ts) = SumFunctionOnSet([t \in ts |-> T!NetOf(t)], ts)
<1> DEFINE f == [t \in ts |-> T!NetOf(t)]
<1>1. \A t \in ts : f[t] \in Int
  BY NetIsWhole
<1>2. Earned(ts) = SumFunctionOnSet(f, ts)
  BY SumIs DEF Earned
<1> HIDE DEF f
<1>3. SumFunctionOnSet(f, ts) \in Int
  BY <1>1, SumIsInteger
<1> QED BY <1>2, <1>3 DEF f

LEMMA SpentIsWhole ==
  ASSUME NEW book, IsFiniteSet(DOMAIN book), \A s \in DOMAIN book : Opened(book[s])
  PROVE  /\ Spent(book) \in Int
         /\ Spent(book) = SumFunctionOnSet([s \in DOMAIN book |-> Cost(book[s])], DOMAIN book)
<1> DEFINE f == [s \in DOMAIN book |-> Cost(book[s])]
<1>1. \A s \in DOMAIN book : f[s] \in Int
  BY CostIsWhole
<1>2. Spent(book) = SumFunctionOnSet(f, DOMAIN book)
  BY SumIs DEF Spent
<1> HIDE DEF f
<1>3. SumFunctionOnSet(f, DOMAIN book) \in Int
  BY <1>1, SumIsInteger
<1> QED BY <1>2, <1>3 DEF f

\* What a trade brings is its net and what its position had taken.
LEMMA ClosingBringsIn ==
  ASSUME NEW s \in DOMAIN xHeld, Opened(xHeld[s]), s \in Symbols, xStep \in Nat,
         NEW quote, quote.at \in Int, NEW age \in Nat
  PROVE  LET t == T!TradeOf(s, quote, age) IN
         /\ Booked(t) /\ t.symbol = s /\ t.at = xStep /\ t.why = quote.why /\ t.age = age
         /\ t.long = xHeld[s].long /\ t.entry = xHeld[s].entry
         /\ t.exit + T!Sign(t) * Slip = quote.at
         /\ T!Proceeds(t, xHeld[s].fee) \in Int
         /\ T!Proceeds(t, xHeld[s].fee) = T!NetOf(t) + (-1) * Cost(xHeld[s])
<1> DEFINE t == T!TradeOf(s, quote, age)
           p == xHeld[s]
           k == T!Sign(p) * p.quantity
<1>1. T!Sign(p) \in {-1, 1} /\ T!Sign(t) = T!Sign(p)
  BY SignIs DEF Opened, T!TradeOf, T!Sign
<1>2. /\ t.symbol = s /\ t.at = xStep /\ t.why = quote.why /\ t.age = age
      /\ t.long = p.long /\ t.entry = p.entry /\ t.quantity = p.quantity
      /\ t.exit = quote.at - T!Sign(p) * Slip
      /\ t.fees = p.fee + Fee + (IF p.long THEN 0 ELSE Borrow * p.quantity * age)
  BY DEF T!TradeOf
<1>3. p.quantity \in Int /\ p.entry \in Int /\ p.fee \in Int /\ p.long \in BOOLEAN
  BY DEF Opened
<1> HIDE DEF t, p
<1>4. Slip \in Int /\ Fee \in Int /\ Borrow \in Int
  BY ShareConstants
<1>5. t.exit \in Int /\ t.exit + T!Sign(t) * Slip = quote.at
  BY <1>1, <1>2, <1>4
<1>6. t.fees \in Int
  <2>1. Borrow * p.quantity \in Int
    BY <1>3, <1>4
  <2>2. Borrow * p.quantity * age \in Int
    BY <2>1
  <2> QED BY <1>2, <1>3, <1>4, <2>2
<1>7. Booked(t)
  BY <1>2, <1>3, <1>5, <1>6 DEF Booked
<1>8. k \in Int
  BY <1>1, <1>3
<1>9. /\ T!Proceeds(t, p.fee) = k * t.exit - (t.fees - p.fee)
      /\ T!NetOf(t) = k * (t.exit - p.entry) - t.fees
      /\ Cost(p) = -(k * p.entry) - p.fee
  BY <1>1, <1>2 DEF T!Proceeds, T!NetOf, T!GrossOf, Cost
<1> HIDE DEF k
<1>10. /\ k * (t.exit - p.entry) = k * t.exit - k * p.entry
       /\ k * t.exit \in Int /\ k * p.entry \in Int
  BY <1>3, <1>5, <1>8
<1>11. /\ T!Proceeds(t, p.fee) \in Int
       /\ T!Proceeds(t, p.fee) = T!NetOf(t) + (-1) * Cost(p)
  <2> DEFINE a == k * t.exit
             b == k * p.entry
             d == k * (t.exit - p.entry)
  <2>1. a \in Int /\ b \in Int /\ d = a - b
    BY <1>10
  <2>2. /\ T!Proceeds(t, p.fee) = a - (t.fees - p.fee) /\ T!NetOf(t) = d - t.fees
        /\ Cost(p) = -b - p.fee
    BY <1>9
  <2> HIDE DEF a, b, d
  <2> QED BY <1>3, <1>6, <2>1, <2>2
<1> QED BY <1>2, <1>5, <1>7, <1>11 DEF t, p

\* The book and its part that stays, and what the other part took.
LEMMA SpentOfParts ==
  ASSUME IsFiniteSet(DOMAIN xHeld), \A s \in DOMAIN xHeld : Opened(xHeld[s]),
         NEW gone, gone \subseteq DOMAIN xHeld,
         NEW left, DOMAIN left = DOMAIN xHeld \ gone,
         \A s \in DOMAIN left : Cost(left[s]) = Cost(xHeld[s])
  PROVE  /\ Spent(left) \in Int
         /\ SumFunctionOnSet([s \in gone |-> Cost(xHeld[s])], gone) \in Int
         /\ Spent(xHeld) = Spent(left) + SumFunctionOnSet([s \in gone |-> Cost(xHeld[s])], gone)
<1> DEFINE f == [s \in DOMAIN xHeld |-> Cost(xHeld[s])]
           g == [s \in DOMAIN left |-> Cost(left[s])]
           h == [s \in gone |-> Cost(xHeld[s])]
           rest == DOMAIN xHeld \ gone
<1>1. IsFiniteSet(gone) /\ IsFiniteSet(rest) /\ rest \union gone = DOMAIN xHeld /\ rest \intersect gone = {}
  BY FS_Subset
<1>2. /\ \A s \in DOMAIN xHeld : f[s] \in Int
      /\ \A s \in rest : g[s] \in Int /\ g[s] = f[s]
      /\ \A s \in gone : h[s] \in Int /\ h[s] = f[s]
  BY CostIsWhole
<1>3. Spent(xHeld) = SumFunctionOnSet(f, DOMAIN xHeld) /\ Spent(left) = SumFunctionOnSet(g, rest)
  BY SumIs DEF Spent
<1> HIDE DEF f, g, h, rest
<1>4. SumFunctionOnSet(f, rest \union gone) = SumFunctionOnSet(f, rest) + SumFunctionOnSet(f, gone)
  BY <1>1, <1>2, SumOfParts
<1>5. SumFunctionOnSet(g, rest) = SumFunctionOnSet(f, rest) /\ SumFunctionOnSet(g, rest) \in Int
  BY <1>1, <1>2, SumIsOfValues, SumIsInteger
<1>6. SumFunctionOnSet(h, gone) = SumFunctionOnSet(f, gone) /\ SumFunctionOnSet(h, gone) \in Int
  BY <1>1, <1>2, SumIsOfValues, SumIsInteger
<1> QED BY <1>1, <1>3, <1>4, <1>5, <1>6 DEF h

TradesOfQuotes(quotes, aged) == [s \in DOMAIN quotes |-> T!TradeOf(s, quotes[s], xHeld[s].age + aged)]
NewTrades(quotes, aged) == {TradesOfQuotes(quotes, aged)[s] : s \in DOMAIN quotes}

\* A value that is one value and so many times another.
Apart(f, g, h, d, S) == \A x \in S : g[x] \in Int /\ h[x] \in Int /\ f[x] = g[x] + d * h[x]

LEMMA SumOfApart ==
  ASSUME NEW f, NEW g, NEW h, NEW d \in Int, NEW S, IsFiniteSet(S), Apart(f, g, h, d, S)
  PROVE  SumFunctionOnSet(f, S) = SumFunctionOnSet(g, S) + d * SumFunctionOnSet(h, S)
<1>1. \A x \in S : g[x] \in Int /\ h[x] \in Int /\ f[x] = g[x] + d * h[x]
  BY DEF Apart
<1> QED BY <1>1, SumIsLinear

\* Closing positions: the trades of them, and the cash.
LEMMA ClosingKeepsBooks ==
  ASSUME BookType, CashIsSpent, NEW quotes, NEW aged \in Nat, T!CloseAll(quotes, aged),
         DOMAIN quotes \subseteq DOMAIN xHeld, \A s \in DOMAIN quotes : quotes[s].at \in Int,
         \A t \in xTrades, s \in DOMAIN quotes : t # TradesOfQuotes(quotes, aged)[s],
         DOMAIN xHeld' = DOMAIN xHeld \ DOMAIN quotes,
         \A s \in DOMAIN xHeld' : Cost(xHeld'[s]) = Cost(xHeld[s])
  PROVE  /\ xCash' \in Int /\ CashIsSpent' /\ Earned(xTrades') \in Int /\ Spent(xHeld') \in Int
         /\ IsFiniteSet(xTrades') /\ xTrades' = xTrades \union NewTrades(quotes, aged)
         /\ \A t \in xTrades' : Booked(t)
<1> DEFINE S == DOMAIN quotes
           done == TradesOfQuotes(quotes, aged)
           new == {done[s] : s \in S}
           nets == [t \in xTrades \union new |-> T!NetOf(t)]
           old == [t \in xTrades |-> T!NetOf(t)]
           got == [s \in S |-> T!Proceeds(done[s], xHeld[s].fee)]
           net == [s \in S |-> T!NetOf(done[s])]
           cost == [s \in S |-> Cost(xHeld[s])]
<1>1. IsFiniteSet(DOMAIN xHeld) /\ IsFiniteSet(S) /\ IsFiniteSet(xTrades)
  BY ShareConstants, FS_Subset DEF BookType
<1>2. \A s \in S : /\ Booked(done[s]) /\ done[s].symbol = s
                   /\ got[s] \in Int /\ got[s] = T!NetOf(done[s]) + (-1) * Cost(xHeld[s])
  <2> SUFFICES ASSUME NEW s \in S
               PROVE  /\ Booked(done[s]) /\ done[s].symbol = s
                      /\ got[s] \in Int /\ got[s] = T!NetOf(done[s]) + (-1) * Cost(xHeld[s])
    OBVIOUS
  <2>1. s \in DOMAIN xHeld /\ s \in Symbols /\ Opened(xHeld[s]) /\ xStep \in Nat /\ quotes[s].at \in Int
    BY DEF BookType
  <2>2. xHeld[s].age + aged \in Nat
    BY <2>1 DEF Opened
  <2>3. done[s] = T!TradeOf(s, quotes[s], xHeld[s].age + aged) /\ got[s] = T!Proceeds(done[s], xHeld[s].fee)
    BY DEF TradesOfQuotes
  <2> HIDE DEF done, got
  <2> QED BY <2>1, <2>2, <2>3, ClosingBringsIn
<1>3. xTrades' = xTrades \union new /\ xCash' = xCash + SumFunctionOnSet(got, S)
  BY SumIs DEF T!CloseAll, TradesOfQuotes
<1>4. new = {done[s] : s \in S} /\ IsFiniteSet(new) /\ xTrades \intersect new = {}
  <2>1. IsFiniteSet({done[s] : s \in S})
    <3> HIDE DEF done
    <3> QED BY <1>1, ImageIsNoMore
  <2> QED BY <2>1
<1>5. \A t \in xTrades \union new : Booked(t)
  BY <1>2 DEF BookType
<1>6. IsFiniteSet(xTrades \union new)
  BY <1>1, <1>4, FS_Union
<1>7. /\ \A t \in xTrades \union new : nets[t] \in Int
      /\ \A t \in xTrades : old[t] \in Int /\ old[t] = nets[t]
  <2> HIDE DEF new
  <2> QED BY <1>5, NetIsWhole
<1>8. \A s \in S : net[s] \in Int /\ cost[s] \in Int /\ nets[done[s]] = net[s]
  <2>1. \A s \in S : done[s] \in new
    OBVIOUS
  <2>2. \A s \in S : Opened(xHeld[s])
    BY DEF BookType
  <2> HIDE DEF done, new
  <2> QED BY <1>2, <2>1, <2>2, NetIsWhole, CostIsWhole
<1>9. SumFunctionOnSet(got, S) = SumFunctionOnSet(net, S) + (-1) * SumFunctionOnSet(cost, S)
      /\ SumFunctionOnSet(net, S) \in Int /\ SumFunctionOnSet(cost, S) \in Int
  <2>1. \A s \in S : net[s] \in Int /\ cost[s] \in Int /\ got[s] = net[s] + (-1) * cost[s]
    BY <1>2, <1>8
  <2>2. /\ \A s \in S : net[s] \in Int
        /\ \A s \in S : cost[s] \in Int
    BY <1>8
  <2> HIDE DEF got, net, cost, S
  <2>3. SumFunctionOnSet(got, S) = SumFunctionOnSet(net, S) + (-1) * SumFunctionOnSet(cost, S)
    <3> DEFINE d == -1
    <3>1. Apart(got, net, cost, d, S)
      BY <2>1 DEF Apart
    <3>2. SUFFICES SumFunctionOnSet(got, S) = SumFunctionOnSet(net, S) + d * SumFunctionOnSet(cost, S)
      OBVIOUS
    <3>3. d \in Int /\ IsFiniteSet(S)
      BY <1>1
    <3> HIDE DEF d
    <3> QED BY ONLY <3>1, <3>3, SumOfApart
  <2> QED BY <1>1, <2>2, <2>3, SumIsInteger
<1>10. SumFunctionOnSet(nets, xTrades \union new) = SumFunctionOnSet(nets, xTrades) + SumFunctionOnSet(nets, new)
  <2> HIDE DEF nets, new
  <2> QED BY <1>1, <1>4, <1>7, SumOfParts
<1>11. SumFunctionOnSet(nets, xTrades) = SumFunctionOnSet(old, xTrades)
  <2> HIDE DEF nets, old, new
  <2> QED BY <1>1, <1>7, SumIsOfValues
<1>12. SumFunctionOnSet(nets, new) = SumFunctionOnSet(net, S)
  <2> DEFINE took == [s \in S |-> nets[done[s]]]
  <2>1. \A r, s \in S : done[r] = done[s] => r = s
    BY <1>2
  <2>2. \A s \in S : nets[done[s]] \in Int
    BY <1>8
  <2>3. SumFunctionOnSet(nets, {done[s] : s \in S}) = SumFunctionOnSet([s \in S |-> nets[done[s]]], S)
    <3> HIDE DEF done, nets, S
    <3> QED BY <1>1, <2>1, <2>2, SumOfImage
  <2>4. SumFunctionOnSet(took, S) = SumFunctionOnSet(net, S)
    <3>1. \A s \in S : took[s] \in Int /\ took[s] = net[s]
      BY <1>8
    <3> HIDE DEF took, net, S
    <3> QED BY <1>1, <3>1, SumIsOfValues
  <2> QED BY <2>3, <2>4
<1>13. /\ Earned(xTrades) = SumFunctionOnSet(old, xTrades) /\ Earned(xTrades) \in Int
       /\ Earned(xTrades \union new) = SumFunctionOnSet(nets, xTrades \union new)
       /\ Earned(xTrades \union new) \in Int
  <2> HIDE DEF new
  <2> QED BY <1>1, <1>5, <1>6, EarnedIsWhole
<1>14. /\ Spent(xHeld') \in Int
       /\ Spent(xHeld) = Spent(xHeld') + SumFunctionOnSet(cost, S)
  <2>1. \A s \in DOMAIN xHeld : Opened(xHeld[s])
    BY DEF BookType
  <2> QED BY <1>1, <2>1, SpentOfParts
<1> HIDE DEF S, done, new, nets, old, got, net, cost
<1>15. ShareFunds \in Int /\ xCash \in Int /\ xCash = ShareFunds + Earned(xTrades) + Spent(xHeld)
  BY ShareConstants DEF BookType, CashIsSpent
<1>16. xCash' = ShareFunds + Earned(xTrades') + Spent(xHeld') /\ xCash' \in Int
  BY <1>3, <1>9, <1>10, <1>11, <1>12, <1>13, <1>14, <1>15
<1>17. new = NewTrades(quotes, aged)
  BY DEF new, done, S, NewTrades
<1> QED BY <1>3, <1>5, <1>6, <1>13, <1>14, <1>16, <1>17, ShareConstants DEF CashIsSpent

-----------------------------------------------------------------------------
\* What marking a book at prices adds is what its positions stand at.
Carried(book, price) ==
  T!SumOf([s \in DOMAIN book |-> T!Sign(book[s]) * book[s].quantity * (price[s] - book[s].entry) - book[s].fee])

LEMMA MarkIsTheRest ==
  ASSUME NEW book, IsFiniteSet(DOMAIN book), \A s \in DOMAIN book : Opened(book[s]),
         NEW price, \A s \in DOMAIN book : price[s] \in Int
  PROVE  /\ T!Worth(book, price) \in Int
         /\ Carried(book, price) = Spent(book) + T!Worth(book, price)
<1> DEFINE S == DOMAIN book
           f == [s \in S |-> T!Sign(book[s]) * book[s].quantity * (price[s] - book[s].entry) - book[s].fee]
           g == [s \in S |-> Cost(book[s])]
           h == [s \in S |-> T!Sign(book[s]) * book[s].quantity * price[s]]
<1>1. \A s \in S : g[s] \in Int /\ h[s] \in Int /\ f[s] = g[s] + 1 * h[s]
  <2> SUFFICES ASSUME NEW s \in S  PROVE g[s] \in Int /\ h[s] \in Int /\ f[s] = g[s] + 1 * h[s]
    OBVIOUS
  <2> DEFINE p == book[s]
             k == T!Sign(p) * p.quantity
  <2>1. p.quantity \in Int /\ p.entry \in Int /\ p.fee \in Int /\ price[s] \in Int /\ T!Sign(p) \in {-1, 1}
    BY SignIs DEF Opened
  <2>2. /\ f[s] = k * (price[s] - p.entry) - p.fee /\ g[s] = -(k * p.entry) - p.fee
        /\ h[s] = k * price[s]
    BY DEF Cost
  <2>3. k \in Int
    BY <2>1
  <2> HIDE DEF p, k, f, g, h
  <2>4. k * (price[s] - p.entry) = k * price[s] - k * p.entry /\ k * price[s] \in Int /\ k * p.entry \in Int
    BY <2>1, <2>3
  <2> QED BY <2>1, <2>2, <2>4
<1>2. /\ \A s \in S : g[s] \in Int
      /\ \A s \in S : h[s] \in Int
  BY <1>1
<1>3. /\ Spent(book) = SumFunctionOnSet(g, S) /\ T!Worth(book, price) = SumFunctionOnSet(h, S)
      /\ Carried(book, price) = SumFunctionOnSet(f, S)
  BY SumIs DEF Spent, T!Worth, Carried
<1> HIDE DEF S, f, g, h
<1>4. SumFunctionOnSet(f, S) = SumFunctionOnSet(g, S) + 1 * SumFunctionOnSet(h, S)
  BY <1>1, 1 \in Int, SumIsLinear, S = DOMAIN book DEF S
<1>5. SumFunctionOnSet(g, S) \in Int /\ SumFunctionOnSet(h, S) \in Int
  BY <1>2, SumIsInteger DEF S
<1> QED BY <1>3, <1>4, <1>5

LEMMA OfNoBook == ASSUME NEW book, DOMAIN book = {}, NEW price
  PROVE Spent(book) = 0 /\ Carried(book, price) = 0
BY SumIs, SumOfNone DEF Spent, Carried

LEMMA CurveIs ==
  T!CurveMatchesTrades <=>
    (xPhase \in {"bars", "done"} =>
       xAccount.equity = ShareFunds + Earned(xTrades) + Carried(xHeld, xAccount.price))
BY DEF T!CurveMatchesTrades, Earned, Carried

LEMMA TriggerInitially == T!Init => TriggerInv
<1> SUFFICES ASSUME T!Init  PROVE TriggerInv
  OBVIOUS
<1>1. DOMAIN xHeld = {} /\ xTrades = {} /\ xOrders = {}
      /\ xCash = ShareFunds /\ xAccount.equity = ShareFunds /\ ShareFunds \in Int
      /\ xPhase = "bars"
  BY ShareConstants DEF T!Init
<1>2. Earned({}) = 0 /\ Spent(xHeld) = 0 /\ Carried(xHeld, xAccount.price) = 0
  <2>1. Earned({}) = 0
    <3> DEFINE f == [t \in {} |-> T!NetOf(t)]
    <3>1. T!SumOf(f) = SumFunctionOnSet(f, {})
      BY SumIs
    <3> HIDE DEF f
    <3>2. T!SumOf(f) = 0
      BY <3>1, SumOfNone
    <3> QED BY <3>2 DEF f, Earned
  <2> QED BY <1>1, <2>1, OfNoBook
<1>3. BookType
  <2>1. xBars \in [Symbols -> TriggerBars \union {NoBar}] /\ xStep \in Nat
        /\ xAccount = [equity |-> xAccount.equity, peak |-> xAccount.peak,
                      halted |-> xAccount.halted, price |-> xAccount.price]
    BY DEF T!Init
  <2> QED BY <1>1, <2>1, FS_EmptySet DEF BookType
<1>4. PricesAreKnown /\ TradesAreOfTheirStep /\ T!ExitsArePriced
  BY <1>1 DEF PricesAreKnown, TradesAreOfTheirStep, T!ExitsArePriced
<1>5. CashIsSpent
  BY <1>1, <1>2 DEF CashIsSpent
<1>6. T!CurveMatchesTrades
  BY <1>1, <1>2, CurveIs
<1> QED BY <1>3, <1>4, <1>5, <1>6 DEF TriggerInv

LEMMA NextBarsKeep == TriggerInv /\ T!NextBars => TriggerInv'
<1> SUFFICES ASSUME TriggerInv, T!NextBars  PROVE TriggerInv'
  OBVIOUS
<1>1. /\ xPhase = "bars" /\ xPhase' = "exits" /\ xStep' = xStep + 1 /\ xStep \in Nat
      /\ xBars' \in [Symbols -> TriggerBars \union {NoBar}]
      /\ UNCHANGED <<xLife, xCash, xHeld, xOrders, xTrades, xAccount>>
  BY DEF T!NextBars, TriggerInv, BookType
<1>2. BookType'
  BY <1>1 DEF TriggerInv, BookType
<1>3. PricesAreKnown'
  BY <1>1 DEF TriggerInv, PricesAreKnown
<1>4. \A t \in xTrades' : t.at < xStep' /\ t.why # "end_of_data"
  BY <1>1 DEF TriggerInv, TradesAreOfTheirStep, BookType, Booked
<1>5. TradesAreOfTheirStep'
  BY <1>1, <1>4 DEF TriggerInv, TradesAreOfTheirStep, BookType, Booked
<1>6. CashIsSpent'
  BY <1>1 DEF TriggerInv, CashIsSpent
<1>7. T!CurveMatchesTrades'
  BY <1>1 DEF T!CurveMatchesTrades
<1>8. T!ExitsArePriced'
  <2>1. \A t \in xTrades' : t.at # xStep' /\ (t.age = 0 => t.why \in {"halt", "end_of_data"})
    BY <1>1, <1>4 DEF TriggerInv, T!ExitsArePriced, BookType, Booked
  <2> QED BY <2>1 DEF T!ExitsArePriced
<1> QED BY <1>2, <1>3, <1>5, <1>6, <1>7, <1>8 DEF TriggerInv

\* A quote is of the bar it is made on.
LEMMA ExitIsOfItsBar ==
  ASSUME NEW p, Opened(p), NEW b \in TriggerBars
  PROVE  LET q == T!ExitQuote(p, b) IN
         \/ q = T!Stays
         \/ /\ q.at \in Int /\ b.low <= q.at /\ q.at <= b.high
            /\ q.why \in {"stop_gap", "stop", "target_gap", "target"}
            /\ q.why = "target" =>
                 IF p.long THEN b.low > p.entry - StopDistance ELSE b.high < p.entry + StopDistance
<1>1. /\ b.open \in Int /\ b.low \in Int /\ b.high \in Int /\ b.low <= b.open /\ b.open <= b.high
      /\ StopDistance \in Int
  BY ShareConstants
<1>2. p.long \in BOOLEAN /\ p.entry \in Int /\ p.target \in Int
      /\ p.stop = p.entry - T!Sign(p) * StopDistance
  BY DEF Opened
<1>3. CASE p.long
  <2>1. T!Sign(p) = 1 /\ p.stop = p.entry - StopDistance
    BY <1>1, <1>2, <1>3 DEF T!Sign
  <2> QED BY <1>1, <1>2, <1>3, <2>1 DEF T!ExitQuote, T!Quote
<1>4. CASE ~p.long
  <2>1. T!Sign(p) = -1 /\ p.stop = p.entry + StopDistance
    BY <1>1, <1>2, <1>4 DEF T!Sign
  <2> QED BY <1>1, <1>2, <1>4, <2>1 DEF T!ExitQuote, T!Quote
<1> QED BY <1>2, <1>3, <1>4

LEMMA ClosingIsOfItsBar ==
  ASSUME NEW s \in DOMAIN xHeld, Opened(xHeld[s]), xBars[s] \in TriggerBars, NEW signalled \in BOOLEAN,
         T!Closing(s, signalled) # T!Stays
  PROVE  LET q == T!Closing(s, signalled) IN
         /\ q.at \in Int /\ xBars[s].low <= q.at /\ q.at <= xBars[s].high
         /\ q.why \notin {"halt", "end_of_data"}
         /\ q.why = "target" =>
              IF xHeld[s].long THEN xBars[s].low > xHeld[s].entry - StopDistance
                              ELSE xBars[s].high < xHeld[s].entry + StopDistance
<1> DEFINE b == xBars[s]
           x == T!ExitQuote(xHeld[s], b)
           q == T!Closing(s, signalled)
<1>1. /\ b.open \in Int /\ b.close \in Int /\ b.low <= b.open /\ b.open <= b.high
      /\ b.low <= b.close /\ b.close <= b.high
  BY ShareConstants
<1>2. \/ q = T!Quote(b.open, "signal") \/ q = T!Quote(b.open, "max_holding")
      \/ q = x \/ q = T!Quote(b.close, "delisted")
  BY DEF T!Closing
<1>3. \/ x = T!Stays
      \/ /\ x.at \in Int /\ b.low <= x.at /\ x.at <= b.high
         /\ x.why \in {"stop_gap", "stop", "target_gap", "target"}
         /\ x.why = "target" =>
              IF xHeld[s].long THEN b.low > xHeld[s].entry - StopDistance ELSE b.high < xHeld[s].entry + StopDistance
  BY ExitIsOfItsBar
<1>4. q # T!Stays
  OBVIOUS
<1> HIDE DEF q, x, b
<1>5. /\ q.at \in Int /\ b.low <= q.at /\ q.at <= b.high
      /\ q.why \notin {"halt", "end_of_data"}
      /\ q.why = "target" =>
           IF xHeld[s].long THEN b.low > xHeld[s].entry - StopDistance ELSE b.high < xHeld[s].entry + StopDistance
  BY <1>1, <1>2, <1>3, <1>4 DEF T!Quote
<1> QED BY <1>5 DEF q, b

LEMMA PositionsAreFinite == BookType => IsFiniteSet(DOMAIN xHeld)
BY ShareConstants, FS_Subset DEF BookType

LEMMA ExitsKeep == TriggerInv /\ T!Exits => TriggerInv'
<1> SUFFICES ASSUME TriggerInv, T!Exits  PROVE TriggerInv'
  OBVIOUS
<1> DEFINE printing == {r \in DOMAIN xHeld : T!Prints(r)}
<1>1. PICK signalled \in SUBSET printing :
        LET quotes == [s \in printing |-> T!Closing(s, s \in signalled)]
            gone == {s \in DOMAIN quotes : quotes[s] # T!Stays}
        IN /\ T!CloseAll([s \in gone |-> quotes[s]], 1)
           /\ xHeld' = [s \in DOMAIN xHeld \ gone |->
                         IF T!Prints(s) THEN [xHeld[s] EXCEPT !.age = @ + 1] ELSE xHeld[s]]
           /\ xOrders' = {o \in xOrders : ~(o.symbol \in gone /\ quotes[o.symbol].why = "delisted")}
  BY DEF T!Exits
<1> DEFINE quote == [s \in printing |-> T!Closing(s, s \in signalled)]
           gone == {s \in printing : quote[s] # T!Stays}
           quotes == [s \in gone |-> quote[s]]
           done == TradesOfQuotes(quotes, 1)
<1>2. /\ T!CloseAll(quotes, 1) /\ xOrders' \subseteq xOrders
      /\ xHeld' = [s \in DOMAIN xHeld \ gone |->
                    IF T!Prints(s) THEN [xHeld[s] EXCEPT !.age = @ + 1] ELSE xHeld[s]]
  BY <1>1
<1>3. xPhase = "exits" /\ xPhase' = "fills" /\ UNCHANGED <<xStep, xBars, xLife, xAccount>>
  BY DEF T!Exits
<1>4. BookType /\ CashIsSpent /\ TradesAreOfTheirStep /\ PricesAreKnown /\ T!ExitsArePriced
  BY DEF TriggerInv
<1>5. \A s \in gone : /\ s \in DOMAIN xHeld /\ s \in Symbols /\ Opened(xHeld[s]) /\ xBars[s] \in TriggerBars
                      /\ quotes[s].at \in Int
                      /\ xBars[s].low <= quotes[s].at /\ quotes[s].at <= xBars[s].high
                      /\ quotes[s].why \notin {"halt", "end_of_data"}
                      /\ quotes[s].why = "target" =>
                           IF xHeld[s].long THEN xBars[s].low > xHeld[s].entry - StopDistance
                                           ELSE xBars[s].high < xHeld[s].entry + StopDistance
  <2> SUFFICES ASSUME NEW s \in gone
               PROVE  /\ s \in DOMAIN xHeld /\ s \in Symbols /\ Opened(xHeld[s]) /\ xBars[s] \in TriggerBars
                      /\ quotes[s].at \in Int
                      /\ xBars[s].low <= quotes[s].at /\ quotes[s].at <= xBars[s].high
                      /\ quotes[s].why \notin {"halt", "end_of_data"}
                      /\ quotes[s].why = "target" =>
                           IF xHeld[s].long THEN xBars[s].low > xHeld[s].entry - StopDistance
                                           ELSE xBars[s].high < xHeld[s].entry + StopDistance
    OBVIOUS
  <2>1. s \in DOMAIN xHeld /\ s \in Symbols /\ Opened(xHeld[s]) /\ xBars[s] \in TriggerBars
    BY <1>4 DEF BookType, T!Prints
  <2>2. (s \in signalled) \in BOOLEAN /\ quotes[s] = T!Closing(s, s \in signalled)
        /\ T!Closing(s, s \in signalled) # T!Stays
    OBVIOUS
  <2> HIDE DEF quotes, gone, quote, printing
  <2> QED BY <2>1, <2>2, ClosingIsOfItsBar
<1>6. \A s \in gone : done[s] = T!TradeOf(s, quotes[s], xHeld[s].age + 1)
  BY DEF TradesOfQuotes
<1>7. \A s \in gone : /\ done[s].symbol = s /\ done[s].at = xStep /\ done[s].why = quotes[s].why
                      /\ done[s].age = xHeld[s].age + 1
                      /\ done[s].long = xHeld[s].long /\ done[s].entry = xHeld[s].entry
                      /\ done[s].exit + T!Sign(done[s]) * Slip = quotes[s].at
  <2> SUFFICES ASSUME NEW s \in gone
               PROVE  /\ done[s].symbol = s /\ done[s].at = xStep /\ done[s].why = quotes[s].why
                      /\ done[s].age = xHeld[s].age + 1
                      /\ done[s].long = xHeld[s].long /\ done[s].entry = xHeld[s].entry
                      /\ done[s].exit + T!Sign(done[s]) * Slip = quotes[s].at
    OBVIOUS
  <2>1. xHeld[s].age + 1 \in Nat /\ xStep \in Nat
    BY <1>4, <1>5 DEF BookType, Opened
  <2> HIDE DEF done, quotes, gone
  <2> QED BY <1>5, <1>6, <2>1, ClosingBringsIn
<1> HIDE DEF done, quotes, quote
<1>8. DOMAIN quotes = gone /\ done = TradesOfQuotes(quotes, 1)
  BY DEF quotes, done
<1> HIDE DEF gone, printing
<1>9. DOMAIN xHeld' = DOMAIN xHeld \ gone
      /\ \A s \in DOMAIN xHeld' : Opened(xHeld'[s]) /\ Cost(xHeld'[s]) = Cost(xHeld[s])
  <2>1. DOMAIN xHeld' = DOMAIN xHeld \ gone
    BY <1>2
  <2> SUFFICES ASSUME NEW s \in DOMAIN xHeld'
               PROVE  Opened(xHeld'[s]) /\ Cost(xHeld'[s]) = Cost(xHeld[s])
    BY <2>1
  <2>2. s \in DOMAIN xHeld /\ Opened(xHeld[s])
        /\ xHeld'[s] = IF T!Prints(s) THEN [xHeld[s] EXCEPT !.age = @ + 1] ELSE xHeld[s]
    BY <1>2, <1>4 DEF BookType
  <2> DEFINE p == xHeld[s]
             q == xHeld'[s]
  <2>3. /\ q.long = p.long /\ q.quantity = p.quantity /\ q.entry = p.entry /\ q.fee = p.fee
        /\ q.target = p.target /\ q.stop = p.stop /\ (q.age = p.age \/ q.age = p.age + 1)
    <3>1. CASE q = p
      BY <3>1
    <3>2. CASE q = [p EXCEPT !.age = @ + 1]
      BY <2>2, <3>2 DEF Opened
    <3> QED BY <2>2, <3>1, <3>2
  <2> HIDE DEF p, q
  <2>4. Opened(q) /\ Cost(q) = Cost(p)
    BY <2>2, <2>3 DEF Opened, Cost, T!Sign, p
  <2> QED BY <2>4 DEF p, q
<1>10. /\ xCash' \in Int /\ CashIsSpent' /\ IsFiniteSet(xTrades')
       /\ xTrades' = xTrades \union NewTrades(quotes, 1) /\ \A t \in xTrades' : Booked(t)
  <2>1. \A t \in xTrades, s \in gone : t # done[s]
    <3> SUFFICES ASSUME NEW t \in xTrades, NEW s \in gone  PROVE t.at # done[s].at
      OBVIOUS
    <3> QED BY <1>3, <1>4, <1>7 DEF TradesAreOfTheirStep, BookType, Booked
  <2> QED BY <1>2, <1>4, <1>5, <1>8, <1>9, <2>1, 1 \in Nat, ClosingKeepsBooks
<1>11. \A t \in xTrades' : t \in xTrades \/ \E s \in gone : t = done[s]
  BY <1>8, <1>10 DEF NewTrades
<1>12. BookType'
  BY <1>2, <1>3, <1>4, <1>9, <1>10 DEF BookType
<1>13. PricesAreKnown'
  BY <1>3, <1>4, <1>9 DEF PricesAreKnown
<1>14. TradesAreOfTheirStep'
  BY <1>3, <1>4, <1>5, <1>7, <1>11 DEF TradesAreOfTheirStep, BookType, Booked
<1>15. T!CurveMatchesTrades'
  BY <1>3 DEF T!CurveMatchesTrades
<1>16. T!ExitsArePriced'
  <2> SUFFICES ASSUME NEW t \in xTrades'
               PROVE  LET quoted == t.exit + T!Sign(t) * Slip
                      IN /\ t.at = xStep /\ t.why # "end_of_data" =>
                              xBars[t.symbol].low <= quoted /\ quoted <= xBars[t.symbol].high
                         /\ t.why = "target" /\ t.at = xStep =>
                              IF t.long THEN xBars[t.symbol].low > t.entry - StopDistance
                                        ELSE xBars[t.symbol].high < t.entry + StopDistance
                         /\ t.age = 0 => t.why \in {"halt", "end_of_data"}
    BY <1>3 DEF T!ExitsArePriced
  <2>1. CASE t \in xTrades
    BY <1>4, <2>1 DEF T!ExitsArePriced
  <2>2. CASE \E s \in gone : t = done[s]
    <3>1. PICK s \in gone : t = done[s]
      BY <2>2
    <3>2. t.age # 0
      BY <1>5, <1>7, <3>1 DEF Opened
    <3> QED BY <1>5, <1>7, <3>1, <3>2
  <2> QED BY <1>11, <2>1, <2>2
<1> QED BY <1>10, <1>12, <1>13, <1>14, <1>15, <1>16 DEF TriggerInv

LEMMA Quotient == ASSUME NEW a \in Int, NEW b \in Nat \ {0}  PROVE a \div b \in Int
OBVIOUS

LEMMA Product == ASSUME NEW a \in Nat \ {0}, NEW b \in Nat \ {0}  PROVE a * b \in Nat \ {0}
OBVIOUS

LEMMA SmallestIs ==
  ASSUME NEW S, IsFiniteSet(S), S \subseteq Int, S # {}
  PROVE  T!Smallest(S) \in Int
<1>1. \E n \in S : \A m \in S : n <= m
  BY LeastInteger
<1>2. T!Smallest(S) \in S
  BY <1>1 DEF T!Smallest
<1> QED BY <1>2

LEMMA SizeIsWhole ==
  ASSUME BookType, NEW o, Queued(o), o.distance > 0, NEW fill \in Nat \ {0}, NEW volume \in Volumes
  PROVE  T!SizeOf(o, fill, volume) \in Int
<1> DEFINE cap == xAccount.equity \div (SizeShare * fill)
           risk == xAccount.equity \div (TradeRisk * o.distance)
           own == IF o.long THEN {IF xCash > 0 THEN xCash \div fill ELSE 0} ELSE {}
           S == {cap, risk, volume} \union own
<1>1. xAccount.equity \in Int /\ xCash \in Int
  BY DEF BookType
<1>2. /\ SizeShare \in Nat \ {0} /\ TradeRisk \in Nat \ {0} /\ o.distance \in Nat \ {0}
      /\ volume \in Int
  BY ShareConstants DEF Queued
<1>3. SizeShare * fill \in Nat \ {0} /\ TradeRisk * o.distance \in Nat \ {0}
  BY <1>2, Product
<1>4. cap \in Int /\ risk \in Int /\ xCash \div fill \in Int
  BY <1>1, <1>3, Quotient
<1>5. S \subseteq Int /\ S # {}
  BY <1>2, <1>4
<1>6. IsFiniteSet(S)
  <2>1. IsFiniteSet({}) /\ IsFiniteSet({cap}) /\ IsFiniteSet({cap, risk, volume})
    <3>1. IsFiniteSet({} \union {cap}) /\ {} \union {cap} = {cap}
      BY FS_EmptySet, FS_AddElement
    <3>2. IsFiniteSet({cap} \union {risk}) /\ {cap} \union {risk} = {cap, risk}
      BY <3>1, FS_AddElement
    <3>3. IsFiniteSet({cap, risk} \union {volume}) /\ {cap, risk} \union {volume} = {cap, risk, volume}
      BY <3>2, FS_AddElement
    <3> QED BY <3>1, <3>3, FS_EmptySet
  <2>2. own = {} \/ \E n : own = {n}
    OBVIOUS
  <2> HIDE DEF cap, risk, own
  <2>3. CASE own = {}
    BY <2>1, <2>3
  <2>4. CASE \E n : own = {n}
    BY <2>1, <2>4, FS_AddElement
  <2> QED BY <2>2, <2>3, <2>4
<1>7. T!Smallest(S) \in Int
  <2> HIDE DEF S
  <2> QED BY <1>5, <1>6, SmallestIs
<1>8. T!SizeOf(o, fill, volume) = IF xAccount.equity <= 0 THEN 0 ELSE T!Smallest(S)
  BY DEF T!SizeOf
<1> QED BY <1>7, <1>8

\* What opening a position takes.
LEMMA OpeningKeepsBooks ==
  ASSUME BookType, NEW a \in Symbols, a \notin DOMAIN xHeld, NEW p, Opened(p),
         xHeld' = [s \in DOMAIN xHeld \union {a} |-> IF s \in DOMAIN xHeld THEN xHeld[s] ELSE p]
  PROVE  /\ \A s \in DOMAIN xHeld' : Opened(xHeld'[s])
         /\ Spent(xHeld) \in Int /\ Spent(xHeld') = Spent(xHeld) + Cost(p)
<1> DEFINE f == [s \in DOMAIN xHeld' |-> Cost(xHeld'[s])]
           g == [s \in DOMAIN xHeld |-> Cost(xHeld[s])]
<1>1. IsFiniteSet(DOMAIN xHeld) /\ DOMAIN xHeld' = DOMAIN xHeld \union {a}
  BY PositionsAreFinite
<1>2. \A s \in DOMAIN xHeld' : Opened(xHeld'[s])
  BY DEF BookType
<1>3. /\ \A s \in DOMAIN xHeld \union {a} : f[s] \in Int
      /\ \A s \in DOMAIN xHeld : g[s] \in Int /\ g[s] = f[s]
      /\ f[a] = Cost(p)
  BY <1>1, <1>2, CostIsWhole
<1>4. Spent(xHeld) = SumFunctionOnSet(g, DOMAIN xHeld) /\ Spent(xHeld') = SumFunctionOnSet(f, DOMAIN xHeld')
  BY SumIs DEF Spent
<1> HIDE DEF f, g
<1>5. SumFunctionOnSet(f, DOMAIN xHeld \union {a}) = SumFunctionOnSet(f, DOMAIN xHeld) + f[a]
  BY <1>1, <1>3, SumOfOneMore
<1>6. SumFunctionOnSet(g, DOMAIN xHeld) = SumFunctionOnSet(f, DOMAIN xHeld)
      /\ SumFunctionOnSet(g, DOMAIN xHeld) \in Int
  BY <1>1, <1>3, SumIsOfValues, SumIsInteger
<1> QED BY <1>1, <1>2, <1>3, <1>4, <1>5, <1>6

LEMMA FillsKeep == TriggerInv /\ T!Fills => TriggerInv'
<1> SUFFICES ASSUME TriggerInv, T!Fills  PROVE TriggerInv'
  OBVIOUS
<1>1. xPhase = "fills" /\ xPhase' \in {"fills", "decide"} /\ UNCHANGED <<xStep, xBars, xLife, xTrades, xAccount>>
  BY DEF T!Fills
<1>2. BookType /\ CashIsSpent /\ TradesAreOfTheirStep /\ PricesAreKnown /\ T!ExitsArePriced
  BY DEF TriggerInv
<1>3. TradesAreOfTheirStep'
  BY <1>1, <1>2 DEF TradesAreOfTheirStep
<1>4. T!CurveMatchesTrades'
  BY <1>1 DEF T!CurveMatchesTrades
<1>5. T!ExitsArePriced'
  BY <1>1, <1>2 DEF T!ExitsArePriced
<1>6. CASE UNCHANGED <<xCash, xHeld>> /\ xOrders' \subseteq xOrders
  <2>1. BookType' /\ PricesAreKnown' /\ CashIsSpent'
    BY <1>1, <1>2, <1>6 DEF BookType, PricesAreKnown, CashIsSpent, T!Prints
  <2> QED BY <1>3, <1>4, <1>5, <2>1 DEF TriggerInv
<1>7. CASE \E o \in T!Due, volume \in Volumes :
             LET sign == T!Sign(o)
                 fill == xBars[o.symbol].open + sign * Slip
                 quantity == T!SizeOf(o, fill, volume)
             IN /\ T!Fillable(o) /\ xOrders' \subseteq xOrders
                /\ xCash' = xCash - (sign * quantity * fill + Fee)
                /\ xHeld' = [s \in DOMAIN xHeld \union {o.symbol} |->
                     IF s \in DOMAIN xHeld THEN xHeld[s]
                     ELSE [long |-> o.long, quantity |-> quantity, entry |-> fill, fee |-> Fee,
                           stop |-> fill - sign * o.distance, age |-> 0,
                           target |-> IF Reward = 0 THEN 0 ELSE fill + sign * Reward]]
  <2>1. PICK o \in T!Due, volume \in Volumes :
             LET sign == T!Sign(o)
                 fill == xBars[o.symbol].open + sign * Slip
                 quantity == T!SizeOf(o, fill, volume)
             IN /\ T!Fillable(o) /\ xOrders' \subseteq xOrders
                /\ xCash' = xCash - (sign * quantity * fill + Fee)
                /\ xHeld' = [s \in DOMAIN xHeld \union {o.symbol} |->
                     IF s \in DOMAIN xHeld THEN xHeld[s]
                     ELSE [long |-> o.long, quantity |-> quantity, entry |-> fill, fee |-> Fee,
                           stop |-> fill - sign * o.distance, age |-> 0,
                           target |-> IF Reward = 0 THEN 0 ELSE fill + sign * Reward]]
    BY <1>7
  <2> DEFINE a == o.symbol
             sign == T!Sign(o)
             fill == xBars[a].open + sign * Slip
             quantity == T!SizeOf(o, fill, volume)
             p == [long |-> o.long, quantity |-> quantity, entry |-> fill, fee |-> Fee,
                   stop |-> fill - sign * o.distance, age |-> 0,
                   target |-> IF Reward = 0 THEN 0 ELSE fill + sign * Reward]
  <2>2. /\ T!Fillable(o) /\ xOrders' \subseteq xOrders
        /\ xCash' = xCash - (sign * quantity * fill + Fee)
        /\ xHeld' = [s \in DOMAIN xHeld \union {a} |-> IF s \in DOMAIN xHeld THEN xHeld[s] ELSE p]
    BY <2>1
  <2>3. Queued(o) /\ a \in Symbols /\ o.long \in BOOLEAN /\ xBars[a] \in TriggerBars /\ T!Prints(a)
    BY <1>2 DEF T!Due, BookType, Queued, T!Prints
  <2>4. a \notin DOMAIN xHeld /\ o.distance = StopDistance /\ o.distance > 0
    BY <2>2, <2>3, ShareConstants DEF T!Fillable, Queued
  <2>5. sign \in {-1, 1} /\ fill \in Nat \ {0} /\ Fee \in Int /\ Reward \in Int /\ StopDistance \in Int
    <3>1. /\ xBars[a].open \in Nat /\ xBars[a].low \in Nat /\ xBars[a].low <= xBars[a].open
          /\ Slip < xBars[a].low /\ Slip \in Nat
      BY <2>3, ShareConstants
    <3> QED BY <2>3, <3>1, SignIs, ShareConstants
  <2>6. quantity \in Int
    <3> HIDE DEF fill
    <3> QED BY <1>2, <2>3, <2>4, <2>5, SizeIsWhole
  <2>7. /\ p.long = o.long /\ p.quantity = quantity /\ p.entry = fill /\ p.fee = Fee /\ p.age = 0
        /\ p.stop = fill - sign * StopDistance /\ p.target \in Int /\ T!Sign(p) = sign
    <3> HIDE DEF fill, quantity
    <3> QED BY <2>4, <2>5 DEF T!Sign
  <2> HIDE DEF p, quantity, fill, sign
  <2>8. Opened(p) /\ Cost(p) = -(sign * quantity * fill) - Fee
    BY <2>3, <2>5, <2>6, <2>7 DEF Opened, Cost
  <2> HIDE DEF a
  <2>9. /\ \A s \in DOMAIN xHeld' : Opened(xHeld'[s])
        /\ Spent(xHeld) \in Int /\ Spent(xHeld') = Spent(xHeld) + Cost(p)
    BY <1>2, <2>2, <2>3, <2>4, <2>8, OpeningKeepsBooks
  <2>10. sign * quantity * fill \in Int
    <3>1. sign * quantity \in Int
      BY <2>5, <2>6
    <3> QED BY <2>5, <3>1
  <2>11. xCash \in Int /\ xCash = ShareFunds + Earned(xTrades) + Spent(xHeld)
         /\ ShareFunds \in Int /\ Earned(xTrades) \in Int
    BY <1>2, EarnedIsWhole, ShareConstants DEF BookType, CashIsSpent
  <2>12. xCash' \in Int /\ xCash' = ShareFunds + Earned(xTrades) + Spent(xHeld')
    BY <2>2, <2>5, <2>8, <2>9, <2>10, <2>11
  <2>13. DOMAIN xHeld' = DOMAIN xHeld \union {a}
    BY <2>2
  <2>14. BookType'
    BY <1>1, <1>2, <2>2, <2>3, <2>9, <2>12, <2>13 DEF BookType
  <2>15. PricesAreKnown'
    <3> SUFFICES ASSUME NEW s \in DOMAIN xHeld', xPhase' \in {"fills", "decide"}
                 PROVE  (s \in DOMAIN xAccount.price /\ xAccount.price[s] \in Int) \/ T!Prints(s)
      BY <1>1 DEF PricesAreKnown, T!Prints
    <3> QED BY <1>2, <2>3, <2>13 DEF PricesAreKnown
  <2>16. CashIsSpent'
    BY <1>1, <2>12 DEF CashIsSpent
  <2> QED BY <1>3, <1>4, <1>5, <2>14, <2>15, <2>16 DEF TriggerInv
<1>8. (UNCHANGED <<xCash, xHeld>> /\ xOrders' \subseteq xOrders)
      \/ \E o \in T!Due : T!Fill(o)
  BY DEF T!Fills
<1>9. ASSUME NEW o \in T!Due, T!Fill(o)
      PROVE  TriggerInv'
  BY <1>6, <1>7, <1>9 DEF T!Fill
<1> QED BY <1>6, <1>8, <1>9

LEMMA DecideKeeps == TriggerInv /\ T!Decide => TriggerInv'
<1> SUFFICES ASSUME TriggerInv, T!Decide  PROVE TriggerInv'
  OBVIOUS
<1>1. /\ xPhase = "decide" /\ xPhase' = "mark"
      /\ UNCHANGED <<xStep, xBars, xLife, xCash, xHeld, xTrades, xAccount>>
  BY DEF T!Decide
<1>2. \A o \in xOrders' : o \in xOrders \/ Queued(o)
  BY ShareConstants DEF T!Decide, Queued
<1>3. BookType'
  BY <1>1, <1>2 DEF TriggerInv, BookType
<1>4. PricesAreKnown' /\ TradesAreOfTheirStep' /\ CashIsSpent' /\ T!CurveMatchesTrades' /\ T!ExitsArePriced'
  BY <1>1 DEF TriggerInv, PricesAreKnown, TradesAreOfTheirStep, CashIsSpent,
              T!CurveMatchesTrades, T!ExitsArePriced, T!Prints
<1> QED BY <1>3, <1>4 DEF TriggerInv

LEMMA PriceNowIsKnown ==
  TriggerInv /\ xPhase = "mark" =>
    \A s \in DOMAIN xHeld : T!PriceNow[s] \in Int /\ (T!Prints(s) => xBars[s] \in TriggerBars)
<1> SUFFICES ASSUME TriggerInv, xPhase = "mark", NEW s \in DOMAIN xHeld
             PROVE  T!PriceNow[s] \in Int /\ (T!Prints(s) => xBars[s] \in TriggerBars)
  OBVIOUS
<1>1. T!PriceNow[s] = IF T!Prints(s) THEN xBars[s].close ELSE xAccount.price[s]
  BY DEF T!PriceNow
<1>2. T!Prints(s) => xBars[s] \in TriggerBars /\ xBars[s].close \in Int
  BY ShareConstants DEF TriggerInv, BookType, T!Prints
<1>3. ~T!Prints(s) => xAccount.price[s] \in Int
  BY DEF TriggerInv, PricesAreKnown
<1> QED BY <1>1, <1>2, <1>3

\* A book that is left at known prices is worth its curve.
LEMMA SettlingIsTheCurve ==
  ASSUME NEW money \in Int, NEW ts, NEW book, NEW price, NEW known,
         money = ShareFunds + Earned(ts) + Spent(book), Earned(ts) \in Int,
         IsFiniteSet(DOMAIN book), DOMAIN known = DOMAIN book,
         \A s \in DOMAIN book : Opened(book[s]) /\ price[s] \in Int /\ known[s] = price[s]
  PROVE  /\ money + T!Worth(book, price) \in Int
         /\ money + T!Worth(book, price) = ShareFunds + Earned(ts) + Carried(book, known)
<1>1. \A s \in DOMAIN book : Opened(book[s]) /\ known[s] \in Int
  OBVIOUS
<1>2. T!Worth(book, price) = T!Worth(book, known)
  BY DEF T!Worth
<1>3. T!Worth(book, known) \in Int /\ Carried(book, known) = Spent(book) + T!Worth(book, known)
  BY <1>1, MarkIsTheRest
<1>4. Spent(book) \in Int
  BY SpentIsWhole
<1> QED BY <1>2, <1>3, <1>4, ShareConstants

LEMMA MarkKeeps == TriggerInv /\ T!MarkToMarket => TriggerInv'
<1> SUFFICES ASSUME TriggerInv, T!MarkToMarket  PROVE TriggerInv'
  OBVIOUS
<1>1. xPhase = "mark" /\ xPhase' \in {"close", "bars"} /\ UNCHANGED <<xStep, xBars, xLife>>
  BY DEF T!MarkToMarket
<1>2. BookType /\ CashIsSpent /\ TradesAreOfTheirStep /\ PricesAreKnown /\ T!ExitsArePriced
      /\ IsFiniteSet(DOMAIN xHeld)
  BY PositionsAreFinite DEF TriggerInv
<1>3. \A s \in DOMAIN xHeld : T!PriceNow[s] \in Int /\ (T!Prints(s) => xBars[s] \in TriggerBars)
  BY <1>1, PriceNowIsKnown
<1> DEFINE flat == {s \in DOMAIN xHeld : T!Prints(s)}
           quotes == [s \in flat |-> T!Quote(xBars[s].close, "halt")]
           done == TradesOfQuotes(quotes, 0)
<1>4. PICK peak, halted :
        \/ /\ UNCHANGED <<xCash, xHeld, xOrders, xTrades>>
           /\ xAccount' = [equity |-> xCash + T!Worth(xHeld, T!PriceNow), peak |-> peak, halted |-> halted,
                          price |-> [s \in DOMAIN xHeld' |-> T!PriceNow[s]]]
        \/ /\ xOrders' = {} /\ T!CloseAll(quotes, 0)
           /\ xHeld' = [s \in DOMAIN xHeld \ flat |-> xHeld[s]]
           /\ xAccount' = [equity |-> xCash' + T!Worth(xHeld', T!PriceNow), peak |-> peak, halted |-> halted,
                          price |-> [s \in DOMAIN xHeld' |-> T!PriceNow[s]]]
  BY DEF T!MarkToMarket, T!Settle
<1>5. ASSUME /\ xCash' \in Int /\ CashIsSpent' /\ Earned(xTrades') \in Int
             /\ DOMAIN xHeld' \subseteq DOMAIN xHeld /\ \A s \in DOMAIN xHeld' : Opened(xHeld'[s])
             /\ IsFiniteSet(xTrades') /\ \A t \in xTrades' : Booked(t) /\ t.at <= xStep /\ t.why # "end_of_data"
             /\ xOrders' \subseteq xOrders
             /\ xAccount' = [equity |-> xCash' + T!Worth(xHeld', T!PriceNow), peak |-> peak, halted |-> halted,
                            price |-> [s \in DOMAIN xHeld' |-> T!PriceNow[s]]]
      PROVE  BookType' /\ PricesAreKnown' /\ TradesAreOfTheirStep' /\ T!CurveMatchesTrades'
  <2>1. IsFiniteSet(DOMAIN xHeld') /\ \A s \in DOMAIN xHeld' : Opened(xHeld'[s]) /\ T!PriceNow[s] \in Int
    BY <1>2, <1>3, <1>5, FS_Subset
  <2> DEFINE price == T!PriceNow
  <2> HIDE DEF price
  <2>2. xAccount' = [equity |-> xCash' + T!Worth(xHeld', price), peak |-> peak, halted |-> halted,
                    price |-> [s \in DOMAIN xHeld' |-> price[s]]]
        /\ \A s \in DOMAIN xHeld' : Opened(xHeld'[s]) /\ price[s] \in Int
    BY <1>5, <2>1 DEF price
  <2>3. xCash' = ShareFunds + Earned(xTrades') + Spent(xHeld') /\ Earned(xTrades') \in Int /\ xCash' \in Int
    BY <1>5 DEF CashIsSpent
  <2>4. /\ xAccount'.equity \in Int
        /\ xAccount'.equity = ShareFunds + Earned(xTrades') + Carried(xHeld', xAccount'.price)
        /\ xAccount' = [equity |-> xAccount'.equity, peak |-> xAccount'.peak,
                       halted |-> xAccount'.halted, price |-> xAccount'.price]
        /\ \A s \in DOMAIN xHeld' : s \in DOMAIN xAccount'.price /\ xAccount'.price[s] \in Int
    <3> DEFINE known == xAccount'.price
    <3>1. /\ xAccount'.equity = xCash' + T!Worth(xHeld', price)
          /\ xAccount' = [equity |-> xAccount'.equity, peak |-> xAccount'.peak,
                         halted |-> xAccount'.halted, price |-> xAccount'.price]
          /\ DOMAIN known = DOMAIN xHeld' /\ \A s \in DOMAIN xHeld' : known[s] = price[s]
      BY <2>2
    <3> HIDE DEF known
    <3>2. /\ xCash' + T!Worth(xHeld', price) \in Int
          /\ xCash' + T!Worth(xHeld', price) = ShareFunds + Earned(xTrades') + Carried(xHeld', known)
      BY <2>1, <2>2, <2>3, <3>1, SettlingIsTheCurve
    <3>3. \A s \in DOMAIN xHeld' : s \in DOMAIN known /\ known[s] \in Int
      BY <2>2, <3>1
    <3> QED BY <3>1, <3>2, <3>3 DEF known
  <2>5. BookType'
    BY <1>1, <1>2, <1>5, <2>4 DEF BookType
  <2>6. PricesAreKnown'
    BY <2>4 DEF PricesAreKnown
  <2>7. TradesAreOfTheirStep'
    BY <1>1, <1>5 DEF TradesAreOfTheirStep
  <2>8. T!CurveMatchesTrades'
    BY <2>4 DEF T!CurveMatchesTrades, Earned, Carried
  <2> QED BY <2>5, <2>6, <2>7, <2>8
<1>6. CASE /\ UNCHANGED <<xCash, xHeld, xOrders, xTrades>>
           /\ xAccount' = [equity |-> xCash + T!Worth(xHeld, T!PriceNow), peak |-> peak, halted |-> halted,
                          price |-> [s \in DOMAIN xHeld' |-> T!PriceNow[s]]]
  <2>1. CashIsSpent' /\ xCash' \in Int
    BY <1>2, <1>6 DEF CashIsSpent, BookType
  <2>2. Earned(xTrades') \in Int
    BY <1>2, <1>6, EarnedIsWhole DEF BookType
  <2>3. \A t \in xTrades' : Booked(t) /\ t.at <= xStep /\ t.why # "end_of_data"
    BY <1>1, <1>2, <1>6 DEF BookType, TradesAreOfTheirStep
  <2>4. xAccount' = [equity |-> xCash' + T!Worth(xHeld', T!PriceNow), peak |-> peak, halted |-> halted,
                    price |-> [s \in DOMAIN xHeld' |-> T!PriceNow[s]]]
    BY <1>6
  <2>5. BookType' /\ PricesAreKnown' /\ TradesAreOfTheirStep' /\ T!CurveMatchesTrades'
    BY <1>2, <1>5, <1>6, <2>1, <2>2, <2>3, <2>4 DEF BookType
  <2>6. T!ExitsArePriced'
    BY <1>1, <1>2, <1>6 DEF T!ExitsArePriced
  <2> QED BY <2>1, <2>5, <2>6 DEF TriggerInv
<1>7. CASE /\ xOrders' = {} /\ T!CloseAll(quotes, 0)
           /\ xHeld' = [s \in DOMAIN xHeld \ flat |-> xHeld[s]]
           /\ xAccount' = [equity |-> xCash' + T!Worth(xHeld', T!PriceNow), peak |-> peak, halted |-> halted,
                          price |-> [s \in DOMAIN xHeld' |-> T!PriceNow[s]]]
  <2>1. DOMAIN xHeld' = DOMAIN xHeld \ flat /\ DOMAIN quotes = flat
        /\ \A s \in DOMAIN xHeld' : xHeld'[s] = xHeld[s]
    BY <1>7
  <2>2. \A s \in flat : /\ s \in DOMAIN xHeld /\ s \in Symbols /\ Opened(xHeld[s]) /\ xBars[s] \in TriggerBars
                        /\ quotes[s].at = xBars[s].close /\ quotes[s].at \in Int /\ quotes[s].why = "halt"
                        /\ xBars[s].low <= quotes[s].at /\ quotes[s].at <= xBars[s].high
    BY <1>2, <1>3, ShareConstants DEF BookType, T!Quote
  <2>3. \A s \in flat : done[s] = T!TradeOf(s, quotes[s], xHeld[s].age + 0)
    BY DEF TradesOfQuotes
  <2>4. \A s \in flat : /\ done[s].symbol = s /\ done[s].at = xStep /\ done[s].why = "halt"
                        /\ done[s].exit + T!Sign(done[s]) * Slip = quotes[s].at
    <3> SUFFICES ASSUME NEW s \in flat
                 PROVE  /\ done[s].symbol = s /\ done[s].at = xStep /\ done[s].why = "halt"
                        /\ done[s].exit + T!Sign(done[s]) * Slip = quotes[s].at
      OBVIOUS
    <3>1. xHeld[s].age + 0 \in Nat /\ xStep \in Nat
      BY <1>2, <2>2 DEF BookType, Opened
    <3> HIDE DEF done, quotes, flat
    <3> QED BY <2>2, <2>3, <3>1, ClosingBringsIn
  <2> HIDE DEF done, quotes
  <2>5. done = TradesOfQuotes(quotes, 0) /\ T!CloseAll(quotes, 0)
    BY <1>7 DEF quotes, done
  <2> HIDE DEF flat
  <2>6. \A t \in xTrades, s \in flat : t # done[s]
    <3> SUFFICES ASSUME NEW t \in xTrades, NEW s \in flat  PROVE t.at # done[s].at \/ t.why # done[s].why
      OBVIOUS
    <3> QED BY <1>1, <1>2, <2>4 DEF TradesAreOfTheirStep
  <2>7. /\ xCash' \in Int /\ CashIsSpent' /\ Earned(xTrades') \in Int /\ IsFiniteSet(xTrades')
        /\ xTrades' = xTrades \union NewTrades(quotes, 0) /\ \A t \in xTrades' : Booked(t)
    <3>1. /\ DOMAIN quotes \subseteq DOMAIN xHeld /\ \A s \in DOMAIN quotes : quotes[s].at \in Int
          /\ \A t \in xTrades, s \in DOMAIN quotes : t # TradesOfQuotes(quotes, 0)[s]
          /\ DOMAIN xHeld' = DOMAIN xHeld \ DOMAIN quotes
          /\ \A s \in DOMAIN xHeld' : Cost(xHeld'[s]) = Cost(xHeld[s])
      BY <2>1, <2>2, <2>5, <2>6
    <3> QED BY <1>2, <2>5, <3>1, 0 \in Nat, ClosingKeepsBooks
  <2>8. \A t \in xTrades' : t \in xTrades \/ \E s \in flat : t = done[s]
    BY <2>1, <2>5, <2>7 DEF NewTrades
  <2>9. \A t \in xTrades' : Booked(t) /\ t.at <= xStep /\ t.why # "end_of_data"
    BY <1>1, <1>2, <2>4, <2>7, <2>8 DEF TradesAreOfTheirStep, BookType
  <2>10. BookType' /\ PricesAreKnown' /\ TradesAreOfTheirStep' /\ T!CurveMatchesTrades'
    <3>1. DOMAIN xHeld' \subseteq DOMAIN xHeld /\ \A s \in DOMAIN xHeld' : Opened(xHeld'[s])
      BY <1>2, <2>1 DEF BookType
    <3> QED BY <1>5, <1>7, <2>7, <2>9, <3>1
  <2>11. T!ExitsArePriced'
    <3> SUFFICES ASSUME NEW t \in xTrades'
                 PROVE  LET quoted == t.exit + T!Sign(t) * Slip
                        IN /\ t.at = xStep /\ t.why # "end_of_data" =>
                                xBars[t.symbol].low <= quoted /\ quoted <= xBars[t.symbol].high
                           /\ t.why = "target" /\ t.at = xStep =>
                                IF t.long THEN xBars[t.symbol].low > t.entry - StopDistance
                                          ELSE xBars[t.symbol].high < t.entry + StopDistance
                           /\ t.age = 0 => t.why \in {"halt", "end_of_data"}
      BY <1>1 DEF T!ExitsArePriced
    <3>1. CASE t \in xTrades
      BY <1>2, <3>1 DEF T!ExitsArePriced
    <3>2. CASE \E s \in flat : t = done[s]
      BY <2>2, <2>4, <3>2
    <3> QED BY <2>8, <3>1, <3>2
  <2> QED BY <2>7, <2>10, <2>11 DEF TriggerInv
<1> QED BY <1>4, <1>6, <1>7

LEMMA CloseOutKeeps == TriggerInv /\ T!CloseOut => TriggerInv'
<1> SUFFICES ASSUME TriggerInv, T!CloseOut  PROVE TriggerInv'
  OBVIOUS
<1> DEFINE quotes == [s \in DOMAIN xHeld |-> T!Quote(xAccount.price[s], "end_of_data")]
           done == TradesOfQuotes(quotes, 0)
<1>1. /\ xPhase = "close" /\ xPhase' = "done" /\ UNCHANGED <<xStep, xBars, xLife, xOrders>>
      /\ T!CloseAll(quotes, 0) /\ DOMAIN xHeld' = {}
      /\ xAccount' = [xAccount EXCEPT !.equity = xCash']
  BY DEF T!CloseOut
<1>2. BookType /\ CashIsSpent /\ TradesAreOfTheirStep /\ PricesAreKnown /\ T!ExitsArePriced
  BY DEF TriggerInv
<1>3. \A s \in DOMAIN xHeld : /\ s \in Symbols /\ Opened(xHeld[s])
                             /\ quotes[s].at \in Int /\ quotes[s].why = "end_of_data"
  BY <1>1, <1>2 DEF PricesAreKnown, BookType, T!Quote
<1>4. \A s \in DOMAIN xHeld : done[s] = T!TradeOf(s, quotes[s], xHeld[s].age + 0)
  BY DEF TradesOfQuotes
<1>5. DOMAIN quotes = DOMAIN xHeld
  OBVIOUS
<1>6. \A s \in DOMAIN xHeld : done[s].at = xStep /\ done[s].why = "end_of_data"
  <2> SUFFICES ASSUME NEW s \in DOMAIN xHeld  PROVE done[s].at = xStep /\ done[s].why = "end_of_data"
    OBVIOUS
  <2>1. xHeld[s].age + 0 \in Nat /\ xStep \in Nat
    BY <1>2, <1>3 DEF BookType, Opened
  <2> HIDE DEF done, quotes
  <2> QED BY <1>3, <1>4, <2>1, ClosingBringsIn
<1> HIDE DEF done, quotes
<1>7. done = TradesOfQuotes(quotes, 0)
  BY DEF done
<1>8. /\ xCash' \in Int /\ CashIsSpent' /\ Earned(xTrades') \in Int /\ IsFiniteSet(xTrades')
      /\ xTrades' = xTrades \union NewTrades(quotes, 0) /\ \A t \in xTrades' : Booked(t)
  <2>1. /\ DOMAIN quotes \subseteq DOMAIN xHeld /\ \A s \in DOMAIN quotes : quotes[s].at \in Int
        /\ \A t \in xTrades, s \in DOMAIN quotes : t # TradesOfQuotes(quotes, 0)[s]
        /\ DOMAIN xHeld' = DOMAIN xHeld \ DOMAIN quotes
        /\ \A s \in DOMAIN xHeld' : Cost(xHeld'[s]) = Cost(xHeld[s])
    BY <1>1, <1>2, <1>3, <1>5, <1>6, <1>7 DEF TradesAreOfTheirStep
  <2> QED BY <1>1, <1>2, <2>1, 0 \in Nat, ClosingKeepsBooks
<1>9. \A t \in xTrades' : t \in xTrades \/ \E s \in DOMAIN xHeld : t = done[s]
  BY <1>5, <1>7, <1>8 DEF NewTrades
<1>10. xAccount'.equity = xCash'
       /\ xAccount' = [equity |-> xAccount'.equity, peak |-> xAccount'.peak,
                      halted |-> xAccount'.halted, price |-> xAccount'.price]
  BY <1>1, <1>2 DEF BookType
<1>11. BookType'
  <2>1. DOMAIN xHeld' \subseteq Symbols /\ \A s \in DOMAIN xHeld' : Opened(xHeld'[s])
    BY <1>1
  <2> QED BY <1>1, <1>2, <1>8, <1>10, <2>1 DEF BookType
<1>12. PricesAreKnown'
  BY <1>1 DEF PricesAreKnown
<1>13. TradesAreOfTheirStep'
  BY <1>1, <1>2, <1>6, <1>9 DEF TradesAreOfTheirStep, BookType
<1>14. T!CurveMatchesTrades'
  <2>1. Spent(xHeld') = 0 /\ Carried(xHeld', xAccount'.price) = 0
    BY <1>1, OfNoBook
  <2>2. xCash' = ShareFunds + Earned(xTrades') + 0 /\ ShareFunds \in Int
    BY <1>8, <2>1, ShareConstants DEF CashIsSpent
  <2>3. xAccount'.equity = ShareFunds + Earned(xTrades') + Carried(xHeld', xAccount'.price)
    BY <1>8, <1>10, <2>1, <2>2
  <2> QED BY <2>3 DEF T!CurveMatchesTrades, Earned, Carried
<1>15. T!ExitsArePriced'
  <2>1. \A t \in xTrades' : t \in xTrades \/ t.why = "end_of_data"
    BY <1>6, <1>9
  <2> QED BY <1>1, <1>2, <2>1 DEF T!ExitsArePriced
<1> QED BY <1>8, <1>11, <1>12, <1>13, <1>14, <1>15 DEF TriggerInv

LEMMA TriggerStep == TriggerInv /\ [T!Next]_shareVars => TriggerInv'
<1> SUFFICES ASSUME TriggerInv, [T!Next]_shareVars  PROVE TriggerInv'
  OBVIOUS
<1>1. CASE UNCHANGED shareVars
  BY <1>1 DEF shareVars, TriggerInv, BookType, PricesAreKnown, TradesAreOfTheirStep, CashIsSpent,
              T!CurveMatchesTrades, T!ExitsArePriced, T!Prints
<1> QED BY <1>1, NextBarsKeep, ExitsKeep, FillsKeep, DecideKeeps, MarkKeeps, CloseOutKeeps DEF T!Next

-----------------------------------------------------------------------------
(***************************************************************************)
(* The run of a rule that ranks: a name may be held as long as its bars    *)
(* last, and the step of its final bar lets it go before the next.         *)
(***************************************************************************)

\* The names of a pair of targets, and of the book.
Named(t) == DOMAIN t.core \union DOMAIN t.sleeve

\* A view shows a symbol at its final bar and not after it.
Shows(v, k) ==
  \A s \in Symbols : /\ k = xLife[s] => v[s].bar # NoBar
                     /\ k > xLife[s] => v[s].bar = NoBar

PortfolioType ==
  /\ xPhase \in {"bars", "fill", "leave", "decide"}
  /\ xStep \in Nat /\ xLife \in [Symbols -> 1 .. RankedSteps]
  /\ xBars = [today |-> xBars.today, ahead |-> xBars.ahead]
  /\ Shows(xBars.ahead, xStep + 1)
  /\ xPhase # "bars" => Shows(xBars.today, xStep)
  /\ xOrders # <<>> => Named(xOrders[1]) \subseteq Symbols
  /\ Named(xHeld) \subseteq Symbols

\* A name is let go at its final bar, once the step has filled its orders.
HeldNamesPrintOn ==
  \A s \in Named(xHeld) :
    IF xPhase \in {"fill", "leave"} THEN xLife[s] >= xStep ELSE xStep < RankedSteps => xLife[s] > xStep

PortfolioInv == PortfolioType /\ HeldNamesPrintOn

LEMMA ViewsShow == \A k : \A v \in P!Views(k) : Shows(v, k)
BY DEF P!Views, Shows

LEMMA PortfolioInitially == P!Init => PortfolioInv
<1> SUFFICES ASSUME P!Init  PROVE PortfolioInv
  OBVIOUS
<1>1. PICK v \in P!Views(1) : xBars = [today |-> P!Blank, ahead |-> v]
  BY DEF P!Init
<1>2. Shows(xBars.ahead, xStep + 1) /\ xBars = [today |-> xBars.today, ahead |-> xBars.ahead]
  BY <1>1, ViewsShow DEF P!Init
<1>3. DOMAIN xHeld.core = {} /\ DOMAIN xHeld.sleeve = {}
  BY DEF P!Init, P!NoTargets
<1>4. Named(xHeld) = {}
  BY <1>3 DEF Named
<1> QED BY <1>2, <1>4 DEF P!Init, PortfolioInv, PortfolioType, HeldNamesPrintOn

LEMMA PortfolioBarsKeep == PortfolioInv /\ P!NextBars => PortfolioInv'
<1> SUFFICES ASSUME PortfolioInv, P!NextBars  PROVE PortfolioInv'
  OBVIOUS
<1>1. /\ xPhase = "bars" /\ xPhase' = "fill" /\ xStep < RankedSteps /\ xStep' = xStep + 1
      /\ UNCHANGED <<xLife, xHeld, xOrders>>
  BY DEF P!NextBars
<1>2. PICK v \in P!Views(xStep + 2) : xBars' = [today |-> xBars.ahead, ahead |-> v]
  BY DEF P!NextBars
<1>3. xBars' = [today |-> xBars'.today, ahead |-> xBars'.ahead] /\ xBars'.today = xBars.ahead /\ xBars'.ahead = v
  BY <1>2
<1>4. xStep' + 1 = xStep + 2 /\ xStep' \in Nat
  BY <1>1 DEF PortfolioInv, PortfolioType
<1>5. Shows(xBars'.today, xStep') /\ Shows(xBars'.ahead, xStep' + 1)
  BY <1>1, <1>3, <1>4, ViewsShow DEF PortfolioInv, PortfolioType
<1>6. PortfolioType'
  BY <1>1, <1>3, <1>4, <1>5 DEF PortfolioInv, PortfolioType, Named, Shows
<1>7. HeldNamesPrintOn'
  <2> SUFFICES ASSUME NEW s \in Named(xHeld)  PROVE xLife[s] >= xStep + 1
    BY <1>1 DEF HeldNamesPrintOn, Named
  <2>1. xLife[s] > xStep /\ xLife[s] \in Nat /\ xStep \in Nat
    BY <1>1, ShareConstants DEF PortfolioInv, PortfolioType, HeldNamesPrintOn
  <2> QED BY <2>1
<1> QED BY <1>6, <1>7 DEF PortfolioInv

LEMMA RebalanceKeeps == PortfolioInv /\ P!Fill => PortfolioInv'
<1> SUFFICES ASSUME PortfolioInv, P!Fill  PROVE PortfolioInv'
  OBVIOUS
<1>1. /\ xPhase = "fill" /\ xPhase' = "leave" /\ UNCHANGED <<xStep, xBars, xLife>>
  BY DEF P!Fill
<1>2. \A s \in Symbols : P!Prints(s) => xLife[s] >= xStep
  <2> SUFFICES ASSUME NEW s \in Symbols, P!Prints(s)  PROVE xLife[s] >= xStep
    OBVIOUS
  <2>1. Shows(xBars.today, xStep) /\ xLife[s] \in Nat /\ xStep \in Nat
    BY <1>1, ShareConstants DEF PortfolioInv, PortfolioType
  <2> QED BY <2>1, 0 \in Nat DEF P!Prints, Shows
<1>3. /\ xOrders' # <<>> => FALSE
      /\ \A s \in Named(xHeld') : s \in Named(xHeld) \/ (s \in Symbols /\ P!Prints(s))
  <2>1. CASE xOrders = <<>>
    BY <2>1 DEF P!Fill
  <2>2. CASE xOrders # <<>>
    <3> DEFINE target == xOrders[1]
               tradable == {s \in DOMAIN target.core \union DOMAIN target.sleeve
                             \union DOMAIN P!Legs \union DOMAIN xHeld.sleeve : P!Prints(s)}
               equity == xCash + P!Marked
               core(s) == P!SharesOf(target.core, s, equity)
               sleeve(s) == P!SharesOf(target.sleeve, s, equity)
               delta == [s \in tradable |->
                           core(s) + sleeve(s) - P!CoreShares(s) - P!Have(xHeld.sleeve, s)]
               fee(s) == IF delta[s] = 0 THEN 0 ELSE Fee
               left == {s \in tradable \intersect DOMAIN P!Legs : core(s) = 0}
               kept == (DOMAIN P!Legs \ left) \union {s \in tradable : core(s) > 0}
               legs == [s \in kept |->
                          IF s \notin tradable THEN P!Legs[s]
                          ELSE IF s \in DOMAIN P!Legs THEN [P!Legs[s] EXCEPT !.shares = core(s)]
                          ELSE [shares |-> core(s), entry |-> xBars.today[s].bar.open,
                                step |-> xStep, fees |-> fee(s)]]
               shares == [s \in (DOMAIN xHeld.sleeve \ tradable)
                                   \union {r \in tradable : sleeve(r) > 0} |->
                            IF s \in tradable THEN sleeve(s) ELSE xHeld.sleeve[s]]
    <3>1. \A s \in tradable : s \in Symbols /\ P!Prints(s)
      BY <2>2 DEF PortfolioInv, PortfolioType, Named, P!Legs
    <3>2. /\ xOrders' = <<>>
          /\ DOMAIN xHeld'.core \subseteq DOMAIN P!Legs \union tradable
          /\ DOMAIN xHeld'.sleeve \subseteq DOMAIN xHeld.sleeve \union tradable
      <4>1. xOrders' = <<>> /\ xHeld' = [core |-> legs, sleeve |-> shares]
        BY <2>2 DEF P!Fill
      <4>2. DOMAIN legs \subseteq DOMAIN P!Legs \union tradable
            /\ DOMAIN shares \subseteq DOMAIN xHeld.sleeve \union tradable
        OBVIOUS
      <4> HIDE DEF legs, shares, tradable
      <4> QED BY <4>1, <4>2
    <3> QED BY <3>1, <3>2 DEF Named, P!Legs
  <2> QED BY <2>1, <2>2
<1>4. PortfolioType'
  BY <1>1, <1>3 DEF PortfolioInv, PortfolioType, Shows, Named
<1>5. HeldNamesPrintOn'
  BY <1>1, <1>2, <1>3 DEF PortfolioInv, HeldNamesPrintOn, Named
<1> QED BY <1>4, <1>5 DEF PortfolioInv

LEMMA LeaveKeeps == PortfolioInv /\ P!Leave => PortfolioInv'
<1> SUFFICES ASSUME PortfolioInv, P!Leave  PROVE PortfolioInv'
  OBVIOUS
<1>1. /\ xPhase = "leave" /\ xPhase' = "decide" /\ UNCHANGED <<xStep, xBars, xLife, xOrders>>
  BY DEF P!Leave
<1> DEFINE out == {s \in DOMAIN P!Legs \union DOMAIN xHeld.sleeve :
                P!Prints(s) /\ (P!StopsTrading(s) \/ P!LeavesIndex(s))}
<1>2. xHeld' = [core |-> P!Without(P!Legs, out), sleeve |-> P!Without(xHeld.sleeve, out)]
  BY DEF P!Leave
<1>3. DOMAIN xHeld'.core = DOMAIN P!Legs \ out /\ DOMAIN xHeld'.sleeve = DOMAIN xHeld.sleeve \ out
  BY <1>2 DEF P!Without
<1>4. \A s \in Named(xHeld') : s \in Named(xHeld) /\ s \notin out
  BY <1>3 DEF Named, P!Legs
<1>5. PortfolioType'
  BY <1>1, <1>4 DEF PortfolioInv, PortfolioType, Shows, Named
<1>6. HeldNamesPrintOn'
  <2> SUFFICES ASSUME NEW s \in Named(xHeld'), xStep < RankedSteps  PROVE xLife[s] > xStep
    BY <1>1 DEF HeldNamesPrintOn
  <2>1. s \in Named(xHeld) /\ s \in Symbols /\ s \notin out /\ xLife[s] \in Nat /\ xStep \in Nat
    BY <1>4, ShareConstants DEF PortfolioInv, PortfolioType
  <2>2. xLife[s] >= xStep
    BY <1>1, <2>1 DEF PortfolioInv, HeldNamesPrintOn
  <2>3. xLife[s] # xStep
    <3>1. ~(P!Prints(s) /\ P!StopsTrading(s))
      BY <2>1 DEF Named, P!Legs
    <3>2. Shows(xBars.today, xStep)
      BY <1>1 DEF PortfolioInv, PortfolioType
    <3> QED BY <2>1, <3>1, <3>2, 0 \in Nat DEF P!Prints, Shows, P!StopsTrading
  <2> QED BY <2>1, <2>2, <2>3
<1> QED BY <1>5, <1>6 DEF PortfolioInv

LEMMA TargetsKeep == PortfolioInv /\ P!Decide => PortfolioInv'
<1> SUFFICES ASSUME PortfolioInv, P!Decide  PROVE PortfolioInv'
  OBVIOUS
<1>1. /\ xPhase = "decide" /\ xPhase' = "bars" /\ UNCHANGED <<xStep, xBars, xLife, xHeld>>
  BY DEF P!Decide
<1>2. xOrders' # <<>> => Named(xOrders'[1]) \subseteq Symbols
  <2>1. CASE xOrders' = xOrders
    BY <2>1 DEF PortfolioInv, PortfolioType
  <2>2. CASE \E eligible \in SUBSET Symbols : \E chosen \in SUBSET eligible :
               xOrders' = <<P!Targets(chosen, eligible)>>
    <3>1. PICK eligible \in SUBSET Symbols : \E chosen \in SUBSET eligible :
            xOrders' = <<P!Targets(chosen, eligible)>>
      BY <2>2
    <3>4. PICK chosen \in SUBSET eligible : xOrders' = <<P!Targets(chosen, eligible)>>
      BY <3>1
    <3>2. xOrders'[1] = P!Targets(chosen, eligible)
      BY <3>4
    <3>3. DOMAIN P!Targets(chosen, eligible).core = chosen /\ DOMAIN P!Targets(chosen, eligible).sleeve = eligible
      BY DEF P!Targets
    <3> QED BY <3>2, <3>3 DEF Named
  <2> QED BY <2>1, <2>2 DEF P!Decide
<1>3. PortfolioType'
  BY <1>1, <1>2 DEF PortfolioInv, PortfolioType, Shows, Named
<1>4. HeldNamesPrintOn'
  BY <1>1 DEF PortfolioInv, HeldNamesPrintOn, Named
<1> QED BY <1>3, <1>4 DEF PortfolioInv

LEMMA PortfolioStep == PortfolioInv /\ [P!Next]_shareVars => PortfolioInv'
<1> SUFFICES ASSUME PortfolioInv, [P!Next]_shareVars  PROVE PortfolioInv'
  OBVIOUS
<1>1. CASE UNCHANGED shareVars
  BY <1>1 DEF shareVars, PortfolioInv, PortfolioType, HeldNamesPrintOn, Shows, Named
<1> QED BY <1>1, PortfolioBarsKeep, RebalanceKeeps, LeaveKeeps, TargetsKeep DEF P!Next

LEMMA NothingDelistedRemains == PortfolioInv => P!NothingDelistedIsHeld
BY DEF PortfolioInv, HeldNamesPrintOn, P!NothingDelistedIsHeld, Named, P!Legs


BacktestInv ==
  /\ engine \in {"trigger", "portfolio", "options"} /\ RunInv
  /\ engine = "trigger" => TriggerInv
  /\ engine = "portfolio" => PortfolioInv

LEMMA BacktestsBegin == BacktestInit => BacktestInv
BY RunInitially, TriggerInitially, PortfolioInitially DEF BacktestInit, BacktestInv

LEMMA BacktestsGoOn == BacktestInv /\ [BacktestNext]_<<engine, shareVars, runVars>> => BacktestInv'
<1> SUFFICES ASSUME BacktestInv, [BacktestNext]_<<engine, shareVars, runVars>>  PROVE BacktestInv'
  OBVIOUS
<1>1. CASE engine = "trigger" /\ T!Next /\ UNCHANGED <<engine, runVars>>
  BY <1>1, RunStep, TriggerStep DEF BacktestInv
<1>2. CASE engine = "portfolio" /\ P!Next /\ UNCHANGED <<engine, runVars>>
  BY <1>2, RunStep, PortfolioStep DEF BacktestInv
<1>3. CASE engine = "options" /\ RunNext /\ UNCHANGED <<engine, shareVars>>
  BY <1>3, RunStep DEF BacktestInv
<1>4. CASE UNCHANGED <<engine, shareVars, runVars>>
  BY <1>4, RunStep, TriggerStep, PortfolioStep DEF BacktestInv
<1> QED BY <1>1, <1>2, <1>3, <1>4 DEF BacktestNext

(***************************************************************************)
(* Whatever the bars, the series that end, the signals, the ceilings and   *)
(* the calendars: the curve of a triggered rule is the funds, the net of   *)
(* its trades and its open positions, and its exits are priced where their *)
(* bar traded and never on the bar of their entry; a rebalanced book holds *)
(* nothing past its last bar; and the two settlements of options agree.    *)
(***************************************************************************)
THEOREM EnginesAreHonest == BacktestSpec => []BacktestsAreHonest
<1>1. BacktestInv => BacktestsAreHonest
  BY BooksAgree, NothingDelistedRemains DEF BacktestInv, TriggerInv, BacktestsAreHonest
<1> QED BY <1>1, BacktestsBegin, BacktestsGoOn, PTL DEF BacktestSpec

-----------------------------------------------------------------------------
LEMMA SearchConstants ==
  /\ NoNumber \notin Int /\ Universe \in Int /\ MaxIssued \in Nat /\ RepairAttempts \in Nat
  /\ OptionAnswers \subseteq OptionType /\ EquityAnswers \subseteq EquityType
  /\ OptionLibrary \in Seq(OptionType) /\ EquityLibrary \in Seq(EquityType)
BY SearchAssumption

LEMMA GreaterOfTwo ==
  ASSUME NEW a \in Int, NEW b \in Int
  PROVE  Max({a, b}) = IF a >= b THEN a ELSE b
<1> DEFINE m == IF a >= b THEN a ELSE b
<1>1. m \in {a, b} /\ (\A y \in {a, b} : m >= y) /\ \A x \in {a, b} : (\A y \in {a, b} : x >= y) => x = m
  OBVIOUS
<1> HIDE DEF m
<1>2. (CHOOSE x \in {a, b} : \A y \in {a, b} : x >= y) = m
  BY <1>1
<1> QED BY <1>2 DEF Max, m

LEMMA LesserOfTwo ==
  ASSUME NEW a \in Int, NEW b \in Int
  PROVE  Min({a, b}) = IF a <= b THEN a ELSE b
<1> DEFINE m == IF a <= b THEN a ELSE b
<1>1. m \in {a, b} /\ (\A y \in {a, b} : m <= y) /\ \A x \in {a, b} : (\A y \in {a, b} : x <= y) => x = m
  OBVIOUS
<1> HIDE DEF m
<1>2. (CHOOSE x \in {a, b} : \A y \in {a, b} : x <= y) = m
  BY <1>1
<1> QED BY <1>2 DEF Min, m

(***************************************************************************)
(* A rule that was checked is built.                                       *)
(***************************************************************************)
LEMMA CheckedOptionIsBuilt ==
  ASSUME NEW f \in OptionType, CheckOptionProposal(f) = {}
  PROVE  BuildsOption(f) \/ f.callAnchor >= One
<1> DEFINE s == OptionSpec(f)
<1>1. /\ (IF f.named /\ f.argued THEN {} ELSE {"text"}) = {}
      /\ (IF f.kind \in OneLeg \union Spreads THEN {} ELSE {"kind"}) = {}
      /\ (IF NotANumber(f.dte) \/ f.dte \notin DteBand THEN {"dte"} ELSE {}) = {}
      /\ (IF NotANumber(f.cadence) \/ f.cadence < 1 THEN {"cadence"} ELSE {}) = {}
      /\ AnchorProblems(f) = {} /\ WidthProblems(f) = {} /\ CallProblems(f) = {} /\ EntryProblems(f) = {}
  BY DEF CheckOptionProposal
<1>2. /\ f.named /\ f.kind \in OneLeg \union Spreads
      /\ f.dte # NoNumber /\ f.dte \in DteBand
      /\ f.cadence # NoNumber /\ ~(f.cadence < 1)
  BY <1>1 DEF NotANumber
<1>3. f.anchor # NoNumber /\ f.anchor \in 1 .. One - 1
  BY <1>1 DEF AnchorProblems, NotANumber
<1>4. /\ f.width # NoNumber /\ (f.kind \in OneLeg => f.width = 0)
      /\ f.kind \in Spreads => ~(f.width <= 0) /\ ~(f.width >= f.anchor)
  BY <1>1, <1>3 DEF WidthProblems, NotANumber
<1>5. /\ f.callAnchor # NoNumber /\ f.callWidth # NoNumber
      /\ f.kind # "iron_condor" => f.callAnchor = 0 /\ f.callWidth = 0
      /\ ~(f.callAnchor < 0)
  BY <1>1 DEF CallProblems, NotANumber, Number
<1>6. Parses(f.entry)
  BY <1>1 DEF EntryProblems, Parses
<1>7. f.anchor \in Int /\ f.width \in Int /\ f.callAnchor \in Int /\ f.callWidth \in Int
      /\ f.dte \in Int /\ f.cadence \in Int
  BY <1>2, <1>3, <1>4, <1>5 DEF OptionType, Numbers
<1>8. /\ s.kind = f.kind /\ s.anchor = f.anchor /\ s.width = f.width
      /\ s.callAnchor = f.callAnchor /\ s.callWidth = f.callWidth
      /\ s.dte = f.dte /\ s.cadence = f.cadence
  BY <1>2, <1>3, <1>4, <1>5, <1>7 DEF OptionSpec, OptionType, Number, NotANumber, OrElse, DteBand
<1>9. f.kind \in Spreads <=> f.width # 0
  BY <1>2, <1>4, <1>7
<1>10. CASE f.callAnchor < One
  <2>1. StructureStands(f.kind, f.anchor, f.width, f.callAnchor, f.callWidth)
    <3>1. IsAnchor(f.anchor) /\ (f.callAnchor # 0 => IsAnchor(f.callAnchor))
      BY <1>3, <1>5, <1>7, <1>10 DEF IsAnchor, One
    <3>2. f.width # 0 => f.width > 0 /\ f.width < f.anchor
      BY <1>4, <1>7, <1>9
    <3> QED BY <1>5, <1>9, <3>1, <3>2 DEF StructureStands
  <2>2. f.dte >= 1 /\ f.cadence >= 1
    BY <1>2, <1>7 DEF DteBand
  <2> QED BY <1>2, <1>6, <1>8, <2>1, <2>2 DEF BuildsOption, NotANumber
<1> QED BY <1>7, <1>10 DEF One

LEMMA CheckedEquityIsBuilt ==
  ASSUME NEW f \in EquityType, CheckProposal(f) = {}
  PROVE  BuildsEquity(f) \/ f.stop < 0 \/ f.holding < 0 \/ ~Allowed(f.timeframe)
<1> DEFINE s == StrategySpec(f)
<1>1. f.mode \in {"signal", "portfolio"}
  BY DEF CheckProposal
<1>2. /\ (IF f.named /\ f.argued THEN {} ELSE {"text"}) = {}
      /\ FormProblems(f) = {}
      /\ (IF f.direction \in Directions THEN {} ELSE {"direction"}) = {}
      /\ (IF f.direction = "market_neutral" /\ f.shortEntry = "blank" THEN {"short leg"} ELSE {}) = {}
      /\ (IF \E v \in {f.stop, f.profit, f.holding} : NotANumber(v) THEN {"number"} ELSE {}) = {}
      /\ (IF \E e \in {f.entry, f.regime, f.signalExit, f.shortEntry, f.screen} :
              e \in {"number", "garbage"} THEN {"expression"} ELSE {}) = {}
      /\ (IF f.rankBy \in {"condition", "garbage"} THEN {"ranking"} ELSE {}) = {}
  BY <1>1 DEF CheckProposal
<1>3. /\ f.named /\ f.direction \in Directions
      /\ f.direction = "market_neutral" => f.shortEntry # "blank"
      /\ f.stop # NoNumber /\ f.profit # NoNumber /\ f.holding # NoNumber
      /\ \A e \in {f.entry, f.regime, f.signalExit, f.shortEntry, f.screen} : e \notin {"number", "garbage"}
      /\ f.rankBy \notin {"condition", "garbage"}
  BY <1>2 DEF NotANumber
<1>4. /\ f.regime \in {"blank", "condition"} /\ f.signalExit \in {"blank", "condition"}
      /\ f.entry \in {"blank", "condition"} /\ f.shortEntry \in {"blank", "condition"}
      /\ f.screen \in {"blank", "condition"} /\ f.rankBy \in {"blank", "number"}
  BY <1>3 DEF EquityType, Expressions
<1>5. f.stop \in Int /\ f.holding \in Int /\ f.profit \in Int
  BY <1>3 DEF EquityType, Numbers
<1>6. CASE f.mode = "portfolio"
  <2>1. f.rankBy # "blank" /\ f.hold # NoNumber
    BY <1>2, <1>6 DEF FormProblems, NotANumber
  <2>2. /\ s.direction = "long" /\ s.mode = "portfolio" /\ s.rankBy = f.rankBy /\ s.screen = f.screen
        /\ s.regime = f.regime /\ s.signalExit = "blank"
    BY <1>6 DEF StrategySpec, EquityType
  <2>3. Validates(s)
    BY <1>4, <2>1, <2>2 DEF Validates, Directions
  <2> QED BY <1>3, <1>6, <2>1, <2>2, <2>3 DEF BuildsEquity, NotANumber
<1>7. CASE f.mode = "signal"
  <2>1. f.entry # "blank"
    BY <1>2, <1>7 DEF FormProblems
  <2>2. /\ s.direction = f.direction /\ s.mode = "signal" /\ s.entry = f.entry
        /\ s.regime = f.regime /\ s.signalExit = f.signalExit
        /\ s.stop = OrElse(f.stop, 200) /\ s.holding = OrElse(f.holding, 20)
        /\ s.direction = "market_neutral" => s.shortEntry = f.shortEntry
    BY <1>7 DEF StrategySpec, EquityType
  <2>3. Validates(s)
    BY <1>3, <1>4, <2>1, <2>2 DEF Validates
  <2>4. s.direction = "market_neutral" => s.shortEntry \in {"condition", "number"}
    BY <1>3, <1>4, <2>2
  <2>5. CASE f.stop >= 0 /\ f.holding >= 0 /\ Allowed(f.timeframe)
    <3>1. s.stop > 0 /\ s.holding >= 1
      BY <1>5, <2>2, <2>5 DEF OrElse
    <3> QED BY <1>3, <1>7, <2>3, <2>4, <2>5, <3>1 DEF BuildsEquity, NotANumber
  <2> QED BY <1>5, <2>5
<1> QED BY <1>1, <1>6, <1>7

(***************************************************************************)
(* A variant of a rule that is built is built, and differs in one knob.    *)
(***************************************************************************)
\* At most one of three.
LEMMA OneOfThree ==
  ASSUME NEW a, NEW b, \E k \in 1 .. 3 : \A j \in 1 .. 3 : j # k => a[j] = b[j]
  PROVE  Cardinality({k \in 1 .. 3 : a[k] # b[k]}) <= 1
<1> DEFINE D == {k \in 1 .. 3 : a[k] # b[k]}
<1>1. PICK k \in 1 .. 3 : \A j \in 1 .. 3 : j # k => a[j] = b[j]
  OBVIOUS
<1>2. D \subseteq {k}
  BY <1>1
<1>3. IsFiniteSet({k}) /\ Cardinality({k}) = 1
  BY FS_Singleton
<1>4. Cardinality(D) <= Cardinality({k})
  <2> HIDE DEF D
  <2> QED BY <1>2, <1>3, FS_Subset
<1> QED BY <1>3, <1>4

LEMMA AnchorStaysInBand ==
  ASSUME NEW n \in Int
  PROVE  LET a == Min({Anchors.high, Max({Anchors.low, n})})
         IN  /\ a \in 50 .. 450 /\ Rounded(a, 375, 1000) \in 1 .. a - 1
<1> DEFINE b == Max({50, n})
           a == Min({450, b})
<1>1. b \in Int /\ b >= 50
  <2>1. b = IF 50 >= n THEN 50 ELSE n
    BY GreaterOfTwo
  <2> QED BY <2>1
<1>2. a \in 50 .. 450
  <2> HIDE DEF b
  <2>1. a = IF 450 <= b THEN 450 ELSE b
    BY <1>1, LesserOfTwo
  <2> QED BY <1>1, <2>1
<1>3. Rounded(a, 375, 1000) \in 1 .. a - 1
  <2> HIDE DEF a
  <2>1. 1000 \div 2 = 500
    OBVIOUS
  <2>2. (a * 375 + 500) \div 1000 \in 1 .. a - 1
    BY <1>2
  <2> QED BY <2>1, <2>2 DEF Rounded
<1> QED BY <1>2, <1>3 DEF Anchors

LEMMA RoundedIsWhole ==
  ASSUME NEW n \in Int, NEW k \in Int
  PROVE  Rounded(n, k, 10) \in Int /\ Rounded(n, k, 100) \in Int
<1>1. n * k \in Int
  OBVIOUS
<1> QED BY <1>1 DEF Rounded

LEMMA BuiltOption ==
  ASSUME NEW f \in OptionType, BuildsOption(f)
  PROVE  LET s == OptionSpec(f) IN
         /\ s \in OptionType /\ s.named /\ Parses(s.entry) /\ s.argued
         /\ s.anchor \in Int /\ s.width \in Int /\ s.callAnchor \in Int /\ s.callWidth \in Int
         /\ s.dte \in Int /\ s.cadence \in Int /\ s.dte >= 1 /\ s.cadence >= 1
         /\ StructureStands(s.kind, s.anchor, s.width, s.callAnchor, s.callWidth)
<1> DEFINE s == OptionSpec(f)
<1>1. f.dte \in Int /\ f.cadence \in Int /\ f.named /\ Parses(f.entry)
  BY DEF BuildsOption, NotANumber, OptionType, Numbers
<1>2. /\ Number(f.anchor, 160) \in Int /\ Number(f.width, 0) \in Int
      /\ Number(f.callAnchor, 0) \in Int /\ Number(f.callWidth, 0) \in Int
  BY DEF Number, NotANumber, OptionType, Numbers
<1>3. OrElse(f.dte, 28) \in Int /\ OrElse(f.cadence, 5) \in Int
  BY <1>1 DEF OrElse
<1>4. /\ s.named = f.named /\ s.argued /\ s.entry = f.entry /\ s.dte = OrElse(f.dte, 28)
      /\ s.anchor = Number(f.anchor, 160) /\ s.width = Number(f.width, 0)
      /\ s.callAnchor = Number(f.callAnchor, 0) /\ s.callWidth = Number(f.callWidth, 0)
      /\ s.cadence = OrElse(f.cadence, 5)
  BY DEF OptionSpec, OptionType
<1>5. s \in OptionType
  BY <1>2, <1>3 DEF OptionSpec, OptionType, Numbers
<1>6. s.dte >= 1 /\ s.cadence >= 1 /\ StructureStands(s.kind, s.anchor, s.width, s.callAnchor, s.callWidth)
  BY DEF BuildsOption
<1> QED BY <1>1, <1>2, <1>3, <1>4, <1>5, <1>6

\* What is a specification already is one to the search.
LEMMA SpecificationBuilds ==
  ASSUME NEW g \in OptionType, g.named, Parses(g.entry),
         g.anchor \in Int, g.width \in Int, g.callAnchor \in Int, g.callWidth \in Int,
         g.dte \in Int, g.cadence \in Int, g.dte >= 1, g.cadence >= 1,
         StructureStands(g.kind, g.anchor, g.width, g.callAnchor, g.callWidth)
  PROVE  BuildsOption(g)
<1> DEFINE s == OptionSpec(g)
<1>1. \A n \in Int : n # NoNumber
  BY SearchConstants
<1>2. /\ s.kind = g.kind /\ s.anchor = g.anchor /\ s.width = g.width /\ s.callAnchor = g.callAnchor
      /\ s.callWidth = g.callWidth /\ s.dte = g.dte /\ s.cadence = g.cadence
  BY <1>1 DEF OptionSpec, OptionType, Number, NotANumber, OrElse
<1> QED BY <1>1, <1>2 DEF BuildsOption, NotANumber

LEMMA OptionVariant ==
  ASSUME NEW f \in OptionType, BuildsOption(f), NEW g \in OptionMutations(OptionSpec(f))
  PROVE  /\ g \in OptionType /\ BuildsOption(g)
         /\ \E k \in 1 .. 3 : \A j \in 1 .. 3 : j # k =>
              <<g.dte, g.anchor, g.cadence>>[j] =
              <<OptionSpec(f).dte, OptionSpec(f).anchor, OptionSpec(f).cadence>>[j]
<1> DEFINE s == OptionSpec(f)
<1>1. /\ s \in OptionType /\ s.named /\ Parses(s.entry) /\ s.argued
      /\ s.anchor \in Int /\ s.width \in Int /\ s.callAnchor \in Int /\ s.callWidth \in Int
      /\ s.dte \in Int /\ s.cadence \in Int /\ s.dte >= 1 /\ s.cadence >= 1
      /\ StructureStands(s.kind, s.anchor, s.width, s.callAnchor, s.callWidth)
  BY BuiltOption
<1> HIDE DEF s
<1>2. \/ \E d \in Buckets : g = [s EXCEPT !.dte = d]
      \/ \E k \in {70, 85, 120, 150} :
           g = AnchorMoved(s, Min({Anchors.high, Max({Anchors.low, Rounded(s.anchor, k, 100)})}))
      \/ \E k \in {5, 20, 30} : g = [s EXCEPT !.cadence = Max({1, Rounded(s.cadence, k, 10)})]
  BY DEF OptionMutations, s
<1>3. CASE \E d \in Buckets : g = [s EXCEPT !.dte = d]
  <2>1. PICK d \in Buckets : g = [s EXCEPT !.dte = d]
    BY <1>3
  <2>2. d \in Int /\ d >= 1
    BY DEF Buckets
  <2>3. g \in OptionType
    BY <1>1, <2>1, <2>2 DEF OptionType, Numbers
  <2>4. /\ g.dte = d /\ g.named = s.named /\ g.entry = s.entry /\ g.kind = s.kind /\ g.anchor = s.anchor
        /\ g.width = s.width /\ g.callAnchor = s.callAnchor /\ g.callWidth = s.callWidth /\ g.cadence = s.cadence
    BY <1>1, <2>1 DEF OptionType
  <2>5. BuildsOption(g)
    BY <1>1, <2>2, <2>3, <2>4, SpecificationBuilds
  <2>6. \A j \in 1 .. 3 : j # 1 => <<g.dte, g.anchor, g.cadence>>[j] = <<s.dte, s.anchor, s.cadence>>[j]
    BY <2>4
  <2> QED BY <2>3, <2>5, <2>6 DEF s
<1>4. CASE \E k \in {70, 85, 120, 150} :
             g = AnchorMoved(s, Min({Anchors.high, Max({Anchors.low, Rounded(s.anchor, k, 100)})}))
  <2>1. PICK k \in {70, 85, 120, 150} :
             g = AnchorMoved(s, Min({Anchors.high, Max({Anchors.low, Rounded(s.anchor, k, 100)})}))
    BY <1>4
  <2> DEFINE a == Min({Anchors.high, Max({Anchors.low, Rounded(s.anchor, k, 100)})})
             w == IF s.width = 0 THEN 0 ELSE Rounded(a, 375, 1000)
  <2>2. a \in 50 .. 450 /\ Rounded(a, 375, 1000) \in 1 .. a - 1
    <3> DEFINE n == Rounded(s.anchor, k, 100)
    <3>1. n \in Int
      <4> DEFINE m == s.anchor
      <4>1. k \in Int /\ m \in Int
        BY <1>1
      <4>2. SUFFICES Rounded(m, k, 100) \in Int
        OBVIOUS
      <4> HIDE DEF a, w, m
      <4> QED BY ONLY <4>1, RoundedIsWhole
    <3> HIDE DEF n
    <3>2. Min({Anchors.high, Max({Anchors.low, n})}) \in 50 .. 450
          /\ Rounded(Min({Anchors.high, Max({Anchors.low, n})}), 375, 1000) \in 1 .. Min({Anchors.high, Max({Anchors.low, n})}) - 1
      BY <3>1, AnchorStaysInBand
    <3> QED BY <3>2 DEF n
  <2>3. g = [s EXCEPT !.anchor = a, !.width = w]
    BY <1>1, <2>1 DEF AnchorMoved, OptionType
  <2> HIDE DEF a
  <2>4. a \in Int /\ w \in Int /\ (w = 0 <=> s.width = 0) /\ (w # 0 => w > 0 /\ w < a) /\ 0 < a /\ a < One
    BY <2>2 DEF One
  <2> HIDE DEF w
  <2>5. g \in OptionType
    BY <1>1, <2>3, <2>4 DEF OptionType, Numbers
  <2>6. /\ g.dte = s.dte /\ g.named = s.named /\ g.entry = s.entry /\ g.kind = s.kind /\ g.anchor = a
        /\ g.width = w /\ g.callAnchor = s.callAnchor /\ g.callWidth = s.callWidth /\ g.cadence = s.cadence
    BY <1>1, <2>3 DEF OptionType
  <2>7. StructureStands(g.kind, g.anchor, g.width, g.callAnchor, g.callWidth)
    BY <1>1, <2>4, <2>6 DEF StructureStands, IsAnchor
  <2>8. BuildsOption(g)
    BY <1>1, <2>4, <2>5, <2>6, <2>7, SpecificationBuilds
  <2>9. \A j \in 1 .. 3 : j # 2 => <<g.dte, g.anchor, g.cadence>>[j] = <<s.dte, s.anchor, s.cadence>>[j]
    BY <2>6
  <2> QED BY <2>5, <2>8, <2>9 DEF s
<1>5. CASE \E k \in {5, 20, 30} : g = [s EXCEPT !.cadence = Max({1, Rounded(s.cadence, k, 10)})]
  <2>1. PICK k \in {5, 20, 30} : g = [s EXCEPT !.cadence = Max({1, Rounded(s.cadence, k, 10)})]
    BY <1>5
  <2> DEFINE c == Max({1, Rounded(s.cadence, k, 10)})
  <2>2. c \in Int /\ c >= 1
    <3>1. Rounded(s.cadence, k, 10) \in Int
      <4>1. k \in Int
        OBVIOUS
      <4> QED BY <1>1, <4>1, RoundedIsWhole
    <3>2. c = IF 1 >= Rounded(s.cadence, k, 10) THEN 1 ELSE Rounded(s.cadence, k, 10)
      BY <3>1, GreaterOfTwo
    <3> QED BY <3>1, <3>2
  <2> HIDE DEF c
  <2>3. g \in OptionType
    BY <1>1, <2>1, <2>2 DEF OptionType, Numbers, c
  <2>4. /\ g.dte = s.dte /\ g.named = s.named /\ g.entry = s.entry /\ g.kind = s.kind /\ g.anchor = s.anchor
        /\ g.width = s.width /\ g.callAnchor = s.callAnchor /\ g.callWidth = s.callWidth /\ g.cadence = c
    BY <1>1, <2>1 DEF OptionType, c
  <2>5. BuildsOption(g)
    BY <1>1, <2>2, <2>3, <2>4, SpecificationBuilds
  <2>6. \A j \in 1 .. 3 : j # 3 => <<g.dte, g.anchor, g.cadence>>[j] = <<s.dte, s.anchor, s.cadence>>[j]
    BY <2>4
  <2> QED BY <2>3, <2>5, <2>6 DEF s
<1> QED BY <1>2, <1>3, <1>4, <1>5

LEMMA ScaledIsPositive ==
  ASSUME NEW n \in Int, n >= 1, NEW k \in {75, 85, 115, 130}
  PROVE  Scaled(n, k) \in Int /\ Scaled(n, k) >= 1
<1>1. Scaled(n, k) = (n * k + 50) \div 100
  BY DEF Scaled, Rounded
<1>2. (n * 75 + 50) \div 100 >= 1 /\ (n * 85 + 50) \div 100 >= 1
      /\ (n * 115 + 50) \div 100 >= 1 /\ (n * 130 + 50) \div 100 >= 1
  OBVIOUS
<1>3. CASE k = 75
  BY <1>1, <1>2, <1>3
<1>4. CASE k = 85
  BY <1>1, <1>2, <1>4
<1>5. CASE k = 115
  BY <1>1, <1>2, <1>5
<1>6. CASE k = 130
  BY <1>1, <1>2, <1>6
<1> QED BY <1>3, <1>4, <1>5, <1>6

\* A ranked book, as it is told.
RankedTold(p) ==
  /\ p \in EquityType /\ p.named /\ Allowed(p.timeframe) /\ p.mode = "portfolio" /\ p.direction = "long"
  /\ p.hold \in Int /\ p.stop \in Int /\ p.profit \in Int /\ p.holding \in Int
  /\ p.rankBy = "number" /\ p.screen \in {"blank", "condition"}
  /\ p.regime \in {"blank", "condition"}

\* A triggered rule, as it is told.
TriggeredTold(p) ==
  /\ p \in EquityType /\ p.named /\ Allowed(p.timeframe) /\ p.mode = "signal"
  /\ p.direction \in Directions /\ p.entry = "condition"
  /\ p.stop \in Int /\ p.stop >= 1 /\ p.holding \in Int /\ p.holding >= 1 /\ p.profit \in Int
  /\ p.regime \in {"blank", "condition"} /\ p.signalExit \in {"blank", "condition"}

LEMMA RankedBuilds ==
  ASSUME NEW p, RankedTold(p)
  PROVE  BuildsEquity(p)
<1> DEFINE s == StrategySpec(p)
<1>1. \A n \in Int : n # NoNumber
  BY SearchConstants
<1>2. /\ s.direction = "long" /\ s.mode = "portfolio" /\ s.rankBy = p.rankBy /\ s.screen = p.screen
      /\ s.regime = p.regime /\ s.signalExit = "blank"
  BY DEF StrategySpec, EquityType, RankedTold
<1>3. Validates(s)
  BY <1>2 DEF Validates, Directions, RankedTold
<1> QED BY <1>1, <1>2, <1>3 DEF BuildsEquity, NotANumber, RankedTold

LEMMA TriggeredBuilds ==
  ASSUME NEW p, TriggeredTold(p), p.direction # "market_neutral"
  PROVE  BuildsEquity(p)
<1> DEFINE s == StrategySpec(p)
<1>1. \A n \in Int : n # NoNumber
  BY SearchConstants
<1>2. /\ s.direction = p.direction /\ s.mode = "signal" /\ s.entry = p.entry
      /\ s.regime = p.regime /\ s.signalExit = p.signalExit
      /\ s.stop = OrElse(p.stop, 200) /\ s.holding = OrElse(p.holding, 20)
  BY DEF StrategySpec, EquityType, TriggeredTold
<1>3. Validates(s)
  BY <1>2 DEF Validates, TriggeredTold
<1>4. s.stop > 0 /\ s.holding >= 1
  BY <1>2 DEF OrElse, TriggeredTold
<1> QED BY <1>1, <1>2, <1>3, <1>4 DEF BuildsEquity, NotANumber, TriggeredTold

\* A field of a rule given another value of its kind.
LEMMA OneFieldChanged ==
  ASSUME NEW f \in EquityType
  PROVE  /\ \A v \in Numbers : [f EXCEPT !.hold = v] \in EquityType
         /\ \A v \in Numbers : [f EXCEPT !.stop = v] \in EquityType
         /\ \A v \in Numbers : [f EXCEPT !.profit = v] \in EquityType
         /\ \A v \in Numbers : [f EXCEPT !.holding = v] \in EquityType
         /\ \A e \in Expressions : [f EXCEPT !.entry = e] \in EquityType
         /\ \A e \in Expressions : [f EXCEPT !.shortEntry = e] \in EquityType
         /\ \A e \in Expressions : [f EXCEPT !.signalExit = e] \in EquityType
         /\ \A e \in Expressions : [f EXCEPT !.rankBy = e] \in EquityType
         /\ \A e \in Expressions : [f EXCEPT !.screen = e] \in EquityType
         /\ \A e \in Expressions : [f EXCEPT !.regime = e] \in EquityType
         /\ [f EXCEPT !.direction = "long"] \in EquityType
         /\ [f EXCEPT !.mode = "signal"] \in EquityType
<1>1. \A v \in Numbers : [f EXCEPT !.hold = v] \in EquityType
  BY DEF EquityType
<1>2. \A v \in Numbers : [f EXCEPT !.stop = v] \in EquityType
  BY DEF EquityType
<1>3. \A v \in Numbers : [f EXCEPT !.profit = v] \in EquityType
  BY DEF EquityType
<1>4. \A v \in Numbers : [f EXCEPT !.holding = v] \in EquityType
  BY DEF EquityType
<1>5. \A e \in Expressions : [f EXCEPT !.entry = e] \in EquityType
  BY DEF EquityType
<1>6. \A e \in Expressions : [f EXCEPT !.shortEntry = e] \in EquityType
  BY DEF EquityType
<1>7. \A e \in Expressions : [f EXCEPT !.signalExit = e] \in EquityType
  BY DEF EquityType
<1>8. \A e \in Expressions : [f EXCEPT !.rankBy = e] \in EquityType
  BY DEF EquityType
<1>9. \A e \in Expressions : [f EXCEPT !.screen = e] \in EquityType
  BY DEF EquityType
<1>10. \A e \in Expressions : [f EXCEPT !.regime = e] \in EquityType
  BY DEF EquityType
<1>11. [f EXCEPT !.direction = "long"] \in EquityType
  BY DEF EquityType, Directions
<1>12. [f EXCEPT !.mode = "signal"] \in EquityType
  BY DEF EquityType
<1> QED BY <1>1, <1>2, <1>3, <1>4, <1>5, <1>6, <1>7, <1>8, <1>9, <1>10, <1>11, <1>12

LEMMA ToldOfEquity ==
  ASSUME NEW f \in EquityType, BuildsEquity(f)
  PROVE  LET p == SpecToProposalFields(StrategySpec(f)) IN RankedTold(p) \/ TriggeredTold(p)
<1> DEFINE s == StrategySpec(f)
           p == SpecToProposalFields(s)
<1>1. f.named /\ Allowed(f.timeframe) /\ f.profit \in Int /\ Validates(s)
  BY DEF BuildsEquity, NotANumber, EquityType, Numbers
<1>2. CASE f.mode = "portfolio"
  <2> DEFINE h == Max({1, Min({OrElse(f.hold, 10), Universe})})
  <2>1. f.hold \in Int
    BY <1>2 DEF BuildsEquity, NotANumber, EquityType, Numbers
  <2>2. h \in Int
    <3> DEFINE o == OrElse(f.hold, 10)
               m == Min({o, Universe})
    <3>1. o \in Int /\ Universe \in Int
      BY <2>1, SearchConstants DEF OrElse
    <3> HIDE DEF o
    <3>2. m \in Int
      BY <3>1, LesserOfTwo
    <3> HIDE DEF m
    <3>3. Max({1, m}) \in Int
      BY <3>2, GreaterOfTwo
    <3> QED BY <3>3 DEF m, o
  <2> HIDE DEF h
  <2>3. s = [f EXCEPT !.direction = "long", !.entry = "blank", !.shortEntry = "blank", !.signalExit = "blank",
                      !.hold = h]
    BY <1>2 DEF StrategySpec, h, EquityType
  <2>4. s \in EquityType /\ s.mode = "portfolio"
    <3> DEFINE a == [f EXCEPT !.direction = "long"]
               b == [a EXCEPT !.entry = "blank"]
               c == [b EXCEPT !.shortEntry = "blank"]
               d == [c EXCEPT !.signalExit = "blank"]
               e == [d EXCEPT !.hold = h]
    <3>1. "blank" \in Expressions /\ h \in Numbers
      BY <2>2 DEF Expressions, Numbers
    <3>2. a \in EquityType
      BY OneFieldChanged
    <3>3. s = e
      BY <2>3
    <3>4. s.mode = f.mode
      BY <2>3 DEF EquityType
    <3> HIDE DEF a, s
    <3>5. b \in EquityType
      BY <3>1, <3>2, OneFieldChanged
    <3> HIDE DEF b
    <3>6. c \in EquityType
      BY <3>1, <3>5, OneFieldChanged
    <3> HIDE DEF c
    <3>7. d \in EquityType
      BY <3>1, <3>6, OneFieldChanged
    <3> HIDE DEF d
    <3>8. e \in EquityType
      BY <3>1, <3>7, OneFieldChanged
    <3> HIDE DEF e
    <3> QED BY <1>2, <3>3, <3>4, <3>8
  <2>5. /\ s.direction = "long" /\ s.hold = h /\ s.named = f.named /\ s.timeframe = f.timeframe
        /\ s.rankBy = f.rankBy /\ s.screen = f.screen /\ s.regime = f.regime
    BY <2>3 DEF EquityType
  <2>6. s.rankBy = "number" /\ s.screen \in {"blank", "condition"} /\ s.regime \in {"blank", "condition"}
    BY <1>1, <2>4 DEF Validates
  <2> HIDE DEF s
  <2>7. p = [s EXCEPT !.stop = 0, !.profit = 0, !.holding = 0]
    BY <2>4 DEF SpecToProposalFields
  <2>8. p \in EquityType
    <3> DEFINE a == [s EXCEPT !.stop = 0]
               b == [a EXCEPT !.profit = 0]
               c == [b EXCEPT !.holding = 0]
    <3>1. 0 \in Numbers
      BY DEF Numbers
    <3>2. a \in EquityType
      BY <2>4, <3>1, OneFieldChanged
    <3>3. p = c
      BY <2>7
    <3> HIDE DEF a, p
    <3>4. b \in EquityType
      BY <3>1, <3>2, OneFieldChanged
    <3> HIDE DEF b
    <3>5. c \in EquityType
      BY <3>1, <3>4, OneFieldChanged
    <3> HIDE DEF c
    <3> QED BY <3>3, <3>5
  <2>9. /\ p.direction = s.direction /\ p.hold = s.hold /\ p.named = s.named /\ p.timeframe = s.timeframe
        /\ p.rankBy = s.rankBy /\ p.screen = s.screen /\ p.regime = s.regime /\ p.mode = s.mode
        /\ p.stop = 0 /\ p.profit = 0 /\ p.holding = 0
    BY <2>4, <2>7 DEF EquityType
  <2>10. RankedTold(p)
    BY <1>1, <2>2, <2>4, <2>5, <2>6, <2>8, <2>9 DEF RankedTold
  <2> QED BY <2>10 DEF s
<1>3. CASE f.mode # "portfolio"
  <2> DEFINE stop == OrElse(f.stop, 200)
             profit == Max({0, f.profit})
             holding == OrElse(f.holding, 20)
  <2>1. f.stop \in Int /\ f.holding \in Int
    BY <1>3 DEF BuildsEquity, NotANumber, EquityType, Numbers
  <2>2. stop \in Int /\ profit \in Int /\ holding \in Int
    BY <1>1, <2>1, GreaterOfTwo DEF OrElse
  <2> HIDE DEF stop, profit, holding
  <2>3. s = [f EXCEPT !.mode = "signal", !.rankBy = "blank", !.screen = "blank",
                      !.shortEntry = IF f.direction = "market_neutral" THEN @ ELSE "blank",
                      !.stop = stop, !.profit = profit, !.holding = holding]
    BY <1>3 DEF StrategySpec, stop, profit, holding, EquityType
  <2>4. s \in EquityType /\ s.mode = "signal"
    <3> DEFINE v == IF f.direction = "market_neutral" THEN f.shortEntry ELSE "blank"
               a == [f EXCEPT !.mode = "signal"]
               b == [a EXCEPT !.rankBy = "blank"]
               c == [b EXCEPT !.screen = "blank"]
               d == [c EXCEPT !.shortEntry = v]
               e == [d EXCEPT !.stop = stop]
               g == [e EXCEPT !.profit = profit]
               i == [g EXCEPT !.holding = holding]
    <3>1. "blank" \in Expressions /\ v \in Expressions /\ {stop, profit, holding} \subseteq Numbers
      BY <2>2 DEF Expressions, Numbers, EquityType
    <3>2. a \in EquityType
      BY OneFieldChanged
    <3>3. s = i
      BY <2>3 DEF EquityType
    <3>4. s.mode = "signal"
      BY <2>3 DEF EquityType
    <3> HIDE DEF a, s, v
    <3>5. b \in EquityType
      BY <3>1, <3>2, OneFieldChanged
    <3> HIDE DEF b
    <3>6. c \in EquityType
      BY <3>1, <3>5, OneFieldChanged
    <3> HIDE DEF c
    <3>7. d \in EquityType
      BY <3>1, <3>6, OneFieldChanged
    <3> HIDE DEF d
    <3>8. e \in EquityType
      BY <3>1, <3>7, OneFieldChanged
    <3> HIDE DEF e
    <3>9. g \in EquityType
      BY <3>1, <3>8, OneFieldChanged
    <3> HIDE DEF g
    <3>10. i \in EquityType
      BY <3>1, <3>9, OneFieldChanged
    <3> HIDE DEF i
    <3> QED BY <3>3, <3>4, <3>10
  <2>5. /\ s.stop = stop /\ s.holding = holding /\ s.profit = profit
        /\ s.named = f.named /\ s.timeframe = f.timeframe
    BY <2>3 DEF EquityType
  <2>6. s.stop > 0 /\ s.holding >= 1
    BY <2>4 DEF BuildsEquity
  <2>7. /\ s.direction \in Directions /\ s.entry = "condition"
        /\ s.regime \in {"blank", "condition"} /\ s.signalExit \in {"blank", "condition"}
    BY <1>1, <2>4 DEF Validates
  <2> HIDE DEF s
  <2>8. p = [s EXCEPT !.shortEntry = "blank"]
    BY <2>4 DEF SpecToProposalFields
  <2>9. p \in EquityType
    BY <2>4, <2>8 DEF EquityType, Expressions
  <2>10. /\ p.direction = s.direction /\ p.named = s.named /\ p.timeframe = s.timeframe /\ p.entry = s.entry
         /\ p.regime = s.regime /\ p.signalExit = s.signalExit /\ p.mode = s.mode
         /\ p.stop = s.stop /\ p.profit = s.profit /\ p.holding = s.holding
    BY <2>4, <2>8 DEF EquityType
  <2>11. TriggeredTold(p)
    BY <1>1, <2>2, <2>4, <2>5, <2>6, <2>7, <2>9, <2>10 DEF TriggeredTold
  <2> QED BY <2>11 DEF s
<1> QED BY <1>2, <1>3

LEMMA OtherNumberBuilds ==
  ASSUME NEW p, RankedTold(p) \/ TriggeredTold(p), NEW v \in Int, NEW g,
         g = [p EXCEPT !.stop = v] \/ g = [p EXCEPT !.profit = v] \/ g = [p EXCEPT !.holding = v],
         TriggeredTold(p) => g.stop >= 1 /\ g.holding >= 1
  PROVE  g \in EquityType /\ (BuildsEquity(g) \/ p.direction = "market_neutral")
<1>1. p \in EquityType /\ p.stop \in Int /\ p.profit \in Int /\ p.holding \in Int /\ v \in Numbers
  BY DEF RankedTold, TriggeredTold, Numbers
<1>2. g \in EquityType
  BY <1>1, OneFieldChanged
<1>3. /\ g.direction = p.direction /\ g.named = p.named /\ g.timeframe = p.timeframe /\ g.entry = p.entry
      /\ g.regime = p.regime /\ g.signalExit = p.signalExit /\ g.mode = p.mode /\ g.hold = p.hold
      /\ g.rankBy = p.rankBy /\ g.screen = p.screen
      /\ g.stop \in {p.stop, v} /\ g.profit \in {p.profit, v} /\ g.holding \in {p.holding, v}
  BY <1>1 DEF EquityType
<1>4. g.stop \in Int /\ g.profit \in Int /\ g.holding \in Int
  BY <1>1, <1>3
<1>5. RankedTold(p) => RankedTold(g)
  BY <1>2, <1>3, <1>4 DEF RankedTold
<1>6. TriggeredTold(p) => TriggeredTold(g)
  BY <1>2, <1>3, <1>4 DEF TriggeredTold
<1> QED BY <1>2, <1>3, <1>5, <1>6, RankedBuilds, TriggeredBuilds

LEMMA EquityVariant ==
  ASSUME NEW p, RankedTold(p) \/ TriggeredTold(p), NEW g \in EquityMutations(p)
  PROVE  /\ g \in EquityType /\ (BuildsEquity(g) \/ p.direction = "market_neutral")
         /\ \E k \in 1 .. 3 : \A j \in 1 .. 3 : j # k =>
              <<g.stop, g.profit, g.holding>>[j] = <<p.stop, p.profit, p.holding>>[j]
<1>1. p \in EquityType /\ p.stop \in Int /\ p.profit \in Int /\ p.holding \in Int
  BY DEF RankedTold, TriggeredTold
<1>1a. \A v \in Int :
         /\ g = [p EXCEPT !.stop = v] \/ g = [p EXCEPT !.profit = v] \/ g = [p EXCEPT !.holding = v]
         /\ TriggeredTold(p) => g.stop >= 1 /\ g.holding >= 1
         => g \in EquityType /\ (BuildsEquity(g) \/ p.direction = "market_neutral")
  <2> SUFFICES ASSUME NEW v \in Int,
                      g = [p EXCEPT !.stop = v] \/ g = [p EXCEPT !.profit = v] \/ g = [p EXCEPT !.holding = v],
                      TriggeredTold(p) => g.stop >= 1 /\ g.holding >= 1
               PROVE  g \in EquityType /\ (BuildsEquity(g) \/ p.direction = "market_neutral")
    OBVIOUS
  <2> QED BY OtherNumberBuilds
<1>2. PICK k \in {75, 85, 115, 130} :
        \/ p.holding > 0 /\ g = [p EXCEPT !.holding = Scaled(p.holding, k)]
        \/ p.profit > 0 /\ g = [p EXCEPT !.profit = Scaled(p.profit, k)]
        \/ g = [p EXCEPT !.stop = Scaled(OrElse(p.stop, 200), k)]
  <2>1. PICK knob \in {"stop", "profit", "holding"} :
          g \in {IF knob = "holding" /\ p.holding > 0 THEN [p EXCEPT !.holding = Scaled(p.holding, k)]
                 ELSE IF knob = "profit" /\ p.profit > 0 THEN [p EXCEPT !.profit = Scaled(p.profit, k)]
                 ELSE [p EXCEPT !.stop = Scaled(OrElse(p.stop, 200), k)] : k \in {75, 85, 115, 130}}
    BY <1>1 DEF EquityMutations, EquityType
  <2> QED BY <2>1
<1>4. CASE p.holding > 0 /\ g = [p EXCEPT !.holding = Scaled(p.holding, k)]
  <2>1. Scaled(p.holding, k) \in Int /\ Scaled(p.holding, k) >= 1
    BY <1>1, <1>4, ScaledIsPositive
  <2>2. g.stop = p.stop /\ g.profit = p.profit /\ g.holding = Scaled(p.holding, k)
    BY <1>1, <1>4 DEF EquityType
  <2>3. TriggeredTold(p) => g.stop >= 1 /\ g.holding >= 1
    BY <2>1, <2>2 DEF TriggeredTold
  <2>4. \A j \in 1 .. 3 : j # 3 => <<g.stop, g.profit, g.holding>>[j] = <<p.stop, p.profit, p.holding>>[j]
    BY <2>2
  <2>5. g \in EquityType /\ (BuildsEquity(g) \/ p.direction = "market_neutral")
    <3> DEFINE w == Scaled(p.holding, k)
    <3>1. w \in Int /\ g = [p EXCEPT !.holding = w]
      BY <1>4, <2>1
    <3> HIDE DEF w
    <3> QED BY <1>1a, <2>3, <3>1
  <2> QED BY <2>4, <2>5
<1>5. CASE p.profit > 0 /\ g = [p EXCEPT !.profit = Scaled(p.profit, k)]
  <2>1. Scaled(p.profit, k) \in Int
    BY <1>1, <1>5, ScaledIsPositive
  <2>2. g.stop = p.stop /\ g.holding = p.holding
    BY <1>1, <1>5 DEF EquityType
  <2>3. TriggeredTold(p) => g.stop >= 1 /\ g.holding >= 1
    BY <2>2 DEF TriggeredTold
  <2>4. \A j \in 1 .. 3 : j # 2 => <<g.stop, g.profit, g.holding>>[j] = <<p.stop, p.profit, p.holding>>[j]
    BY <2>2
  <2>5. g \in EquityType /\ (BuildsEquity(g) \/ p.direction = "market_neutral")
    <3> DEFINE w == Scaled(p.profit, k)
    <3>1. w \in Int /\ g = [p EXCEPT !.profit = w]
      BY <1>5, <2>1
    <3> HIDE DEF w
    <3> QED BY <1>1a, <2>3, <3>1
  <2> QED BY <2>4, <2>5
<1>6. CASE g = [p EXCEPT !.stop = Scaled(OrElse(p.stop, 200), k)]
  <2> DEFINE o == OrElse(p.stop, 200)
  <2>1. o \in Int /\ (TriggeredTold(p) => o >= 1)
    BY <1>1 DEF OrElse, TriggeredTold
  <2> HIDE DEF o
  <2>2. Scaled(o, k) \in Int
    <3>1. k \in Int
      OBVIOUS
    <3> QED BY <2>1, <3>1, RoundedIsWhole DEF Scaled
  <2>3. TriggeredTold(p) => Scaled(o, k) >= 1
    BY <2>1, ScaledIsPositive
  <2>4. g.profit = p.profit /\ g.holding = p.holding /\ g.stop = Scaled(o, k)
    BY <1>1, <1>6 DEF EquityType, o
  <2>5. TriggeredTold(p) => g.stop >= 1 /\ g.holding >= 1
    BY <2>3, <2>4 DEF TriggeredTold
  <2>6. \A j \in 1 .. 3 : j # 1 => <<g.stop, g.profit, g.holding>>[j] = <<p.stop, p.profit, p.holding>>[j]
    BY <2>4
  <2>7. g = [p EXCEPT !.stop = Scaled(o, k)]
    BY <1>6 DEF o
  <2>8. g \in EquityType /\ (BuildsEquity(g) \/ p.direction = "market_neutral")
    <3> HIDE DEF Scaled
    <3> DEFINE w == Scaled(o, k)
    <3>1. w \in Int /\ g = [p EXCEPT !.stop = w]
      BY <2>2, <2>7
    <3> HIDE DEF w
    <3> QED BY <1>1a, <2>5, <3>1
  <2> QED BY <2>6, <2>8
<1> QED BY <1>2, <1>4, <1>5, <1>6

(***************************************************************************)
(* What a complaint says of a threshold is so: no session reaches it.      *)
(***************************************************************************)
LEMMA SpanHolds ==
  ASSUME NEW feature \in Features, NEW s \in Sessions
  PROVE  /\ s[feature] \in Int /\ Span(feature).low \in Int /\ Span(feature).high \in Int
         /\ Span(feature).low <= s[feature] /\ s[feature] <= Span(feature).high
<1> DEFINE V == {r[feature] : r \in Sessions}
           value == [r \in Sessions |-> r[feature]]
           W == {0 - v : v \in V}
           minus == [v \in V |-> 0 - v]
<1>1. IsFiniteSet(Sessions) /\ Sessions \subseteq [Features -> Int]
  BY SearchAssumption
<1>2. s[feature] \in V /\ V \subseteq Int
  BY <1>1
<1>3. IsFiniteSet(V)
  <2>1. IsFiniteSet({value[r] : r \in Sessions})
    BY <1>1, ImageIsNoMore
  <2>2. V = {value[r] : r \in Sessions}
    OBVIOUS
  <2> QED BY <2>1, <2>2
<1> HIDE DEF V
<1>4. IsFiniteSet(W)
  <2>1. IsFiniteSet({minus[v] : v \in V})
    BY <1>3, ImageIsNoMore
  <2>2. W = {minus[v] : v \in V}
    OBVIOUS
  <2> QED BY <2>1, <2>2
<1>5. Min(V) \in V /\ \A v \in V : Min(V) <= v
  <2>1. \E n \in V : \A m \in V : n <= m
    BY <1>2, <1>3, LeastInteger
  <2> QED BY <2>1 DEF Min
<1>6. Max(V) \in V /\ \A v \in V : v <= Max(V)
  <2>1. W \subseteq Int /\ W # {}
    <3>1. \A v \in V : v \in Int /\ 0 - v \in Int /\ 0 - v \in W
      BY <1>2
    <3>2. s[feature] \in V
      BY <1>2
    <3> QED BY <3>1, <3>2
  <2> HIDE DEF W
  <2>2. \E n \in W : \A m \in W : n <= m
    BY <1>4, <2>1, LeastInteger
  <2>3. \E n \in V : \A m \in V : n >= m
    <3>1. PICK n \in W : \A m \in W : n <= m
      BY <2>2
    <3>2. PICK v \in V : n = 0 - v
      BY <3>1 DEF W
    <3>3. ASSUME NEW m \in V  PROVE v >= m
      <4>1. 0 - m \in W
        BY DEF W
      <4>2. n <= 0 - m
        BY <3>1, <4>1
      <4> QED BY <1>2, <3>2, <4>2
    <3> QED BY <3>3
  <2>4. Max(V) \in V /\ \A v \in V : Max(V) >= v
    BY <2>3 DEF Max
  <2> QED BY <1>2, <2>4
<1>7. Span(feature).low = Min(V) /\ Span(feature).high = Max(V)
  BY DEF Span, V
<1> QED BY <1>2, <1>5, <1>6, <1>7

LEMMA ComparisonsAre ==
  ASSUME NEW a \in Int, NEW b \in Int
  PROVE  /\ Compare(a, ">", b) = (a > b) /\ Compare(a, ">=", b) = (a >= b)
         /\ Compare(a, "<", b) = (a < b) /\ Compare(a, "<=", b) = (a <= b)
<1>1. Compare(a, ">", b) = (a > b)
  BY DEF Compare
<1>2. Compare(a, ">=", b) = (a >= b)
  BY DEF Compare
<1>3. Compare(a, "<", b) = (a < b)
  BY DEF Compare
<1>4. Compare(a, "<=", b) = (a <= b)
  BY DEF Compare
<1> QED BY <1>1, <1>2, <1>3, <1>4

LEMMA UnreachableNeverHolds ==
  ASSUME NEW entry \in EntryType, NEW t \in UnreachableThresholds(entry), NEW s \in Sessions
  PROVE  t \in entry.tests /\ ~Holds(t, s)
<1>1. /\ t \in entry.tests
      /\ \/ OpOf(t) \in {">", ">="} /\ t.number > Span(t.feature).high
         \/ OpOf(t) \in {"<", "<="} /\ t.number < Span(t.feature).low
  BY DEF UnreachableThresholds
<1>2. t.feature \in Features /\ t.op \in Operators /\ t.number \in Int /\ t.mirrored \in BOOLEAN
  BY <1>1 DEF EntryType
<1> DEFINE v == s[t.feature]
           low == Span(t.feature).low
           high == Span(t.feature).high
<1>3. v \in Int /\ low \in Int /\ high \in Int /\ low <= v /\ v <= high
  BY <1>2, SpanHolds
<1> HIDE DEF v, low, high
<1>4. \/ OpOf(t) \in {">", ">="} /\ t.number > v
      \/ OpOf(t) \in {"<", "<="} /\ t.number < v
  BY <1>1, <1>2, <1>3 DEF low, high
<1>5. CASE t.mirrored
  <2>1. OpOf(t) = MirroredOp[t.op]
    BY <1>5 DEF OpOf
  <2>2. Holds(t, s) = Compare(t.number, t.op, v)
    BY <1>5 DEF Holds, v
  <2>3. /\ MirroredOp["<"] = ">" /\ MirroredOp["<="] = ">=" /\ MirroredOp[">"] = "<"
        /\ MirroredOp[">="] = "<=" /\ MirroredOp["=="] = "=="
    BY DEF MirroredOp, Operators
  <2>4. CASE t.op = ">"
    <3>1. Compare(t.number, ">", v) = (t.number > v)
      BY <1>2, <1>3, ComparisonsAre
    <3>2. ~(t.number > v)
      BY <1>2, <1>3, <1>4, <2>1, <2>3, <2>4
    <3> QED BY <1>1, <2>2, <2>4, <3>1, <3>2
  <2>5. CASE t.op = ">="
    <3>1. Compare(t.number, ">=", v) = (t.number >= v)
      BY <1>2, <1>3, ComparisonsAre
    <3>2. ~(t.number >= v)
      BY <1>2, <1>3, <1>4, <2>1, <2>3, <2>5
    <3> QED BY <1>1, <2>2, <2>5, <3>1, <3>2
  <2>6. CASE t.op = "<"
    <3>1. Compare(t.number, "<", v) = (t.number < v)
      BY <1>2, <1>3, ComparisonsAre
    <3>2. ~(t.number < v)
      BY <1>2, <1>3, <1>4, <2>1, <2>3, <2>6
    <3> QED BY <1>1, <2>2, <2>6, <3>1, <3>2
  <2>7. CASE t.op = "<="
    <3>1. Compare(t.number, "<=", v) = (t.number <= v)
      BY <1>2, <1>3, ComparisonsAre
    <3>2. ~(t.number <= v)
      BY <1>2, <1>3, <1>4, <2>1, <2>3, <2>7
    <3> QED BY <1>1, <2>2, <2>7, <3>1, <3>2
  <2>8. t.op # "=="
    BY <1>4, <2>1, <2>3
  <2> QED BY <1>1, <1>2, <2>4, <2>5, <2>6, <2>7, <2>8 DEF Operators
<1>6. CASE ~t.mirrored
  <2>1. OpOf(t) = t.op
    BY <1>6 DEF OpOf
  <2>2. Holds(t, s) = Compare(v, t.op, t.number)
    BY <1>6 DEF Holds, v
  <2>3. CASE t.op = ">"
    <3>1. Compare(v, ">", t.number) = (v > t.number)
      BY <1>2, <1>3, ComparisonsAre
    <3>2. ~(v > t.number)
      BY <1>2, <1>3, <1>4, <2>1, <2>3
    <3> QED BY <1>1, <2>2, <2>3, <3>1, <3>2
  <2>4. CASE t.op = ">="
    <3>1. Compare(v, ">=", t.number) = (v >= t.number)
      BY <1>2, <1>3, ComparisonsAre
    <3>2. ~(v >= t.number)
      BY <1>2, <1>3, <1>4, <2>1, <2>4
    <3> QED BY <1>1, <2>2, <2>4, <3>1, <3>2
  <2>5. CASE t.op = "<"
    <3>1. Compare(v, "<", t.number) = (v < t.number)
      BY <1>2, <1>3, ComparisonsAre
    <3>2. ~(v < t.number)
      BY <1>2, <1>3, <1>4, <2>1, <2>5
    <3> QED BY <1>1, <2>2, <2>5, <3>1, <3>2
  <2>6. CASE t.op = "<="
    <3>1. Compare(v, "<=", t.number) = (v <= t.number)
      BY <1>2, <1>3, ComparisonsAre
    <3>2. ~(v <= t.number)
      BY <1>2, <1>3, <1>4, <2>1, <2>6
    <3> QED BY <1>1, <2>2, <2>6, <3>1, <3>2
  <2>7. t.op # "=="
    BY <1>4, <2>1
  <2> QED BY <1>1, <1>2, <2>3, <2>4, <2>5, <2>6, <2>7 DEF Operators
<1> QED BY <1>2, <1>5, <1>6

LEMMA NoComplaintIsFalse == ComplaintsAreTrue
<1> SUFFICES ASSUME NEW f \in OptionAnswers, f.entry.form \in {"test", "and"},
                    NEW t \in UnreachableThresholds(f.entry), NEW s \in Sessions, Fires(f.entry, s)
             PROVE  FALSE
  BY DEF ComplaintsAreTrue
<1>1. f.entry \in EntryType
  BY SearchConstants DEF OptionType
<1>2. t \in f.entry.tests /\ ~Holds(t, s)
  BY <1>1, UnreachableNeverHolds
<1>3. CASE f.entry.form = "test"
  <2>1. f.entry.tests = {t}
    BY <1>2, <1>3, SearchAssumption
  <2>2. \E r \in f.entry.tests : Holds(r, s)
    BY <1>3 DEF Fires
  <2> QED BY <1>2, <2>1, <2>2
<1>4. CASE f.entry.form = "and"
  BY <1>2, <1>4 DEF Fires
<1> QED BY <1>3, <1>4

(***************************************************************************)
(* The search.                                                             *)
(***************************************************************************)
FieldType == IF family = "option" THEN OptionType ELSE EquityType
BaseType == {<<>>} \union {<<i>> : i \in Nat} \union (Nat \X Nat)
ProposalType ==
  [fields : FieldType, how : {"remembered", "template", "recombined", "mutation", "answer"},
   base : BaseType, version : Nat, parent : Nat]

SearchType ==
  /\ family \in {"option", "equity"} /\ source \in {"library", "compat", "anthropic"}
  /\ used \subseteq DOMAIN Library
  /\ turn \in Int /\ (turn > 0 /\ source # "compat" => answer \in Answers)
  /\ about \in Nat
  /\ \A b \in DOMAIN lineage : lineage[b] \in Nat
  /\ issued \in Seq(ProposalType)

\* What came out of the library: a template that was walked, or a rule that is
\* none of them.
FromLibrary(i) ==
  /\ issued[i].how = "template" => \E k \in used : issued[i].fields = Complete(OptionLibrary[k])
  /\ issued[i].how = "recombined" =>
       /\ used = DOMAIN OptionLibrary
       /\ Signature(issued[i].fields) \in seen \ Signatures

LibraryIsWalked ==
  family = "option" => Signatures \subseteq seen /\ \A i \in DOMAIN issued : FromLibrary(i)

\* A mutation is a variant of a rule that came before it.
Descends(i) ==
  issued[i].how = "mutation" =>
    /\ issued[i].parent \in 1 .. i - 1
    /\ LET parent == Told(issued[i].parent) IN
       /\ Builds(issued[i].fields) \/ (family = "equity" /\ parent.direction = "market_neutral")
       /\ Cardinality({k \in 1 .. 3 : Knobs(issued[i].fields)[k] # Knobs(parent)[k]}) <= 1

\* The last version of a name is the one its lineage counts.
Counted(i) ==
  /\ issued[i].how # "mutation" => issued[i].version = 1
  /\ issued[i].how = "mutation" =>
       issued[i].version > 1 /\ issued[i].base \in DOMAIN lineage
  /\ issued[i].base \in DOMAIN lineage => issued[i].version <= lineage[issued[i].base]

NamesAreOnce ==
  \A i, j \in DOMAIN issued :
    issued[i].how = "mutation" /\ issued[j].base = issued[i].base /\ issued[j].version = issued[i].version
      => i = j

VersionsAreCounted ==
  /\ \A b \in DOMAIN lineage : lineage[b] >= 1
  /\ \A i \in DOMAIN issued : Counted(i)
  /\ NamesAreOnce

SearchInv ==
  /\ SearchType /\ CheckedIsBuilt
  /\ LibraryIsWalked /\ LibraryNeverRepeats
  /\ (\A i \in DOMAIN issued : Descends(i)) /\ VersionsAreCounted

LEMMA SearchIsSoundIn == SearchInv => ProposalsAreSound
<1> SUFFICES ASSUME SearchInv  PROVE ProposalsAreSound
  OBVIOUS
<1>1. MutationsAreVariants
  BY DEF SearchInv, Descends, VersionsAreCounted, NamesAreOnce, MutationsAreVariants
<1> QED BY <1>1, NoComplaintIsFalse DEF SearchInv, ProposalsAreSound

-----------------------------------------------------------------------------
LEMMA SearchInitially == SearchInit => SearchInv
<1> SUFFICES ASSUME SearchInit  PROVE SearchInv
  OBVIOUS
<1>1. \/ issued = <<>>
      \/ \E f \in Answers : source = "library" /\ Builds(f)
                            /\ issued = <<Proposal(f, "remembered", <<>>, 1, 0)>>
  BY DEF SearchInit
<1>2. Answers \subseteq FieldType /\ family \in {"option", "equity"}
  BY SearchConstants DEF SearchInit, Answers, FieldType
<1>3. \A i \in DOMAIN issued :
        /\ i = 1 /\ issued[i].how = "remembered" /\ issued[i].version = 1 /\ source = "library"
        /\ issued[i] \in ProposalType
  <2>1. \A f \in Answers : Proposal(f, "remembered", <<>>, 1, 0) \in ProposalType
    BY <1>2 DEF Proposal, ProposalType, BaseType
  <2>2. CASE issued = <<>>
    BY <2>2
  <2>3. CASE \E f \in Answers : source = "library" /\ issued = <<Proposal(f, "remembered", <<>>, 1, 0)>>
    <3>1. PICK f \in Answers : source = "library" /\ issued = <<Proposal(f, "remembered", <<>>, 1, 0)>>
      BY <2>3
    <3> DEFINE p == Proposal(f, "remembered", <<>>, 1, 0)
    <3>2. p \in ProposalType /\ p.how = "remembered" /\ p.version = 1
      BY <2>1 DEF Proposal
    <3> HIDE DEF p
    <3>3. issued = <<p>>
      BY <3>1 DEF p
    <3> QED BY <3>1, <3>2, <3>3
  <2> QED BY <1>1, <2>2, <2>3
<1>4. issued \in Seq(ProposalType)
  <2>1. CASE issued = <<>>
    BY <2>1
  <2>2. CASE \E f \in Answers : issued = <<Proposal(f, "remembered", <<>>, 1, 0)>>
    <3>1. PICK f \in Answers : issued = <<Proposal(f, "remembered", <<>>, 1, 0)>>
      BY <2>2
    <3> DEFINE p == Proposal(f, "remembered", <<>>, 1, 0)
    <3>2. issued = <<p>>
      BY <3>1
    <3> HIDE DEF p
    <3>3. p \in ProposalType
      BY <1>3, <3>2
    <3> QED BY <3>2, <3>3
  <2> QED BY <1>1, <2>1, <2>2
<1>5. SearchType
  BY <1>4 DEF SearchInit, SearchType
<1>6. CheckedIsBuilt
  BY <1>3 DEF CheckedIsBuilt
<1>7. LibraryIsWalked /\ LibraryNeverRepeats
  BY <1>3 DEF LibraryIsWalked, LibraryNeverRepeats, FromLibrary, SearchInit
<1>8. (\A i \in DOMAIN issued : Descends(i)) /\ VersionsAreCounted
  BY <1>3 DEF Descends, VersionsAreCounted, Counted, NamesAreOnce, SearchInit
<1> QED BY <1>5, <1>6, <1>7, <1>8 DEF SearchInv

-----------------------------------------------------------------------------
\* What a step appends.
LEMMA OneMore ==
  ASSUME NEW Set, NEW s \in Seq(Set), NEW p \in Set, NEW n, n = Append(s, p)
  PROVE  /\ n \in Seq(Set) /\ Len(n) = Len(s) + 1 /\ Len(s) \in Nat
         /\ DOMAIN s = 1 .. Len(s) /\ DOMAIN n = 1 .. Len(s) + 1
         /\ \A i \in DOMAIN s : n[i] = s[i]
         /\ n[Len(s) + 1] = p
OBVIOUS

\* A search that goes on without another proposal.
LEMMA NoneMore ==
  ASSUME SearchInv, UNCHANGED <<family, source, used, seen, lineage, issued>>,
         turn' \in Int, turn' > 0 /\ source # "compat" => answer' \in Answers, about' \in Nat
  PROVE  SearchInv'
<1>1. SearchType'
  BY DEF SearchInv, SearchType, Library, Answers, ProposalType, FieldType
<1>2. CheckedIsBuilt' /\ LibraryIsWalked' /\ LibraryNeverRepeats'
  BY DEF SearchInv, CheckedIsBuilt, Builds, OutOfRange, LibraryIsWalked, FromLibrary, LibraryNeverRepeats
<1>3. (\A i \in DOMAIN issued : Descends(i))' /\ VersionsAreCounted'
  BY DEF SearchInv, Descends, Told, Builds, Knobs, VersionsAreCounted, Counted, NamesAreOnce
<1> QED BY <1>1, <1>2, <1>3 DEF SearchInv

(***************************************************************************)
(* One more proposal.                                                      *)
(***************************************************************************)
Issues(p) ==
  SearchInv /\ UNCHANGED <<family, source>> /\ issued' = Append(issued, p) /\ p \in ProposalType

LEMMA IssuedIs ==
  ASSUME NEW p, Issues(p)
  PROVE  /\ issued \in Seq(ProposalType) /\ Len(issued) \in Nat
         /\ DOMAIN issued = 1 .. Len(issued) /\ DOMAIN issued' = 1 .. Len(issued) + 1
         /\ Len(issued') = Len(issued) + 1
         /\ \A i \in DOMAIN issued : issued'[i] = issued[i]
         /\ issued'[Len(issued) + 1] = p /\ issued' \in Seq(ProposalType')
         /\ ProposalType' = ProposalType /\ Library' = Library /\ Answers' = Answers
<1>1. issued \in Seq(ProposalType) /\ p \in ProposalType /\ issued' = Append(issued, p)
  BY DEF Issues, SearchInv, SearchType
<1>2. ProposalType' = ProposalType /\ Library' = Library /\ Answers' = Answers
  BY DEF Issues, ProposalType, FieldType, Library, Answers
<1> QED BY <1>1, <1>2, OneMore

LEMMA IssuedIsChecked ==
  ASSUME NEW p, Issues(p), source = "compat" => Builds(p.fields) \/ OutOfRange(p.fields)
  PROVE  CheckedIsBuilt'
<1>1. \A f : Builds(f)' = Builds(f) /\ OutOfRange(f)' = OutOfRange(f)
  BY DEF Issues, Builds, OutOfRange
<1>2. \A i \in DOMAIN issued : source = "compat" => Builds(issued[i].fields) \/ OutOfRange(issued[i].fields)
  BY DEF Issues, SearchInv, CheckedIsBuilt
<1>3. source' = source
  BY DEF Issues
<1> QED BY <1>1, <1>2, <1>3, IssuedIs DEF CheckedIsBuilt, Builds, OutOfRange

LEMMA IssuedIsWalked ==
  ASSUME NEW p, Issues(p), used \subseteq used', used' \subseteq DOMAIN Library, seen \subseteq seen',
         family = "option" /\ p.how = "template" =>
           used # DOMAIN Library /\ \E k \in used' \ used : p.fields = Complete(OptionLibrary[k]),
         family = "option" /\ p.how = "recombined" =>
           used' = DOMAIN Library /\ Signature(p.fields) \in seen' \ seen
  PROVE  LibraryIsWalked' /\ LibraryNeverRepeats'
<1> SUFFICES ASSUME family = "option"  PROVE LibraryIsWalked' /\ LibraryNeverRepeats'
  BY DEF Issues, LibraryIsWalked, LibraryNeverRepeats
<1>0. PICK n \in Nat : n = Len(issued) + 1
  BY IssuedIs
<1>1. /\ DOMAIN issued = 1 .. Len(issued) /\ DOMAIN issued' = 1 .. n /\ Len(issued) \in Nat
      /\ \A i \in DOMAIN issued : issued'[i] = issued[i]
      /\ issued'[n] = p
  BY <1>0, IssuedIs
<1>2. /\ used \subseteq DOMAIN OptionLibrary /\ used' \subseteq DOMAIN OptionLibrary
      /\ Signatures \subseteq seen /\ \A i \in DOMAIN issued : FromLibrary(i)
  BY DEF Issues, SearchInv, SearchType, LibraryIsWalked, Library
<1>3. p.how = "template" =>
        used # DOMAIN OptionLibrary /\ \E k \in used' \ used : p.fields = Complete(OptionLibrary[k])
  BY DEF Library
<1>4. p.how = "recombined" => used' = DOMAIN OptionLibrary /\ Signature(p.fields) \in seen' \ seen
  BY DEF Library
<1>5. \A i \in DOMAIN issued : FromLibrary(i)'
  BY <1>1, <1>2 DEF FromLibrary, Signatures
<1>6. FromLibrary(n)'
  BY <1>1, <1>2, <1>3, <1>4 DEF FromLibrary, Signatures
<1>7. n = Len(issued) + 1
  BY <1>0
<1>8. LibraryIsWalked'
  BY <1>1, <1>2, <1>5, <1>6, <1>7 DEF LibraryIsWalked, Signatures
\* The template just walked, or the rule just made, was not there.
<1>9. ASSUME NEW i \in DOMAIN issued, issued[i].how \in {"template", "recombined"},
             p.how \in {"template", "recombined"}
      PROVE  Signature(issued[i].fields) # Signature(p.fields)
  <2>1. FromLibrary(i)
    BY <1>2
  <2>2. CASE p.how = "template"
    <3>1. PICK k \in used' \ used : p.fields = Complete(OptionLibrary[k])
      BY <1>3, <2>2
    <3>2. issued[i].how = "template"
      BY <1>3, <1>9, <2>1, <2>2 DEF FromLibrary
    <3>3. PICK l \in used : issued[i].fields = Complete(OptionLibrary[l])
      BY <2>1, <3>2 DEF FromLibrary
    <3>4. k # l /\ k \in DOMAIN OptionLibrary /\ l \in DOMAIN OptionLibrary
      BY <1>2
    <3> QED BY <3>1, <3>3, <3>4, SearchAssumption
  <2>3. CASE p.how = "recombined"
    <3>1. Signature(p.fields) \notin seen
      BY <1>4, <2>3
    <3>2. issued[i].how = "recombined" => Signature(issued[i].fields) \in seen
      BY <2>1 DEF FromLibrary
    <3>3. issued[i].how = "template" => Signature(issued[i].fields) \in Signatures
      <4> SUFFICES ASSUME issued[i].how = "template"  PROVE Signature(issued[i].fields) \in Signatures
        OBVIOUS
      <4>1. PICK l \in used : issued[i].fields = Complete(OptionLibrary[l])
        BY <2>1 DEF FromLibrary
      <4>2. OptionLibrary[l] \in ToSet(OptionLibrary)
        BY <1>2 DEF ToSet
      <4> QED BY <4>1, <4>2 DEF Signatures
    <3> QED BY <1>2, <1>9, <3>1, <3>2, <3>3
  <2> QED BY <1>9, <2>2, <2>3
<1>10. LibraryNeverRepeats'
  <2>1. \A i, j \in DOMAIN issued :
          i < j /\ {issued[i].how, issued[j].how} \subseteq {"template", "recombined"}
            => Signature(issued[i].fields) # Signature(issued[j].fields)
    BY DEF Issues, SearchInv, LibraryNeverRepeats
  <2> SUFFICES ASSUME NEW i \in 1 .. n, NEW j \in 1 .. n, i < j,
                      {issued'[i].how, issued'[j].how} \subseteq {"template", "recombined"}
               PROVE  Signature(issued'[i].fields) # Signature(issued'[j].fields)
    BY <1>1 DEF LibraryNeverRepeats
  <2>2. i \in DOMAIN issued /\ issued'[i] = issued[i]
    BY <1>1, <1>7
  <2>3. CASE j \in DOMAIN issued
    BY <1>1, <2>1, <2>2, <2>3
  <2>4. CASE j \notin DOMAIN issued
    <3>1. j = n
      BY <1>1, <1>7, <2>4
    <3> QED BY <1>1, <1>9, <2>2, <3>1
  <2> QED BY <2>3, <2>4
<1> QED BY <1>8, <1>10

LEMMA IssuedDescends ==
  ASSUME NEW p, Issues(p),
         p.how = "mutation" =>
           /\ p.parent \in DOMAIN issued
           /\ Builds(p.fields) \/ (family = "equity" /\ Told(p.parent).direction = "market_neutral")
           /\ Cardinality({k \in 1 .. 3 : Knobs(p.fields)[k] # Knobs(Told(p.parent))[k]}) <= 1
  PROVE  (\A i \in DOMAIN issued : Descends(i))'
<1>0. PICK n \in Nat : n = Len(issued) + 1
  BY IssuedIs
<1>1. /\ DOMAIN issued = 1 .. Len(issued) /\ DOMAIN issued' = 1 .. n /\ Len(issued) \in Nat
      /\ \A i \in DOMAIN issued : issued'[i] = issued[i]
      /\ issued'[n] = p /\ issued \in Seq(ProposalType)
  BY <1>0, IssuedIs
<1>2. family' = family /\ \A i \in DOMAIN issued : Descends(i)
  BY DEF Issues, SearchInv
<1>3. \A i \in DOMAIN issued : Told(i)' = Told(i)
  BY <1>1, <1>2 DEF Told
<1>4. \A f : Builds(f)' = Builds(f) /\ Knobs(f)' = Knobs(f)
  BY <1>2 DEF Builds, Knobs
<1>5. ASSUME NEW i \in DOMAIN issued  PROVE Descends(i)'
  <2>1. issued'[i] = issued[i] /\ Descends(i)
    BY <1>1, <1>2
  <2> SUFFICES ASSUME issued[i].how = "mutation"  PROVE Descends(i)'
    BY <2>1 DEF Descends
  <2>2. issued[i].parent \in 1 .. i - 1 /\ issued[i].parent \in DOMAIN issued
    BY <1>1, <2>1 DEF Descends
  <2>3. Told(issued[i].parent)' = Told(issued[i].parent)
    BY <1>1, <1>2, <2>1, <2>2 DEF Told
  <2> QED BY <1>2, <2>1, <2>2, <2>3 DEF Descends, Builds, Knobs
<1>6. Descends(n)'
  <2> SUFFICES ASSUME p.how = "mutation"  PROVE Descends(n)'
    BY <1>1 DEF Descends
  <2>1. issued'[n] = p /\ p.parent \in DOMAIN issued /\ p.parent \in 1 .. n - 1
    BY <1>0, <1>1
  <2>2. issued'[p.parent] = issued[p.parent]
    BY <1>1, <2>1
  <2>3. Told(p.parent)' = Told(p.parent)
    BY <1>2, <2>1, <2>2 DEF Told
  <2> QED BY <1>2, <2>1, <2>3 DEF Descends, Builds, Knobs
<1>7. \A i \in 1 .. n : i \in DOMAIN issued \/ i = n
  BY <1>0, <1>1
<1> QED BY <1>1, <1>5, <1>6, <1>7

LEMMA IssuedIsCounted ==
  ASSUME NEW p, Issues(p),
         \/ p.how # "mutation" /\ p.version = 1 /\ lineage' = lineage
         \/ /\ p.how = "mutation" /\ p.version = NextVersion(p.base)
            /\ lineage' = [b \in DOMAIN lineage \union {p.base} |->
                             IF b = p.base THEN NextVersion(p.base) ELSE lineage[b]]
  PROVE  (\A b \in DOMAIN lineage' : lineage'[b] \in Nat) /\ VersionsAreCounted'
<1>0. PICK n \in Nat : n = Len(issued) + 1
  BY IssuedIs
<1>1. /\ DOMAIN issued = 1 .. Len(issued) /\ DOMAIN issued' = 1 .. n /\ Len(issued) \in Nat
      /\ \A i \in DOMAIN issued : issued'[i] = issued[i]
      /\ issued'[n] = p
      /\ \A i \in 1 .. n : i \in DOMAIN issued \/ i = n
  BY <1>0, IssuedIs
<1>2. /\ \A b \in DOMAIN lineage : lineage[b] \in Nat /\ lineage[b] >= 1
      /\ \A i \in DOMAIN issued : Counted(i) /\ issued[i] \in ProposalType
      /\ NamesAreOnce
  BY <1>1, IssuedIs DEF Issues, SearchInv, SearchType, VersionsAreCounted
<1>3. \A i \in DOMAIN issued : issued[i].version \in Nat
  BY <1>2 DEF ProposalType
<1>4. CASE p.how # "mutation" /\ p.version = 1 /\ lineage' = lineage
  <2>1. \A b \in DOMAIN lineage' : lineage'[b] \in Nat /\ lineage'[b] >= 1
    BY <1>2, <1>4
  <2>2. \A i \in DOMAIN issued : Counted(i)'
    BY <1>1, <1>2, <1>4 DEF Counted
  <2>3. Counted(n)'
    BY <1>1, <1>2, <1>4 DEF Counted
  <2>4. NamesAreOnce'
    <3> SUFFICES ASSUME NEW i \in DOMAIN issued', NEW j \in DOMAIN issued',
                        issued'[i].how = "mutation", issued'[j].base = issued'[i].base,
                        issued'[j].version = issued'[i].version
                 PROVE  i = j
      BY DEF NamesAreOnce
    <3>1. i \in DOMAIN issued /\ issued[i].how = "mutation" /\ issued[i].version > 1
      BY <1>1, <1>2, <1>4 DEF Counted
    <3>2. j \in DOMAIN issued
      BY <1>1, <1>3, <1>4, <3>1
    <3> QED BY <1>1, <1>2, <3>1, <3>2 DEF NamesAreOnce
  <2> QED BY <1>1, <2>1, <2>2, <2>3, <2>4 DEF VersionsAreCounted
<1>5. CASE /\ p.how = "mutation" /\ p.version = NextVersion(p.base)
           /\ lineage' = [b \in DOMAIN lineage \union {p.base} |->
                             IF b = p.base THEN NextVersion(p.base) ELSE lineage[b]]
  <2> DEFINE v == NextVersion(p.base)
  <2>1. v \in Nat /\ v > 1 /\ \A b \in DOMAIN lineage : b = p.base => v = lineage[b] + 1
    BY <1>2 DEF NextVersion
  <2>2. p.base \notin DOMAIN lineage => v = 2
    BY DEF NextVersion
  <2> HIDE DEF v
  <2>3. /\ p.version = v /\ DOMAIN lineage' = DOMAIN lineage \union {p.base}
        /\ lineage'[p.base] = v
        /\ \A b \in DOMAIN lineage : b # p.base => lineage'[b] = lineage[b]
    BY <1>5 DEF v
  <2>4. \A b \in DOMAIN lineage' : lineage'[b] \in Nat /\ lineage'[b] >= 1
    BY <1>2, <2>1, <2>3
  \* The new version is past all of that name.
  <2>5. ASSUME NEW i \in DOMAIN issued, issued[i].base = p.base  PROVE issued[i].version < v
    <3>1. CASE p.base \in DOMAIN lineage
      BY <1>2, <1>3, <2>1, <2>5, <3>1 DEF Counted
    <3>2. CASE p.base \notin DOMAIN lineage
      BY <1>2, <1>3, <2>2, <2>5, <3>2 DEF Counted
    <3> QED BY <3>1, <3>2
  <2>6. ASSUME NEW i \in DOMAIN issued  PROVE Counted(i)'
    <3>1. issued'[i] = issued[i] /\ Counted(i) /\ issued[i].version \in Nat
      BY <1>1, <1>2, <1>3
    <3>2. issued[i].base \in DOMAIN lineage' => issued[i].version <= lineage'[issued[i].base]
      <4>1. CASE issued[i].base = p.base
        BY <2>1, <2>3, <2>5, <3>1, <4>1
      <4>2. CASE issued[i].base # p.base
        BY <2>3, <3>1, <4>2 DEF Counted
      <4> QED BY <4>1, <4>2
    <3> QED BY <2>3, <3>1, <3>2 DEF Counted
  <2>7. Counted(n)'
    BY <1>1, <1>5, <2>1, <2>3 DEF Counted
  <2>8. NamesAreOnce'
    <3> SUFFICES ASSUME NEW i \in DOMAIN issued', NEW j \in DOMAIN issued',
                        issued'[i].how = "mutation", issued'[j].base = issued'[i].base,
                        issued'[j].version = issued'[i].version
                 PROVE  i = j
      BY DEF NamesAreOnce
    <3>1. CASE i \in DOMAIN issued /\ j \in DOMAIN issued
      BY <1>1, <1>2, <3>1 DEF NamesAreOnce
    <3>2. CASE i = n /\ j \in DOMAIN issued
      BY <1>1, <1>3, <2>1, <2>3, <2>5, <3>2
    <3>3. CASE i \in DOMAIN issued /\ j = n
      BY <1>1, <1>3, <2>1, <2>3, <2>5, <3>3
    <3>4. CASE i = n /\ j = n
      BY <3>4
    <3> QED BY <1>1, <3>1, <3>2, <3>3, <3>4
  <2> QED BY <1>1, <2>4, <2>6, <2>7, <2>8 DEF VersionsAreCounted
<1> QED BY <1>4, <1>5

\* A proposal that is not a mutation leaves the names as they were.
LEMMA IssueKeeps ==
  ASSUME NEW p, Issues(p),
         used \subseteq used', used' \subseteq DOMAIN Library, seen \subseteq seen',
         turn' \in Int, turn' > 0 /\ source # "compat" => answer' \in Answers, about' \in Nat,
         (\A b \in DOMAIN lineage' : lineage'[b] \in Nat) /\ VersionsAreCounted',
         CheckedIsBuilt', LibraryIsWalked', LibraryNeverRepeats', (\A i \in DOMAIN issued : Descends(i))'
  PROVE  SearchInv'
<1>1. family' = family /\ source' = source /\ family \in {"option", "equity"}
      /\ source \in {"library", "compat", "anthropic"}
  BY DEF Issues, SearchInv, SearchType
<1>2. SearchType'
  BY <1>1, IssuedIs DEF SearchType
<1> QED BY <1>2 DEF SearchInv

\* A rule of the library is of its type, complete or under another's condition.
LEMMA LibraryIsTyped ==
  ASSUME family \in {"option", "equity"}, NEW k \in DOMAIN Library
  PROVE  /\ k \in Nat /\ Library[k] \in FieldType
         /\ family = "option" => /\ Complete(Library[k]) \in OptionType
                                 /\ Library = OptionLibrary
         /\ family = "equity" => \A l \in DOMAIN Library :
              [Library[k] EXCEPT !.regime = Library[l].regime] \in EquityType
<1>1. CASE family = "option"
  <2>1. Library = OptionLibrary /\ OptionLibrary \in Seq(OptionType) /\ FieldType = OptionType
    BY <1>1, SearchConstants DEF Library, FieldType
  <2>2. k \in Nat /\ Library[k] \in OptionType
    BY <2>1
  <2>3. Unconditional \in EntryType
    BY SearchAssumption DEF Unconditional, EntryType, Operators
  <2> DEFINE t == Library[k]
  <2>4. t \in OptionType
    BY <2>2
  <2> HIDE DEF t
  <2>5. Complete(t) \in OptionType
    BY <2>3, <2>4 DEF Complete, OptionType
  <2> QED BY <1>1, <2>1, <2>2, <2>5 DEF t
<1>2. CASE family = "equity"
  <2>1. Library = EquityLibrary /\ EquityLibrary \in Seq(EquityType) /\ FieldType = EquityType
    BY <1>2, SearchConstants DEF Library, FieldType
  <2>2. \A l \in DOMAIN Library : l \in Nat /\ Library[l] \in EquityType
    BY <2>1
  <2>3. ASSUME NEW l \in DOMAIN Library
        PROVE  [Library[k] EXCEPT !.regime = Library[l].regime] \in EquityType
    <3> DEFINE e == Library[l].regime
               t == Library[k]
    <3>1. e \in Expressions
      BY <2>2 DEF EquityType
    <3>2. t \in EquityType
      BY <2>2
    <3> HIDE DEF e, t
    <3>3. [t EXCEPT !.regime = e] \in EquityType
      BY <3>1, <3>2, OneFieldChanged
    <3> QED BY <3>3 DEF e, t
  <2> QED BY <1>2, <2>1, <2>2, <2>3
<1> QED BY <1>1, <1>2

LEMMA WalkKeeps == SearchInv /\ Walk => SearchInv'
<1> SUFFICES ASSUME SearchInv, Walk  PROVE SearchInv'
  OBVIOUS
<1> DEFINE U == DOMAIN Library \ used
<1>1. /\ source = "library" /\ used \subseteq DOMAIN Library /\ used # DOMAIN Library
      /\ family \in {"option", "equity"} /\ turn \in Int /\ about \in Nat
      /\ \A b \in DOMAIN lineage : lineage[b] \in Nat
      /\ turn > 0 /\ source # "compat" => answer \in Answers
  BY DEF SearchInv, SearchType, Walk
<1>2. UNCHANGED <<family, source, seen, lineage, turn, answer, about>>
  BY DEF Walk, asking
<1>3. PICK i \in U : /\ used' = used \union {i}
                     /\ Issue(Proposal(IF family = "option" THEN Complete(Library[i]) ELSE Library[i],
                                       "template", <<i>>, 1, 0))
  <2>1. U \subseteq Nat /\ U # {}
    <3>1. \A k \in DOMAIN Library : k \in Nat
      BY <1>1, LibraryIsTyped
    <3> QED BY <1>1, <3>1
  <2>2. Min(U) \in U
    <3> HIDE DEF U
    <3> QED BY <2>1, LeastNatural
  <2> QED BY <2>2 DEF Walk
<1> DEFINE f == IF family = "option" THEN Complete(Library[i]) ELSE Library[i]
<1>4. PICK p : p = Proposal(f, "template", <<i>>, 1, 0)
  OBVIOUS
<1>5. f \in FieldType /\ i \in Nat
  BY <1>1, LibraryIsTyped DEF FieldType
<1> HIDE DEF f
<1>6. p \in ProposalType /\ p.how = "template" /\ p.version = 1 /\ p.fields = f
  BY <1>4, <1>5 DEF Proposal, ProposalType, BaseType
<1>7. Issues(p)
  BY <1>2, <1>3, <1>4, <1>6 DEF Issues, Issue, f
<1>8. used \subseteq used' /\ used' \subseteq DOMAIN Library /\ seen \subseteq seen'
  BY <1>1, <1>2, <1>3
<1>9. LibraryIsWalked' /\ LibraryNeverRepeats'
  <2>1. family = "option" => \E k \in used' \ used : p.fields = Complete(OptionLibrary[k])
    BY <1>3, <1>6 DEF f, Library
  <2> QED BY <1>1, <1>6, <1>7, <1>8, <2>1, IssuedIsWalked
<1>10. CheckedIsBuilt'
  BY <1>1, <1>7, IssuedIsChecked
<1>11. (\A j \in DOMAIN issued : Descends(j))'
  BY <1>6, <1>7, IssuedDescends
<1>12. (\A b \in DOMAIN lineage' : lineage'[b] \in Nat) /\ VersionsAreCounted'
  BY <1>2, <1>6, <1>7, IssuedIsCounted
<1>13. turn' \in Int /\ (turn' > 0 /\ source # "compat" => answer' \in Answers) /\ about' \in Nat
  BY <1>1, <1>2
<1> QED BY <1>7, <1>8, <1>9, <1>10, <1>11, <1>12, <1>13, IssueKeeps

LEMMA RecombineKeeps == SearchInv /\ Recombine => SearchInv'
<1> SUFFICES ASSUME SearchInv, Recombine  PROVE SearchInv'
  OBVIOUS
<1>1. /\ source = "library" /\ used = DOMAIN Library
      /\ family \in {"option", "equity"} /\ turn \in Int /\ about \in Nat
      /\ turn > 0 /\ source # "compat" => answer \in Answers
  BY DEF SearchInv, SearchType, Recombine
<1>2. UNCHANGED <<family, source, used, lineage, turn, answer, about>>
  BY DEF Recombine, asking
<1>3. PICK p : /\ p \in ProposalType /\ Issue(p) /\ p.how = "recombined" /\ p.version = 1
               /\ seen \subseteq seen'
               /\ family = "option" => Signature(p.fields) \in seen' \ seen
  <2>1. CASE family = "option"
    <3>1. PICK q \in Pairs(seen) :
            /\ Issue(Proposal(Recombined(Library[q[1]], Library[q[2]]), "recombined", q, 1, 0))
            /\ seen' = seen \union {Signature(Recombined(Library[q[1]], Library[q[2]]))}
      BY <2>1 DEF Recombine
    <3> DEFINE a == Library[q[1]]
               c == Complete(Library[q[2]])
               f == Recombined(Library[q[1]], Library[q[2]])
               p == Proposal(f, "recombined", q, 1, 0)
    <3>2. /\ Library = OptionLibrary /\ q \in (DOMAIN Library) \X (DOMAIN Library)
          /\ Signature(f) \notin seen
      BY <2>1 DEF Pairs, Library
    <3>3. q[1] \in DOMAIN Library /\ q[2] \in DOMAIN Library
      BY <3>2
    <3>4. q \in Nat \X Nat /\ a \in OptionType /\ c \in OptionType
      BY <1>1, <2>1, <3>2, <3>3, LibraryIsTyped DEF FieldType
    <3>5. f = [c EXCEPT !.entry = a.entry]
      BY DEF Recombined
    <3> HIDE DEF a, c, f
    <3>6. f \in OptionType
      BY <3>4, <3>5 DEF OptionType
    <3>7. p \in ProposalType /\ p.how = "recombined" /\ p.version = 1 /\ p.fields = f
      BY <2>1, <3>4, <3>6 DEF Proposal, ProposalType, BaseType, FieldType
    <3>8. Issue(p) /\ seen' = seen \union {Signature(f)}
      BY <3>1 DEF f
    <3> HIDE DEF p
    <3> QED BY <3>2, <3>7, <3>8
  <2>2. CASE family = "equity"
    <3>1. PICK q \in (DOMAIN Library) \X (DOMAIN Library) :
            Issue(Proposal([Library[q[2]] EXCEPT !.regime = Library[q[1]].regime], "recombined", q, 1, 0))
      BY <2>2 DEF Recombine
    <3> DEFINE f == [Library[q[2]] EXCEPT !.regime = Library[q[1]].regime]
               p == Proposal(f, "recombined", q, 1, 0)
    <3>2. q[1] \in DOMAIN Library /\ q[2] \in DOMAIN Library
      OBVIOUS
    <3>3. q \in Nat \X Nat /\ f \in EquityType
      BY <1>1, <2>2, <3>2, LibraryIsTyped
    <3> HIDE DEF f
    <3>4. p \in ProposalType /\ p.how = "recombined" /\ p.version = 1
      BY <2>2, <3>3 DEF Proposal, ProposalType, BaseType, FieldType
    <3>5. Issue(p) /\ seen' = seen
      BY <2>2, <3>1 DEF f, Recombine
    <3> HIDE DEF p
    <3> QED BY <2>2, <3>4, <3>5
  <2> QED BY <1>1, <2>1, <2>2
<1>4. Issues(p)
  BY <1>2, <1>3 DEF Issues, Issue
<1>5. used \subseteq used' /\ used' \subseteq DOMAIN Library
  BY <1>1, <1>2
<1>6. LibraryIsWalked' /\ LibraryNeverRepeats'
  BY <1>1, <1>2, <1>3, <1>4, <1>5, IssuedIsWalked
<1>7. CheckedIsBuilt'
  BY <1>1, <1>4, IssuedIsChecked
<1>8. (\A j \in DOMAIN issued : Descends(j))'
  BY <1>3, <1>4, IssuedDescends
<1>9. (\A b \in DOMAIN lineage' : lineage'[b] \in Nat) /\ VersionsAreCounted'
  BY <1>2, <1>3, <1>4, IssuedIsCounted
<1>10. turn' \in Int /\ (turn' > 0 /\ source # "compat" => answer' \in Answers) /\ about' \in Nat
  BY <1>1, <1>2
<1> QED BY <1>3, <1>4, <1>5, <1>6, <1>7, <1>8, <1>9, <1>10, IssueKeeps

\* What is told of a rule that is built has variants, one knob away.
LEMMA MutationIsVariant ==
  ASSUME SearchInv, NEW i \in Parents,
         NEW f \in IF family = "option" THEN OptionMutations(Told(i)) ELSE EquityMutations(Told(i))
  PROVE  /\ f \in FieldType
         /\ Builds(f) \/ (family = "equity" /\ Told(i).direction = "market_neutral")
         /\ Cardinality({k \in 1 .. 3 : Knobs(f)[k] # Knobs(Told(i))[k]}) <= 1
<1> DEFINE g == issued[i].fields
<1>1. g \in FieldType /\ Builds(g) /\ family \in {"option", "equity"}
  <2>1. issued \in Seq(ProposalType) /\ i \in DOMAIN issued /\ Builds(issued[i].fields)
        /\ family \in {"option", "equity"}
    BY DEF SearchInv, SearchType, Parents
  <2>2. issued[i] \in ProposalType
    BY <2>1
  <2> QED BY <2>1, <2>2 DEF ProposalType
<1> HIDE DEF g
<1>2. CASE family = "option"
  <2>1. g \in OptionType /\ BuildsOption(g) /\ Told(i) = OptionSpec(g) /\ f \in OptionMutations(OptionSpec(g))
    BY <1>1, <1>2 DEF FieldType, Builds, Told, g
  <2>2. /\ f \in OptionType /\ BuildsOption(f)
        /\ \E k \in 1 .. 3 : \A j \in 1 .. 3 : j # k => Knobs(f)[j] = Knobs(Told(i))[j]
    BY <1>2, <2>1, OptionVariant DEF Knobs
  <2>3. Cardinality({k \in 1 .. 3 : Knobs(f)[k] # Knobs(Told(i))[k]}) <= 1
    BY <2>2, OneOfThree
  <2> QED BY <1>2, <2>2, <2>3 DEF FieldType, Builds
<1>3. CASE family = "equity"
  <2> DEFINE t == SpecToProposalFields(StrategySpec(g))
  <2>1. g \in EquityType /\ BuildsEquity(g) /\ Told(i) = t /\ f \in EquityMutations(t)
    BY <1>1, <1>3 DEF FieldType, Builds, Told, g
  <2>2. RankedTold(t) \/ TriggeredTold(t)
    BY <2>1, ToldOfEquity
  <2> HIDE DEF t
  <2>3. /\ f \in EquityType /\ (BuildsEquity(f) \/ t.direction = "market_neutral")
        /\ \E k \in 1 .. 3 : \A j \in 1 .. 3 : j # k => Knobs(f)[j] = Knobs(t)[j]
    BY <1>3, <2>1, <2>2, EquityVariant DEF Knobs
  <2>4. Cardinality({k \in 1 .. 3 : Knobs(f)[k] # Knobs(t)[k]}) <= 1
    BY <2>3, OneOfThree
  <2> QED BY <1>3, <2>1, <2>3, <2>4 DEF FieldType, Builds
<1> QED BY <1>1, <1>2, <1>3

LEMMA MutateKeeps == SearchInv /\ Mutate => SearchInv'
<1> SUFFICES ASSUME SearchInv, Mutate  PROVE SearchInv'
  OBVIOUS
<1>1. /\ source = "library" /\ used \subseteq DOMAIN Library /\ turn \in Int /\ about \in Nat
      /\ issued \in Seq(ProposalType)
      /\ \A b \in DOMAIN lineage : lineage[b] \in Nat
      /\ turn > 0 /\ source # "compat" => answer \in Answers
  BY DEF SearchInv, SearchType, Mutate
<1>2. UNCHANGED <<family, source, used, seen, turn, answer, about>>
  BY DEF Mutate, asking
<1>3. PICK i \in Parents :
        /\ \E f \in IF family = "option" THEN OptionMutations(Told(i)) ELSE EquityMutations(Told(i)) :
             Issue(Proposal(f, "mutation", issued[i].base, NextVersion(issued[i].base), i))
        /\ lineage' = [b \in DOMAIN lineage \union {issued[i].base} |->
                         IF b = issued[i].base THEN NextVersion(issued[i].base) ELSE lineage[b]]
  BY DEF Mutate
<1>4. PICK f \in IF family = "option" THEN OptionMutations(Told(i)) ELSE EquityMutations(Told(i)) :
        Issue(Proposal(f, "mutation", issued[i].base, NextVersion(issued[i].base), i))
  BY <1>3
<1>5. i \in DOMAIN issued /\ i \in Nat /\ issued[i].base \in BaseType
  <2>1. i \in DOMAIN issued
    BY DEF Parents
  <2>2. i \in Nat /\ issued[i] \in ProposalType
    BY <1>1, <2>1
  <2> QED BY <2>1, <2>2 DEF ProposalType
<1>6. PICK base, v : base = issued[i].base /\ v = NextVersion(base)
  OBVIOUS
<1>7. v \in Nat
  BY <1>1, <1>6 DEF NextVersion
<1>8. /\ f \in FieldType
      /\ Builds(f) \/ (family = "equity" /\ Told(i).direction = "market_neutral")
      /\ Cardinality({k \in 1 .. 3 : Knobs(f)[k] # Knobs(Told(i))[k]}) <= 1
  BY MutationIsVariant
<1>9. PICK p : p = Proposal(f, "mutation", base, v, i)
  OBVIOUS
<1>10. /\ p \in ProposalType /\ p.how = "mutation" /\ p.version = v /\ p.base = base /\ p.parent = i
       /\ p.fields = f
  BY <1>5, <1>6, <1>7, <1>8, <1>9 DEF Proposal, ProposalType
<1>11. Issues(p)
  BY <1>2, <1>4, <1>6, <1>9, <1>10 DEF Issues, Issue
<1>12. LibraryIsWalked' /\ LibraryNeverRepeats'
  BY <1>1, <1>2, <1>10, <1>11, IssuedIsWalked
<1>13. CheckedIsBuilt'
  BY <1>1, <1>11, IssuedIsChecked
<1>14. (\A j \in DOMAIN issued : Descends(j))'
  BY <1>5, <1>8, <1>10, <1>11, IssuedDescends
<1>15. (\A b \in DOMAIN lineage' : lineage'[b] \in Nat) /\ VersionsAreCounted'
  <2>1. /\ p.version = NextVersion(p.base)
        /\ lineage' = [b \in DOMAIN lineage \union {p.base} |->
                         IF b = p.base THEN NextVersion(p.base) ELSE lineage[b]]
    BY <1>3, <1>6, <1>10
  <2> QED BY <1>10, <1>11, <2>1, IssuedIsCounted
<1>16. turn' \in Int /\ (turn' > 0 /\ source # "compat" => answer' \in Answers) /\ about' \in Nat
  BY <1>1, <1>2
<1>17. used \subseteq used' /\ used' \subseteq DOMAIN Library /\ seen \subseteq seen'
  BY <1>1, <1>2
<1> QED BY <1>11, <1>12, <1>13, <1>14, <1>15, <1>16, <1>17, IssueKeeps

\* A question, an answer sent back, or a refusal moves the asking alone.
LEMMA AskingKeeps ==
  ASSUME SearchInv, UNCHANGED <<family, source, used, seen, lineage, issued>>,
         \/ Done
         \/ turn' \in Int /\ turn' > 0 /\ about' = about /\ (source # "compat" => answer' \in Answers)
         \/ turn' = 0 /\ about' \in {0} \union Parents
  PROVE  SearchInv'
<1>1. about \in Nat /\ \A i \in Parents : i \in Nat
  BY DEF SearchInv, SearchType, Parents
<1>2. turn' \in Int /\ (turn' > 0 /\ source # "compat" => answer' \in Answers) /\ about' \in Nat
  BY <1>1 DEF Done
<1> QED BY <1>2, NoneMore

LEMMA AnswerKeeps ==
  ASSUME SearchInv, NEW f \in Answers, UNCHANGED <<family, source, used, seen, lineage>>, Done,
         Issue(Proposal(f, "answer", <<>>, 1, about)), source = "compat" => Check(f) = {}
  PROVE  SearchInv'
<1>1. /\ family \in {"option", "equity"} /\ used \subseteq DOMAIN Library /\ about \in Nat
      /\ \A b \in DOMAIN lineage : lineage[b] \in Nat
  BY DEF SearchInv, SearchType
<1>2. f \in FieldType
  BY <1>1, SearchConstants DEF Answers, FieldType
<1>3. PICK p : p = Proposal(f, "answer", <<>>, 1, about)
  OBVIOUS
<1>4. p \in ProposalType /\ p.how = "answer" /\ p.version = 1 /\ p.fields = f
  BY <1>1, <1>2, <1>3 DEF Proposal, ProposalType, BaseType
<1>5. Issues(p)
  BY <1>3, <1>4 DEF Issues, Issue
<1>6. source = "compat" => Builds(p.fields) \/ OutOfRange(p.fields)
  <2> SUFFICES ASSUME Check(f) = {}  PROVE Builds(f) \/ OutOfRange(f)
    BY <1>4
  <2>1. CASE family = "option"
    <3>1. f \in OptionType /\ CheckOptionProposal(f) = {}
      BY <1>2, <2>1 DEF FieldType, Check
    <3> QED BY <2>1, <3>1, CheckedOptionIsBuilt DEF Builds, OutOfRange
  <2>2. CASE family = "equity"
    <3>1. f \in EquityType /\ CheckProposal(f) = {}
      BY <1>2, <2>2 DEF FieldType, Check
    <3> QED BY <2>2, <3>1, CheckedEquityIsBuilt DEF Builds, OutOfRange
  <2> QED BY <1>1, <2>1, <2>2
<1>7. CheckedIsBuilt'
  BY <1>5, <1>6, IssuedIsChecked
<1>8. LibraryIsWalked' /\ LibraryNeverRepeats'
  BY <1>1, <1>4, <1>5, IssuedIsWalked
<1>9. (\A j \in DOMAIN issued : Descends(j))'
  BY <1>4, <1>5, IssuedDescends
<1>10. (\A b \in DOMAIN lineage' : lineage'[b] \in Nat) /\ VersionsAreCounted'
  BY <1>4, <1>5, IssuedIsCounted
<1>11. turn' \in Int /\ (turn' > 0 /\ source # "compat" => answer' \in Answers) /\ about' \in Nat
  BY DEF Done
<1> QED BY <1>1, <1>5, <1>7, <1>8, <1>9, <1>10, <1>11, IssueKeeps

LEMMA SearchStep == SearchInv /\ [SearchNext]_searchVars => SearchInv'
<1> SUFFICES ASSUME SearchInv, [SearchNext]_searchVars  PROVE SearchInv'
  OBVIOUS
<1>1. turn \in Int /\ (turn > 0 /\ source # "compat" => answer \in Answers)
      /\ source \in {"library", "compat", "anthropic"}
  BY DEF SearchInv, SearchType
<1>2. CASE Walk
  BY <1>2, WalkKeeps
<1>3. CASE Recombine
  BY <1>3, RecombineKeeps
<1>4. CASE Mutate
  BY <1>4, MutateKeeps
<1>5. CASE Ask
  BY <1>5, AskingKeeps DEF Ask
<1>6. CASE Answered
  <2>1. PICK f \in Answers :
          IF Stands(f)
          THEN Done /\ Issue(Proposal(f, "answer", <<>>, 1, about))
          ELSE /\ UNCHANGED issued
               /\ IF turn < Attempts THEN turn' = turn + 1 /\ answer' = f /\ UNCHANGED about ELSE Done
    BY <1>6 DEF Answered
  <2>2. turn >= 0 /\ UNCHANGED <<family, source, used, seen, lineage>>
    BY <1>6 DEF Answered
  <2>3. CASE Stands(f)
    <3>1. source = "compat" => Check(f) = {}
      BY <2>3 DEF Stands
    <3> QED BY <2>1, <2>2, <2>3, <3>1, AnswerKeeps
  <2>4. CASE ~Stands(f)
    <3>1. Done \/ (turn' \in Int /\ turn' > 0 /\ about' = about /\ (source # "compat" => answer' \in Answers))
      BY <1>1, <2>1, <2>2, <2>4 DEF Answers
    <3> QED BY <2>1, <2>2, <2>4, <3>1, AskingKeeps
  <2> QED BY <2>3, <2>4
<1>7. CASE Garbled
  <2>1. turn >= 0 /\ UNCHANGED <<family, source, used, seen, lineage>>
    BY <1>7 DEF Garbled
  <2>2. CASE source = "compat"
    <3>1. UNCHANGED issued /\ (Done \/ (turn' = turn + 1 /\ UNCHANGED <<answer, about>>))
      BY <1>7, <2>2 DEF Garbled
    <3> QED BY <1>1, <2>1, <2>2, <3>1, AskingKeeps
  <2>3. CASE source # "compat" /\ turn = 0
    <3>1. Done /\ UNCHANGED issued
      BY <1>7, <2>3 DEF Garbled
    <3> QED BY <2>1, <3>1, AskingKeeps
  <2>4. CASE source # "compat" /\ turn # 0
    <3>1. Done /\ Issue(Proposal(answer, "answer", <<>>, 1, about))
      BY <1>7, <2>4 DEF Garbled
    <3>2. answer \in Answers
      BY <1>1, <2>1, <2>4
    <3> QED BY <2>1, <2>4, <3>1, <3>2, AnswerKeeps
  <2> QED BY <2>2, <2>3, <2>4
<1>8. CASE UNCHANGED searchVars
  <2>1. about \in Nat
    BY DEF SearchInv, SearchType
  <2> QED BY <1>1, <1>8, <2>1, NoneMore DEF searchVars, asking
<1> QED BY <1>2, <1>3, <1>4, <1>5, <1>6, <1>7, <1>8 DEF SearchNext

(***************************************************************************)
(* What a provider that checks hands over is built, but for a number its   *)
(* check takes for any; the library offers no rule of options twice; a     *)
(* mutation moves one knob at most of what is told of its parent, under a  *)
(* version no other of its name has; and a rule sent back for a threshold  *)
(* opens on no session, for any answers, templates, sessions and bounds.   *)
(***************************************************************************)
THEOREM SearchIsSound == SearchSpec => []ProposalsAreSound
<1>1. SearchSpec => []SearchInv
  BY SearchInitially, SearchStep, PTL DEF SearchSpec
<1> QED BY <1>1, SearchIsSoundIn, PTL

-----------------------------------------------------------------------------
(***************************************************************************)
(* The sessions of a series, in their order.                               *)
(***************************************************************************)
LEMMA EarlierIsFinite ==
  ASSUME NEW S, IsFiniteSet(S), NEW t
  PROVE  IsFiniteSet(Earlier(S, t)) /\ Cardinality(Earlier(S, t)) \in Nat
BY FS_Subset, FS_CardinalityType DEF Earlier

LEMMA EarlierAre ==
  ASSUME NEW S, NEW t
  PROVE  \A u : u \in Earlier(S, t) <=> u \in S /\ u < t
BY DEF Earlier

LEMMA EarlierGrows ==
  ASSUME NEW S, IsFiniteSet(S), S \subseteq Nat, NEW a \in S, NEW b \in Nat, a < b
  PROVE  Cardinality(Earlier(S, a)) + 1 <= Cardinality(Earlier(S, b))
<1>1. IsFiniteSet(Earlier(S, a)) /\ IsFiniteSet(Earlier(S, b))
  BY EarlierIsFinite
<1>2. a \notin Earlier(S, a) /\ Earlier(S, a) \union {a} \subseteq Earlier(S, b)
  <2>1. a \in Nat /\ \A u \in S : u \in Nat
    OBVIOUS
  <2>2. \A u \in S : u < a => u < b
    BY <2>1
  <2>3. ~(a < a)
    BY <2>1
  <2>4. a \notin Earlier(S, a)
    BY <2>3, EarlierAre
  <2>5. ASSUME NEW u \in Earlier(S, a) \union {a}  PROVE u \in Earlier(S, b)
    <3>1. u \in S /\ (u < a \/ u = a)
      BY <2>5, EarlierAre
    <3>2. u < b
      BY <2>2, <3>1
    <3> QED BY <3>1, <3>2, EarlierAre
  <2> QED BY <2>4, <2>5
<1>3. Cardinality(Earlier(S, a) \union {a}) = Cardinality(Earlier(S, a)) + 1
  BY <1>1, <1>2, FS_AddElement
<1> QED BY <1>1, <1>2, <1>3, FS_Subset

\* All but the last of some sessions come before it.
LEMMA LastOfAll ==
  ASSUME NEW S, IsFiniteSet(S), S \subseteq Nat, S # {}
  PROVE  \E g \in S : Cardinality(S) = Cardinality(Earlier(S, g)) + 1
<1>1. PICK bound \in Nat : S \subseteq 0..bound
  BY FiniteIsBounded
<1>2. PICK g \in S : \A n \in S : n <= g
  BY <1>1, GreatestNatural
<1>3. S = Earlier(S, g) \union {g} /\ g \notin Earlier(S, g)
  <2>1. g \in Nat /\ \A u \in S : u \in Nat
    OBVIOUS
  <2>2. \A u \in S : u < g \/ u = g
    BY <1>2, <2>1
  <2>3. ~(g < g)
    BY <2>1
  <2> QED BY <2>2, <2>3, EarlierAre
<1>4. IsFiniteSet(Earlier(S, g))
  BY EarlierIsFinite
<1>5. Cardinality(Earlier(S, g) \union {g}) = Cardinality(Earlier(S, g)) + 1
  BY <1>3, <1>4, FS_AddElement
<1> QED BY <1>3, <1>5

LEMMA NthIsThere ==
  ASSUME NEW S, IsFiniteSet(S), S \subseteq Nat, NEW p \in Nat, p < Cardinality(S)
  PROVE  Nth(S, p) \in S /\ Cardinality(Earlier(S, Nth(S, p))) = p
<1> DEFINE late == {t \in S : Cardinality(Earlier(S, t)) >= p}
<1>1. late # {}
  <2>1. S # {}
    BY FS_EmptySet
  <2>2. PICK g \in S : Cardinality(S) = Cardinality(Earlier(S, g)) + 1
    BY <2>1, LastOfAll
  <2>3. Cardinality(Earlier(S, g)) \in Nat
    BY EarlierIsFinite
  <2> QED BY <2>2, <2>3
<1>2. PICK t \in late : \A n \in late : t <= n
  BY <1>1, LeastNatural
<1>3. Cardinality(Earlier(S, t)) = p
  <2> SUFFICES ASSUME Cardinality(Earlier(S, t)) > p  PROVE FALSE
    BY EarlierIsFinite
  <2>1. IsFiniteSet(Earlier(S, t)) /\ Earlier(S, t) \subseteq Nat
    BY EarlierIsFinite, EarlierAre
  <2>2. Earlier(S, t) # {}
    BY FS_EmptySet
  <2>3. PICK v \in Earlier(S, t) : Cardinality(Earlier(S, t)) = Cardinality(Earlier(Earlier(S, t), v)) + 1
    BY <2>1, <2>2, LastOfAll
  <2>4. v \in S /\ v < t
    BY EarlierAre
  <2>7. Earlier(Earlier(S, t), v) = Earlier(S, v)
    <3>1. \A u \in S : u \in Nat
      OBVIOUS
    <3>2. t \in Nat /\ v \in Nat
      BY <2>4, <3>1
    <3>3. \A u \in S : u < v => u < t
      BY <2>4, <3>1, <3>2
    <3>4. \A u : u \in Earlier(Earlier(S, t), v) <=> (u \in S /\ u < t) /\ u < v
      BY EarlierAre
    <3>5. \A u : u \in Earlier(Earlier(S, t), v) <=> u \in Earlier(S, v)
      BY <3>3, <3>4, EarlierAre
    <3> QED BY <3>5
  <2>5. Cardinality(Earlier(S, v)) \in Nat
    BY EarlierIsFinite
  <2>6. v \in late
    BY <2>3, <2>4, <2>5, <2>7
  <2> QED BY <1>2, <2>4, <2>6
<1> QED BY <1>3 DEF Nth

LEMMA NthGrows ==
  ASSUME NEW S, IsFiniteSet(S), S \subseteq Nat, NEW p \in Nat, NEW q \in Nat, p < q, q < Cardinality(S)
  PROVE  Nth(S, p) < Nth(S, q)
<1>1. Cardinality(S) \in Nat /\ p < Cardinality(S)
  BY FS_CardinalityType
<1>2. /\ Nth(S, p) \in S /\ Cardinality(Earlier(S, Nth(S, p))) = p
      /\ Nth(S, q) \in S /\ Cardinality(Earlier(S, Nth(S, q))) = q
  BY <1>1, NthIsThere
<1>3. ~(Nth(S, q) < Nth(S, p))
  <2> SUFFICES ASSUME Nth(S, q) < Nth(S, p)  PROVE FALSE
    OBVIOUS
  <2>1. q + 1 <= p
    BY <1>2, EarlierGrows
  <2> QED BY <2>1
<1>4. Nth(S, q) # Nth(S, p)
  BY <1>2
<1>5. Nth(S, q) \in Nat /\ Nth(S, p) \in Nat
  BY <1>2
<1> QED BY <1>3, <1>4, <1>5

\* Between the p-th and the q-th there are, with the p-th, q - p.
LEMMA NthApart ==
  ASSUME NEW S, IsFiniteSet(S), S \subseteq Nat, NEW p \in Nat, NEW q \in Nat, p <= q, q < Cardinality(S)
  PROVE  Cardinality({u \in S : Nth(S, p) <= u /\ u < Nth(S, q)}) = q - p
<1> DEFINE a == Nth(S, p)
           b == Nth(S, q)
           between == {u \in S : a <= u /\ u < b}
<1>1. Cardinality(S) \in Nat /\ p < Cardinality(S)
  BY FS_CardinalityType
<1>2. a \in S /\ b \in S /\ Cardinality(Earlier(S, a)) = p /\ Cardinality(Earlier(S, b)) = q
  BY <1>1, NthIsThere
<1>8. a \in Nat /\ b \in Nat
  BY <1>2
<1>3. a <= b
  <2>1. CASE p = q
    BY <1>8, <2>1
  <2>2. CASE p < q
    <3>1. a < b
      BY <2>2, NthGrows
    <3> QED BY <1>8, <3>1
  <2> QED BY <2>1, <2>2
<1>4. Earlier(S, b) = Earlier(S, a) \union between /\ Earlier(S, a) \intersect between = {}
  <2>1. a \in Nat /\ b \in Nat /\ \A u \in S : u \in Nat
    BY <1>2
  <2> HIDE DEF a, b
  <2>2. \A u \in S : u < b <=> u < a \/ (a <= u /\ u < b)
    BY <1>3, <2>1
  <2>3. \A u \in S : ~(u < a /\ a <= u)
    BY <2>1
  <2> QED BY <2>2, <2>3, EarlierAre
<1>5. IsFiniteSet(Earlier(S, a)) /\ IsFiniteSet(between)
  BY EarlierIsFinite, FS_Subset
<1>6. Cardinality(between) \in Nat
  BY <1>5, FS_CardinalityType
<1>7. Cardinality(Earlier(S, a) \union between) = Cardinality(Earlier(S, a)) + Cardinality(between)
  <2>1. Cardinality(Earlier(S, a) \union between)
          = Cardinality(Earlier(S, a)) + Cardinality(between) - Cardinality(Earlier(S, a) \intersect between)
    BY <1>5, FS_Union
  <2>2. Cardinality(Earlier(S, a) \intersect between) = 0
    BY <1>4, FS_EmptySet
  <2>3. Cardinality(Earlier(S, a)) \in Nat
    BY <1>5, FS_CardinalityType
  <2> HIDE DEF between
  <2> QED BY <1>6, <2>1, <2>2, <2>3
<1> QED BY <1>2, <1>4, <1>6, <1>7

(***************************************************************************)
(* A window of it.                                                         *)
(***************************************************************************)
LEMMA WalkConstants ==
  /\ IsFiniteSet(Traded) /\ Traded # {}
  /\ \A h \in Histories, s \in Traded : IsFiniteSet(h[s]) /\ h[s] \subseteq Nat
  /\ TrainBars \in Nat \ {0} /\ TestBars \in Nat \ {0} /\ Embargoes \subseteq Nat
  /\ Warmup \in Nat /\ RankWarmup \in Nat
BY WalkAssumption

LEMMA ReferenceIsTraded ==
  ASSUME prints \in Histories
  PROVE  Reference \in Traded /\ IsFiniteSet(prints[Reference]) /\ prints[Reference] \subseteq Nat
<1> DEFINE size == [s \in Traded |-> Cardinality(prints[s])]
           sizes == {size[s] : s \in Traded}
<1>1. \A s \in Traded : size[s] \in Nat
  BY WalkConstants, FS_CardinalityType
<1>2. IsFiniteSet(sizes) /\ sizes \subseteq Nat /\ sizes # {}
  <2>1. IsFiniteSet(sizes)
    BY WalkConstants, ImageIsNoMore
  <2> QED BY <1>1, <2>1, WalkConstants
<1>3. PICK bound \in Nat : sizes \subseteq 0..bound
  BY <1>2, FiniteIsBounded
<1>4. PICK n \in sizes : \A m \in sizes : m <= n
  BY <1>2, <1>3, GreatestNatural
<1>5. PICK s \in Traded : n = size[s]
  BY <1>4
<1>6. \A r \in Traded : Cardinality(prints[s]) >= Cardinality(prints[r])
  BY <1>1, <1>4, <1>5
<1>7. Reference \in Traded
  BY <1>5, <1>6 DEF Reference
<1> QED BY <1>7, WalkConstants

\* A window is warmed up by no more bars of a series than the rule needs.
LEMMA WarmAreFew ==
  ASSUME prints \in Histories, NEW s \in Traded, NEW w, w.from \in Nat
  PROVE  /\ IsFiniteSet(WarmBars(s, w)) /\ Cardinality(WarmBars(s, w)) \in Nat
         /\ Cardinality(WarmBars(s, w)) <= Warmup
<1> DEFINE before == {t \in prints[s] : t < w.from}
           Since(t) == {u \in before : u >= t}
           warm == {t \in before : Cardinality(Since(t)) <= Warmup}
<1>1. IsFiniteSet(before) /\ before \subseteq Nat
  BY WalkConstants, FS_Subset
<1>2. warm = WarmBars(s, w)
  BY DEF WarmBars
<1>3. warm \subseteq before /\ IsFiniteSet(warm) /\ Cardinality(warm) \in Nat
  BY <1>1, FS_Subset, FS_CardinalityType
<1>4. CASE warm = {}
  <2>1. Cardinality(warm) = 0
    BY <1>4, FS_EmptySet
  <2> HIDE DEF warm
  <2> QED BY <1>2, <1>3, <2>1, WalkConstants
<1>5. CASE warm # {}
  <2>1. warm \subseteq Nat
    BY <1>1, <1>3
  <2>2. PICK m \in warm : \A t \in warm : m <= t
    <3> HIDE DEF warm
    <3> QED BY <1>5, <2>1, LeastNatural
  <2>3. warm \subseteq Since(m) /\ IsFiniteSet(Since(m))
    <3>1. \A t \in warm : t >= m
      BY <2>1, <2>2
    <3> QED BY <1>1, <1>3, <3>1, FS_Subset
  <2>4. Cardinality(warm) <= Cardinality(Since(m)) /\ Cardinality(Since(m)) \in Nat
    BY <2>3, FS_Subset, FS_CardinalityType
  <2>5. Cardinality(Since(m)) <= Warmup
    BY <2>2
  <2> HIDE DEF warm, Since
  <2> QED BY <1>2, <1>3, <2>4, <2>5, WalkConstants
<1> QED BY <1>4, <1>5

\* What is cut for a window is of its series; what of it is not of the window
\* warms it up, and so is every later bar of the series before it.
LEMMA SliceIs ==
  ASSUME prints \in Histories, NEW s \in Traded, NEW w, w.from \in Nat
  PROVE  /\ Slice(s, w) \subseteq prints[s] /\ Slice(s, w) \subseteq Nat /\ IsFiniteSet(Slice(s, w))
         /\ \A t \in Slice(s, w) : t < w.from => t \in WarmBars(s, w)
         /\ \A t \in Slice(s, w) : w.from <= t => t \in Within(w)
         /\ Slice(s, w) # {} => Inside(s, w) # {} /\ WarmBars(s, w) \subseteq Slice(s, w)
<1>1. prints[s] \subseteq Nat /\ IsFiniteSet(prints[s])
  BY WalkConstants
<1>2. WarmBars(s, w) \subseteq prints[s] /\ \A t \in WarmBars(s, w) : t < w.from
  BY DEF WarmBars
<1>3. Inside(s, w) \subseteq prints[s] /\ Inside(s, w) \subseteq Within(w)
  BY DEF Inside
<1>4. \A t \in Slice(s, w) : t \in WarmBars(s, w) \/ t \in Inside(s, w)
  BY DEF Slice
<1>5. \A t \in Nat : t \in Within(w) => w.from <= t
  BY DEF Within
<1>6. Slice(s, w) \subseteq prints[s] /\ Slice(s, w) \subseteq Nat /\ IsFiniteSet(Slice(s, w))
  <2>1. Slice(s, w) \subseteq prints[s]
    BY <1>2, <1>3, <1>4
  <2> QED BY <1>1, <2>1, FS_Subset
<1>7. ASSUME NEW t \in Slice(s, w), t < w.from  PROVE t \in WarmBars(s, w)
  <2>1. t \in Nat /\ ~(w.from <= t)
    BY <1>6, <1>7
  <2> QED BY <1>3, <1>4, <1>5, <2>1
<1>8. ASSUME NEW t \in Slice(s, w), w.from <= t  PROVE t \in Within(w)
  <2>1. t \in Nat /\ ~(t < w.from)
    BY <1>6, <1>8
  <2> QED BY <1>2, <1>3, <1>4, <2>1
<1>9. Slice(s, w) # {} => Inside(s, w) # {} /\ WarmBars(s, w) \subseteq Slice(s, w)
  BY DEF Slice
<1> QED BY <1>6, <1>7, <1>8, <1>9

LEMMA WarmAreLast ==
  ASSUME prints \in Histories, NEW s \in Traded, NEW w, w.from \in Nat,
         NEW d \in WarmBars(s, w), NEW e \in prints[s], d < e, e < w.from
  PROVE  e \in WarmBars(s, w)
<1> DEFINE before == {t \in prints[s] : t < w.from}
           Since(t) == {u \in before : u >= t}
<1>1. prints[s] \subseteq Nat /\ IsFiniteSet(before)
  BY WalkConstants, FS_Subset
<1>2. d \in before /\ e \in before /\ Cardinality(Since(d)) <= Warmup
  BY DEF WarmBars
<1>3. Since(e) \subseteq Since(d)
  <2>1. d \in Nat /\ e \in Nat /\ \A u \in before : u \in Nat
    BY <1>1, <1>2
  <2> QED BY <2>1
<1>4. IsFiniteSet(Since(d)) /\ IsFiniteSet(Since(e))
  BY <1>1, FS_Subset
<1>5. /\ Cardinality(Since(e)) <= Cardinality(Since(d))
      /\ Cardinality(Since(e)) \in Nat /\ Cardinality(Since(d)) \in Nat
  BY <1>3, <1>4, FS_Subset, FS_CardinalityType
<1>6. Cardinality(Since(e)) <= Warmup
  <2> HIDE DEF Since
  <2> QED BY <1>2, <1>5, WalkConstants
<1> QED BY <1>2, <1>6 DEF WarmBars

\* Before a bar that warms a window up there are fewer than the rule needs, and
\* fewer by two when another is to come.
LEMMA EarlierAreFew ==
  ASSUME prints \in Histories, NEW s \in Traded, NEW w, w.from \in Nat,
         NEW d \in Slice(s, w), d < w.from
  PROVE  /\ Cardinality(Earlier(Slice(s, w), d)) + 1 <= Warmup
         /\ \A e \in prints[s] : d < e /\ e < w.from => Cardinality(Earlier(Slice(s, w), d)) + 2 <= Warmup
<1> DEFINE warm == WarmBars(s, w)
           early == Earlier(Slice(s, w), d)
<1>1. /\ IsFiniteSet(warm) /\ Cardinality(warm) \in Nat /\ Cardinality(warm) <= Warmup
      /\ IsFiniteSet(early) /\ Cardinality(early) \in Nat
  BY WarmAreFew, EarlierIsFinite, SliceIs
<1>2. d \in warm /\ d \in Nat
  BY SliceIs
<1>3. early \subseteq warm /\ d \notin early /\ \A u \in early : u \in Nat /\ u < d
  <2>1. \A u \in early : u \in Slice(s, w) /\ u < d
    BY EarlierAre
  <2>2. \A u \in early : u \in Nat
    BY <2>1, SliceIs
  <2>3. \A u \in early : u < w.from
    BY <1>2, <2>1, <2>2
  <2>4. d \notin early
    BY <1>2, <2>1
  <2> QED BY <2>1, <2>2, <2>3, <2>4, SliceIs
<1> HIDE DEF warm, early
<1>4. /\ early \union {d} \subseteq warm /\ IsFiniteSet(early \union {d})
      /\ Cardinality(early \union {d}) = Cardinality(early) + 1
  BY <1>1, <1>2, <1>3, FS_AddElement
<1>5. Cardinality(early \union {d}) <= Cardinality(warm)
  BY <1>1, <1>4, FS_Subset
<1>6. Cardinality(early) + 1 <= Warmup
  BY <1>1, <1>4, <1>5, WalkConstants
<1>7. ASSUME NEW e \in prints[s], d < e, e < w.from  PROVE Cardinality(early) + 2 <= Warmup
  <2>1. e \in warm
    BY <1>2, <1>7, WarmAreLast DEF warm
  <2>2. e \in Nat
    BY WalkConstants
  <2>3. e \notin early \union {d}
    BY <1>2, <1>3, <1>7, <2>2
  <2> DEFINE both == (early \union {d}) \union {e}
  <2>4. both \subseteq warm /\ Cardinality(both) = Cardinality(early \union {d}) + 1
    BY <1>4, <2>1, <2>3, FS_AddElement
  <2>5. Cardinality(both) <= Cardinality(warm)
    BY <1>1, <2>4, FS_Subset
  <2> HIDE DEF both
  <2> QED BY <1>1, <1>4, <2>4, <2>5, WalkConstants
<1> QED BY <1>6, <1>7 DEF early

\* No round trip of a window was decided before the last bar of its name that
\* came before it.
LEMMA TripsAreInside ==
  ASSUME prints \in Histories, plan.mode \in {"signal", "portfolio"}, Warmup <= RankWarmup + 1,
         NEW s \in Traded, NEW w, w.from \in Nat, NEW trip \in Trips(s, w)
  PROVE  /\ trip.symbol = s /\ w.from <= trip.entered
         /\ \A t \in prints[s] : trip.decided < t => w.from <= t
         /\ plan.mode = "signal" => w.from <= trip.decided
<1> DEFINE d == trip.decided
           e == trip.entered
           early == Earlier(Slice(s, w), d)
<1>1. /\ trip.symbol = s /\ d \in Decisions(s, w) /\ e \in Slice(s, w)
      /\ {t \in Series(s, w) : d < t /\ t <= e} = {e}
  BY DEF Trips
<1>2. /\ d \in Slice(s, w)
      /\ Cardinality(Earlier(Series(s, w), d)) >= Warmup
      /\ plan.mode = "portfolio" => Cardinality(early) >= RankWarmup
  BY <1>1 DEF Decisions
<1>3. d < e
  BY <1>1
<1>4. d \in Nat /\ e \in Nat /\ e \in prints[s] /\ \A t \in prints[s] : t \in Nat
  BY <1>1, <1>2, SliceIs, WalkConstants
<1>5. Cardinality(early) \in Nat
  BY SliceIs, EarlierIsFinite
<1>6. plan.mode = "signal" => w.from <= d
  <2> SUFFICES ASSUME plan.mode = "signal", ~(w.from <= d)  PROVE FALSE
    OBVIOUS
  <2>1. d < w.from
    BY <1>4
  <2>2. Cardinality(early) + 1 <= Warmup
    BY <1>2, <2>1, EarlierAreFew
  <2>3. Cardinality(early) >= Warmup
    BY <1>2 DEF Series
  <2> HIDE DEF early
  <2> QED BY <1>5, <2>2, <2>3, WalkConstants
<1>7. \A t \in prints[s] : d < t => w.from <= t
  <2> SUFFICES ASSUME NEW t \in prints[s], d < t, ~(w.from <= t)  PROVE FALSE
    OBVIOUS
  <2>1. t < w.from /\ d < w.from /\ ~(w.from <= d)
    BY <1>4
  <2>2. Cardinality(early) + 2 <= Warmup
    BY <1>2, <2>1, EarlierAreFew
  <2>3. plan.mode = "portfolio"
    BY <1>6, <2>1
  <2> HIDE DEF early
  <2> QED BY <1>2, <1>5, <2>2, <2>3, WalkConstants
<1> HIDE DEF d, e
<1>8. w.from <= e
  BY <1>3, <1>4, <1>7
<1> QED BY <1>1, <1>6, <1>7, <1>8 DEF d, e

(***************************************************************************)
(* The walk.                                                               *)
(***************************************************************************)
PlanType == [anchored : BOOLEAN, embargo : Embargoes, mode : {"signal", "portfolio"}]
WalkType == prints \in Histories /\ plan \in PlanType /\ trainStop \in Nat \ {0} /\ stamps \in Seq(Nat)

\* The bars of the reference a fold is cut at, and the embargo between.
LEMMA FoldIsCut ==
  ASSUME WalkType, Judged
  PROVE  LET test == Bounds(TestStart, TestStop) IN
         /\ TestStop \in Nat \ {0} /\ trainStop < Length
         /\ test.from \in Nat /\ test.from = BarAt(TestStart) /\ BarAt(trainStop) <= test.from
         /\ TestStop < Length => /\ test.to = BarAt(TestStop) /\ BarAt(TestStop) \in Nat
                                 /\ BarAt(trainStop) <= BarAt(TestStop)
         /\ Bounds(TrainStart, trainStop).from <= BarAt(trainStop) /\ BarAt(trainStop) \in Nat
         /\ Bounds(TrainStart, trainStop).to = BarAt(trainStop)
         /\ Bounds(TrainStart, trainStop).from \in Nat
         /\ Cardinality({u \in prints[Reference] : BarAt(trainStop) <= u /\ u < test.from}) = plan.embargo
<1> DEFINE S == prints[Reference]
<1>1. IsFiniteSet(S) /\ S \subseteq Nat /\ Length = Cardinality(S) /\ Length \in Nat
  BY ReferenceIsTraded, FS_CardinalityType DEF WalkType, Length
<1>2. plan.embargo \in Nat /\ trainStop \in Nat \ {0} /\ TestStart \in Nat /\ trainStop <= TestStart
  <2>1. plan.embargo \in Embargoes /\ trainStop \in Nat \ {0}
    BY DEF WalkType, PlanType
  <2>2. plan.embargo \in Nat
    BY <2>1, WalkConstants
  <2> QED BY <2>1, <2>2 DEF TestStart
<1>3. TestStop \in Nat /\ TestStop <= Length
  <2>1. TestStart + TestBars \in Nat
    BY <1>2, WalkConstants
  <2> QED BY <1>1, <2>1, LesserOfTwo DEF TestStop
<1>4. TestStart < TestStop
  <2>1. TestBars \div 2 \in Nat
    BY WalkConstants
  <2>2. Max({1, TestBars \div 2}) \in Nat /\ 1 <= Max({1, TestBars \div 2})
    BY <2>1, GreaterOfTwo
  <2>3. TestStop - TestStart >= Max({1, TestBars \div 2})
    BY DEF Judged
  <2> QED BY <1>2, <1>3, <2>2, <2>3
<1>5. trainStop < Length /\ TestStart < Length /\ TestStop \in Nat \ {0}
  BY <1>1, <1>2, <1>3, <1>4
<1>6. TrainStart \in Nat /\ TrainStart <= trainStop
  BY <1>2, WalkConstants DEF TrainStart
<1>7. \A p \in Nat : p < Length => BarAt(p) \in Nat
  BY <1>1, NthIsThere DEF BarAt
<1>8. \A p, q \in Nat : p <= q /\ q < Length => BarAt(p) <= BarAt(q)
  <2> SUFFICES ASSUME NEW p \in Nat, NEW q \in Nat, p <= q, q < Length  PROVE BarAt(p) <= BarAt(q)
    OBVIOUS
  <2>1. BarAt(p) \in Nat /\ BarAt(q) \in Nat
    BY <1>1, <1>7
  <2>2. CASE p = q
    BY <2>1, <2>2
  <2>3. CASE p < q
    <3>1. BarAt(p) < BarAt(q)
      BY <1>1, <2>3, NthGrows DEF BarAt
    <3> QED BY <2>1, <3>1
  <2> QED BY <2>2, <2>3
<1>9. Cardinality({u \in S : BarAt(trainStop) <= u /\ u < BarAt(TestStart)}) = plan.embargo
  <2>1. Cardinality({u \in S : BarAt(trainStop) <= u /\ u < BarAt(TestStart)}) = TestStart - trainStop
    BY <1>1, <1>2, <1>5, NthApart DEF BarAt
  <2> QED BY <1>2, <2>1 DEF TestStart
<1>10. /\ Bounds(TestStart, TestStop).from = BarAt(TestStart)
       /\ TestStop < Length => Bounds(TestStart, TestStop).to = BarAt(TestStop)
  BY <1>1, <1>3 DEF Bounds
<1>11. /\ Bounds(TrainStart, trainStop).from = BarAt(TrainStart)
       /\ Bounds(TrainStart, trainStop).to = BarAt(trainStop)
  BY <1>1, <1>2, <1>5 DEF Bounds
<1>12. TrainStart < Length
  BY <1>1, <1>2, <1>5, <1>6
<1>13. BarAt(trainStop) \in Nat /\ BarAt(TestStart) \in Nat /\ BarAt(TrainStart) \in Nat
       /\ (TestStop < Length => BarAt(TestStop) \in Nat)
  BY <1>2, <1>3, <1>5, <1>6, <1>7, <1>12
<1>14. BarAt(trainStop) <= BarAt(TestStart) /\ BarAt(TrainStart) <= BarAt(trainStop)
  BY <1>2, <1>5, <1>6, <1>8
<1>15. TestStop < Length => BarAt(trainStop) <= BarAt(TestStop)
  BY <1>2, <1>3, <1>4, <1>8
<1> QED BY <1>5, <1>9, <1>10, <1>11, <1>13, <1>14, <1>15

\* What a fold's fit reads ends where its train window does.
LEMMA FitIsBefore ==
  ASSUME prints \in Histories, NEW w, w.from \in Nat, w.to \in Nat, w.from <= w.to
  PROVE  \A t \in Timeline(w) : t \in Nat /\ t < w.to
<1> SUFFICES ASSUME NEW s \in Traded, NEW t \in Slice(s, w)  PROVE t \in Nat /\ t < w.to
  BY DEF Timeline
<1>1. t \in Nat
  BY SliceIs
<1>2. CASE t < w.from
  BY <1>1, <1>2
<1>3. CASE w.from <= t
  <2>1. t \in Within(w)
    BY <1>3, SliceIs
  <2> QED BY <1>1, <2>1 DEF Within
<1> QED BY <1>1, <1>2, <1>3

\* A chained curve goes forward inside its window.
LEMMA ReturnsGoForward ==
  ASSUME NEW curve, IsFiniteSet(curve), curve \subseteq Nat
  PROVE  /\ Returns(curve) \in Seq(Nat)
         /\ \A i \in DOMAIN Returns(curve) : Returns(curve)[i] \in curve
         /\ \A i, j \in DOMAIN Returns(curve) : i < j => Returns(curve)[i] < Returns(curve)[j]
<1> DEFINE kept == curve \ {Min(curve)}
           n == Cardinality(kept)
           walk == [i \in 1 .. n |-> Nth(kept, i - 1)]
<1>1. IsFiniteSet(kept) /\ kept \subseteq Nat /\ n \in Nat
  BY FS_Subset, FS_CardinalityType
<1>2. CASE Cardinality(curve) < 2
  <2>1. Returns(curve) = <<>>
    BY <1>2 DEF Returns
  <2> QED BY <2>1
<1>3. CASE ~(Cardinality(curve) < 2)
  <2>1. Returns(curve) = walk
    BY <1>3 DEF Returns
  <2> HIDE DEF kept, n
  <2>2. \A i \in 1 .. n : walk[i] = Nth(kept, i - 1) /\ i - 1 \in Nat /\ i - 1 < n
    BY <1>1
  <2>3. \A i \in 1 .. n : walk[i] \in kept
    BY <1>1, <2>2, NthIsThere DEF n
  <2>4. \A i, j \in 1 .. n : i < j => walk[i] < walk[j]
    <3> SUFFICES ASSUME NEW i \in 1 .. n, NEW j \in 1 .. n, i < j  PROVE walk[i] < walk[j]
      OBVIOUS
    <3>1. i - 1 < j - 1 /\ i - 1 \in Nat /\ j - 1 \in Nat /\ j - 1 < n
      BY <1>1
    <3>2. Nth(kept, i - 1) < Nth(kept, j - 1)
      BY <1>1, <3>1, NthGrows DEF n
    <3> QED BY <2>2, <3>2
  <2>5. walk \in Seq(Nat) /\ DOMAIN walk = 1 .. n
    <3>1. \A i \in 1 .. n : walk[i] \in Nat
      BY <1>1, <2>3
    <3>2. walk = [i \in 1 .. n |-> walk[i]]
      OBVIOUS
    <3>3. walk \in [1 .. n -> Nat]
      <4> HIDE DEF walk
      <4> QED BY <3>1, <3>2
    <3> QED BY <1>1, <3>3
  <2>6. kept \subseteq curve
    BY DEF kept
  <2> HIDE DEF walk
  <2> QED BY <2>1, <2>3, <2>4, <2>5, <2>6
<1> QED BY <1>2, <1>3

\* The curves chained so far end before the next test begins.
WalkInv ==
  /\ WalkType
  /\ trainStop < Length => \A i \in DOMAIN stamps : stamps[i] < BarAt(trainStop)
  /\ FoldsAreHonest

LEMMA TimelineIsFinite ==
  ASSUME prints \in Histories, NEW w, w.from \in Nat
  PROVE  IsFiniteSet(Timeline(w)) /\ Timeline(w) \subseteq Nat
<1>1. \A s \in Traded : IsFiniteSet(Slice(s, w)) /\ Slice(s, w) \subseteq Nat
  BY SliceIs
<1> DEFINE cut == [s \in Traded |-> Slice(s, w)]
           slices == {cut[s] : s \in Traded}
<1>2. IsFiniteSet(slices)
  <2> HIDE DEF cut
  <2> QED BY WalkConstants, ImageIsNoMore
<1>3. \A u \in slices : IsFiniteSet(u)
  BY <1>1
<1>4. IsFiniteSet(UNION slices)
  <2> HIDE DEF slices
  <2> QED BY <1>2, <1>3, FS_UNION
<1> QED BY <1>1, <1>4 DEF Timeline

\* What the run of a test window reports.
LEMMA RunIsHonest ==
  ASSUME prints \in Histories, plan.mode \in {"signal", "portfolio"}, Warmup <= RankWarmup + 1,
         NEW w, w.from \in Nat,
         NEW made, made \subseteq UNION {Trips(s, w) : s \in Available(w)}
  PROVE  LET run == RunWindow(made, w) IN
         /\ run.made = run.counted
         /\ run.curve \subseteq Within(w) /\ IsFiniteSet(run.curve) /\ run.curve \subseteq Nat
         /\ \A t \in run.curve : w.from <= t
         /\ \A trip \in run.counted :
              /\ \A t \in prints[trip.symbol] : trip.decided < t => w.from <= t
              /\ plan.mode = "signal" => w.from <= trip.decided
         /\ run.curve # {} => \A s \in Traded :
              \/ Inside(s, w) # {}
              \/ Outside(s, w)
              \/ table # NoTable /\ table[s] \intersect Within(w) = {}
<1>1. ASSUME NEW trip \in made
      PROVE  /\ w.from <= trip.entered
             /\ \A t \in prints[trip.symbol] : trip.decided < t => w.from <= t
             /\ plan.mode = "signal" => w.from <= trip.decided
  <2>1. PICK s \in Traded : trip \in Trips(s, w)
    BY DEF Available
  <2> QED BY <2>1, TripsAreInside
<1>2. CASE Unexplained(w) # {}
  <2>1. RunWindow(made, w) = Nothing
    BY <1>2 DEF RunWindow
  <2>2. Nothing.curve = {} /\ Nothing.made = {} /\ Nothing.counted = {}
    BY DEF Nothing
  <2> QED BY <2>1, <2>2, FS_EmptySet
<1>3. CASE Unexplained(w) = {}
  <2> DEFINE run == RunWindow(made, w)
  <2>1. /\ run.curve = {t \in Timeline(w) : t >= w.from}
        /\ run.made = made
        /\ run.counted = {trip \in made : trip.entered >= w.from}
    BY <1>3 DEF RunWindow
  <2>2. \A trip \in made : trip.entered >= w.from
    <3> SUFFICES ASSUME NEW trip \in made  PROVE trip.entered >= w.from
      OBVIOUS
    <3>1. PICK s \in Traded : trip \in Trips(s, w)
      BY DEF Available
    <3>2. trip.entered \in Slice(s, w)
      BY <3>1 DEF Trips
    <3>3. trip.entered \in Nat
      BY <3>2, SliceIs
    <3> QED BY <1>1, <3>3
  <2> HIDE DEF run
  <2>3. run.counted = made
    BY <2>1, <2>2
  <2>4. /\ run.curve \subseteq Timeline(w) /\ IsFiniteSet(run.curve) /\ run.curve \subseteq Nat
        /\ \A t \in run.curve : w.from <= t
    <3>1. run.curve \subseteq Timeline(w)
      BY <2>1
    <3>2. IsFiniteSet(run.curve) /\ run.curve \subseteq Nat
      BY <3>1, TimelineIsFinite, FS_Subset
    <3>3. \A t \in run.curve : t >= w.from /\ t \in Nat
      BY <2>1, <3>2
    <3> QED BY <3>1, <3>2, <3>3
  <2>5. run.curve \subseteq Within(w)
    <3> SUFFICES ASSUME NEW t \in run.curve  PROVE t \in Within(w)
      OBVIOUS
    <3>1. PICK s \in Traded : t \in Slice(s, w)
      BY <2>4 DEF Timeline
    <3> QED BY <2>4, <3>1, SliceIs
  <2>6. ASSUME NEW s \in Traded
        PROVE  Inside(s, w) # {} \/ Outside(s, w) \/ (table # NoTable /\ table[s] \intersect Within(w) = {})
    <3>1. CASE s \in Available(w)
      BY <3>1, SliceIs DEF Available
    <3>2. CASE s \notin Available(w)
      BY <1>3, <3>2 DEF Unexplained
    <3> QED BY <3>1, <3>2
  <2> QED BY <1>1, <2>1, <2>3, <2>4, <2>5, <2>6 DEF run
<1> QED BY <1>2, <1>3

\* Two chained curves, the second of which begins where the first has ended.
LEMMA ChainsGoForward ==
  ASSUME NEW a \in Seq(Nat), NEW b \in Seq(Nat), NEW at \in Nat,
         \A i, j \in DOMAIN a : i < j => a[i] < a[j],
         \A i, j \in DOMAIN b : i < j => b[i] < b[j],
         \A i \in DOMAIN a : a[i] < at,
         \A i \in DOMAIN b : at <= b[i]
  PROVE  \A i, j \in DOMAIN (a \o b) : i < j => (a \o b)[i] < (a \o b)[j]
<1>1. Len(a) \in Nat /\ Len(b) \in Nat /\ DOMAIN a = 1 .. Len(a) /\ DOMAIN b = 1 .. Len(b)
  OBVIOUS
<1>2. DOMAIN (a \o b) = 1 .. Len(a) + Len(b)
  BY <1>1
<1>3. \A i \in DOMAIN (a \o b) : (a \o b)[i] = IF i <= Len(a) THEN a[i] ELSE b[i - Len(a)]
  BY <1>1, <1>2
<1>4. /\ \A i \in DOMAIN a : a[i] \in Nat
      /\ \A i \in DOMAIN b : b[i] \in Nat
  BY <1>1
<1> SUFFICES ASSUME NEW i \in DOMAIN (a \o b), NEW j \in DOMAIN (a \o b), i < j
             PROVE  (a \o b)[i] < (a \o b)[j]
  OBVIOUS
<1>5. i \in 1 .. Len(a) + Len(b) /\ j \in 1 .. Len(a) + Len(b)
  BY <1>2
<1>6. CASE j <= Len(a)
  <2>1. i \in DOMAIN a /\ j \in DOMAIN a /\ i <= Len(a)
    BY <1>1, <1>5, <1>6
  <2>2. (a \o b)[i] = a[i] /\ (a \o b)[j] = a[j]
    BY <1>3, <1>6, <2>1
  <2> QED BY <2>1, <2>2
<1>7. CASE ~(j <= Len(a)) /\ i <= Len(a)
  <2>1. i \in DOMAIN a /\ j - Len(a) \in DOMAIN b
    BY <1>1, <1>5, <1>7
  <2>2. (a \o b)[i] = a[i] /\ (a \o b)[j] = b[j - Len(a)]
    BY <1>3, <1>7
  <2>3. a[i] < at /\ at <= b[j - Len(a)] /\ a[i] \in Nat /\ b[j - Len(a)] \in Nat
    BY <1>4, <2>1
  <2>4. \A x, y \in Nat : x < at /\ at <= y => x < y
    OBVIOUS
  <2> QED BY <2>2, <2>3, <2>4
<1>8. CASE ~(i <= Len(a))
  <2>1. i - Len(a) \in DOMAIN b /\ j - Len(a) \in DOMAIN b /\ i - Len(a) < j - Len(a) /\ ~(j <= Len(a))
    BY <1>1, <1>5, <1>8
  <2>2. (a \o b)[i] = b[i - Len(a)] /\ (a \o b)[j] = b[j - Len(a)]
    BY <1>3, <1>8, <2>1
  <2> QED BY <2>1, <2>2
<1> QED BY <1>6, <1>7, <1>8

LEMMA WalkBegins ==
  ASSUME WalkInit
  PROVE  WalkInv
<1>1. trainStop \in Nat \ {0} /\ stamps = <<>> /\ fold = NoFold /\ prints \in Histories
  BY WalkConstants DEF WalkInit
<1>2. WalkType
  BY <1>1 DEF WalkType, PlanType, WalkInit
<1>3. DOMAIN stamps = {}
  BY <1>1
<1> QED BY <1>1, <1>2, <1>3 DEF WalkInv, FoldsAreHonest

\* One more fold.
LEMMA WalkGoesOn ==
  ASSUME WalkInv, Warmup <= RankWarmup + 1, WalkFold
  PROVE  WalkInv'
<1> DEFINE test == Bounds(TestStart, TestStop)
           train == Bounds(TrainStart, trainStop)
<1>1. WalkType /\ Judged
  BY DEF WalkInv, WalkFold
<1>2. /\ TestStop \in Nat \ {0} /\ trainStop < Length
      /\ test.from \in Nat /\ BarAt(trainStop) \in Nat /\ BarAt(trainStop) <= test.from
      /\ TestStop < Length => /\ test.to = BarAt(TestStop) /\ BarAt(TestStop) \in Nat
                              /\ BarAt(trainStop) <= BarAt(TestStop)
      /\ train.from \in Nat /\ train.to = BarAt(trainStop) /\ train.from <= BarAt(trainStop)
      /\ Cardinality({u \in prints[Reference] : BarAt(trainStop) <= u /\ u < test.from}) = plan.embargo
  BY <1>1, FoldIsCut
<1>3. prints \in Histories /\ plan \in PlanType /\ plan.mode \in {"signal", "portfolio"} /\ stamps \in Seq(Nat)
  BY <1>1 DEF WalkType, PlanType
<1>4. PICK made \in {{}} \union {{trip} : trip \in UNION {Trips(s, test) : s \in Available(test)}} :
        /\ fold' = [index |-> fold.index + 1, train |-> train, test |-> test,
                    read |-> Timeline(train), run |-> RunWindow(made, test)]
        /\ stamps' = stamps \o Returns(RunWindow(made, test).curve)
  BY DEF WalkFold
<1>5. trainStop' = TestStop /\ prints' = prints /\ table' = table /\ plan' = plan
  BY DEF WalkFold
<1> DEFINE run == RunWindow(made, test)
<1>6. /\ run.made = run.counted
      /\ run.curve \subseteq Within(test) /\ IsFiniteSet(run.curve) /\ run.curve \subseteq Nat
      /\ \A t \in run.curve : test.from <= t
      /\ \A trip \in run.counted :
           /\ \A t \in prints[trip.symbol] : trip.decided < t => test.from <= t
           /\ plan.mode = "signal" => test.from <= trip.decided
      /\ run.curve # {} => \A s \in Traded :
           \/ Inside(s, test) # {}
           \/ Outside(s, test)
           \/ table # NoTable /\ table[s] \intersect Within(test) = {}
  <2>1. made \subseteq UNION {Trips(s, test) : s \in Available(test)}
    BY <1>4
  <2> HIDE DEF test
  <2> QED BY <1>2, <1>3, <2>1, RunIsHonest
<1>7. /\ fold'.test = test /\ fold'.read = Timeline(train) /\ fold'.run = run
  BY <1>4
<1>8. /\ Length' = Length /\ Reference' = Reference
      /\ \A p : BarAt(p)' = BarAt(p)
      /\ \A w : \A s \in Traded : Inside(s, w)' = Inside(s, w) /\ Outside(s, w)' = Outside(s, w)
  BY <1>5 DEF Length, Reference, BarAt, Inside, Outside
<1> HIDE DEF test, train, run
<1>9. \A t \in fold'.read :
        /\ t < test.from
        /\ Cardinality({u \in prints[Reference] : t < u /\ u < test.from}) >= plan.embargo
  <2> SUFFICES ASSUME NEW t \in Timeline(train)
               PROVE  /\ t < test.from
                      /\ Cardinality({u \in prints[Reference] : t < u /\ u < test.from}) >= plan.embargo
    BY <1>7
  <2> DEFINE gap == {u \in prints[Reference] : t < u /\ u < test.from}
             apart == {u \in prints[Reference] : BarAt(trainStop) <= u /\ u < test.from}
  <2>1. t \in Nat /\ t < BarAt(trainStop)
    BY <1>2, <1>3, FitIsBefore
  <2>2. IsFiniteSet(prints[Reference]) /\ \A u \in prints[Reference] : u \in Nat
    BY <1>3, ReferenceIsTraded
  <2>3. \A u \in prints[Reference] : BarAt(trainStop) <= u => t < u
    <3>1. \A x \in Nat : BarAt(trainStop) <= x => t < x
      BY <1>2, <2>1
    <3> QED BY <2>2, <3>1
  <2>4. apart \subseteq gap /\ IsFiniteSet(gap) /\ IsFiniteSet(apart)
    BY <2>2, <2>3, FS_Subset
  <2>5. Cardinality(apart) <= Cardinality(gap) /\ Cardinality(gap) \in Nat /\ Cardinality(apart) \in Nat
    BY <2>4, FS_Subset, FS_CardinalityType
  <2>6. Cardinality(apart) = plan.embargo
    BY <1>2
  <2>7. t < test.from
    BY <1>2, <2>1
  <2> HIDE DEF gap, apart
  <2>8. Cardinality(gap) >= plan.embargo
    BY <2>5, <2>6
  <2> QED BY <2>7, <2>8 DEF gap
<1>10. /\ Returns(run.curve) \in Seq(Nat)
       /\ \A i \in DOMAIN Returns(run.curve) : Returns(run.curve)[i] \in run.curve
       /\ \A i, j \in DOMAIN Returns(run.curve) : i < j => Returns(run.curve)[i] < Returns(run.curve)[j]
  BY <1>6, ReturnsGoForward
<1> DEFINE more == Returns(run.curve)
<1> HIDE DEF more
<1>11. stamps' = stamps \o more /\ more \in Seq(Nat)
  BY <1>4, <1>10 DEF run, more
<1>12. \A i \in DOMAIN stamps : stamps[i] < BarAt(trainStop)
  BY <1>2 DEF WalkInv
<1>13. \A i, j \in DOMAIN stamps : i < j => stamps[i] < stamps[j]
  BY DEF WalkInv, FoldsAreHonest
<1>14. \A i \in DOMAIN more : more[i] \in Nat /\ test.from <= more[i] /\ more[i] \in Within(test)
  BY <1>6, <1>10 DEF more
<1>15. \A i, j \in DOMAIN stamps' : i < j => stamps'[i] < stamps'[j]
  <2>1. \A i \in DOMAIN more : BarAt(trainStop) <= more[i]
    BY <1>2, <1>14
  <2>2. \A i, j \in DOMAIN more : i < j => more[i] < more[j]
    BY <1>10 DEF more
  <2> QED BY <1>2, <1>3, <1>11, <1>12, <1>13, <2>1, <2>2, ChainsGoForward
<1>16. TestStop < Length => \A i \in DOMAIN stamps' : stamps'[i] < BarAt(TestStop)
  <2> SUFFICES ASSUME TestStop < Length, NEW i \in DOMAIN stamps'  PROVE stamps'[i] < BarAt(TestStop)
    OBVIOUS
  <2>1. /\ Len(stamps) \in Nat /\ Len(more) \in Nat
        /\ DOMAIN stamps = 1 .. Len(stamps) /\ DOMAIN more = 1 .. Len(more)
        /\ DOMAIN stamps' = 1 .. Len(stamps) + Len(more)
    BY <1>3, <1>11
  <2>2. test.to = BarAt(TestStop) /\ BarAt(TestStop) \in Nat
    BY <1>2
  <2>3. CASE i <= Len(stamps)
    <3>1. i \in DOMAIN stamps /\ stamps'[i] = stamps[i] /\ stamps[i] \in Nat
      BY <1>3, <1>11, <2>1, <2>3
    <3>2. stamps[i] < BarAt(trainStop)
      BY <1>12, <3>1
    <3>3. BarAt(trainStop) \in Nat /\ BarAt(trainStop) <= BarAt(TestStop)
      BY <1>2
    <3> QED BY <2>2, <3>1, <3>2, <3>3
  <2>4. CASE ~(i <= Len(stamps))
    <3>1. i - Len(stamps) \in DOMAIN more /\ stamps'[i] = more[i - Len(stamps)]
      BY <1>3, <1>11, <2>1, <2>4
    <3>2. more[i - Len(stamps)] < test.to /\ more[i - Len(stamps)] \in Nat
      BY <1>14, <2>2, <1>2, <3>1 DEF Within
    <3> QED BY <2>2, <3>1, <3>2
  <2> QED BY <2>3, <2>4
<1>17. FoldsAreHonest'
  <2>1. \A trip \in run.counted : (prints[trip.symbol])' = prints[trip.symbol]
    BY <1>5
  <2> QED BY <1>5, <1>6, <1>7, <1>8, <1>9, <1>15 DEF FoldsAreHonest
<1>18. WalkType'
  BY <1>2, <1>3, <1>5, <1>11 DEF WalkType
<1> QED BY <1>5, <1>8, <1>16, <1>17, <1>18 DEF WalkInv

LEMMA WalkStands ==
  ASSUME WalkInv, UNCHANGED walkVars
  PROVE  WalkInv'
<1>1. prints' = prints /\ table' = table /\ plan' = plan /\ trainStop' = trainStop /\ fold' = fold /\ stamps' = stamps
  BY DEF walkVars
<1> QED BY <1>1 DEF WalkInv, WalkType, FoldsAreHonest, Length, BarAt, Reference, Inside, Outside

(***************************************************************************)
(* A fold is out of sample: what its fit read ends the embargo before its  *)
(* test, nothing is held when the test begins, and the chained curve goes  *)
(* forward, for any series with any gaps, any splits, embargo and table,   *)
(* of a rule that ranks a name no sooner than its screen is warm.          *)
(***************************************************************************)
THEOREM FoldsStandAlone == Warmup <= RankWarmup + 1 => (WalkSpec => []FoldsAreHonest)
<1> SUFFICES ASSUME Warmup <= RankWarmup + 1  PROVE WalkSpec => []FoldsAreHonest
  OBVIOUS
<1>1. WalkInit => WalkInv
  BY WalkBegins
<1>2. WalkInv /\ [WalkNext]_walkVars => WalkInv'
  BY WalkGoesOn, WalkStands DEF WalkNext
<1>3. WalkInv => FoldsAreHonest
  BY DEF WalkInv
<1> QED BY <1>1, <1>2, <1>3, PTL DEF WalkSpec

-----------------------------------------------------------------------------
USE RootsAssumption

(***************************************************************************)
(* Operators                                                               *)
(***************************************************************************)
\* A row of Seal, field by field.
LEMMA SealType ==
  ASSUME NEW s, s \in Seal
  PROVE  /\ s = [phase |-> s.phase, tainted |-> s.tainted, touched |-> s.touched,
                 read |-> s.read, searched |-> s.searched]
         /\ s.phase \in {"research", "sealed"} /\ s.read \in SUBSET Day
         /\ s.tainted \in BOOLEAN /\ s.touched \in BOOLEAN /\ s.searched \in BOOLEAN
  BY DEF Seal

LEMMA FreshType == FreshSeal \in Seal
  BY DEF FreshSeal, Seal

LEMMA ObserveType ==
  ASSUME NEW s \in Seal, NEW read \in SUBSET Day
  PROVE  Observe(s, read) \in Seal
  BY DEF Observe, Seal

\* What a write leaves is of what was written, and may be a file.
LEMMA PrefixesType ==
  ASSUME NEW written \in SUBSET Day, NEW file \in WriteLeaves(written)
  PROVE  file \subseteq written /\ file \in Files
  BY DEF WriteLeaves, Files

\* What a write does to the process that makes it.
LEMMA WriteType ==
  ASSUME TypeOK, NEW p \in Procs, NEW written, NEW file, NEW next \in Stages,
         Write(p, written, file, next)
  PROVE  /\ seal' \in [Procs -> Seal] /\ stage' \in [Procs -> Stages]
         /\ inHand' \in [Procs -> SUBSET Day]
  BY FreshType DEF Write, TypeOK, Stages

LEMMA FilesAreDays ==
  ASSUME NEW file \in Files
  PROVE  /\ RowsOf(file) \in SUBSET Day
         /\ file # Absent => RowsOf(file) = file /\ file \in SUBSET Day
<1>1. 0 \notin Day
  BY DEF Day
<1>2. CASE file \in SUBSET Day
  <2>1. file \ Absent = file
    BY <1>1, <1>2 DEF Absent
  <2> QED BY <1>2, <2>1 DEF RowsOf
<1>3. CASE file = Absent
  BY <1>3 DEF RowsOf
<1> QED BY <1>2, <1>3 DEF Files

-----------------------------------------------------------------------------
(* Type correctness.                                                       *)

LEMMA InitType == Init => TypeOK
<1>1. Absent \in Files
  BY DEF Files
<1> QED BY <1>1, FreshType DEF Init, TypeOK, Stages

LEMMA ServedType ==
  ASSUME TypeOK, NEW start, NEW end
  PROVE  Served(start, end) \in SUBSET Day
  BY DEF Served, TypeOK, Day

\* What a reader of bars takes of a root.
LEMMA WindowType ==
  ASSUME TypeOK, NEW root \in Roots, NEW start, NEW end
  PROVE  Window(prices[root], start, end) \in SUBSET Day
<1>1. prices[root] \in Files
  BY DEF TypeOK
<1> QED BY <1>1, FilesAreDays DEF Window

\* The rows a command writes are days, and so is what it leaves.
LEMMA StepType ==
  ASSUME TypeOK, NEW p \in Procs, Step(p)
  PROVE  TypeOK'
<1> USE DEF TypeOK
<1>1. CASE Pull(p)
  <2>1. PICK start, end \in 1 .. LastDay + 1 : \E file \in WriteLeaves(Served(start, Clamped(end))) :
          /\ Write(p, Served(start, Clamped(end)), file, "ready")
          /\ prices' = [prices EXCEPT !["research"] = file]
    BY <1>1 DEF Pull
  <2>2. PICK file \in WriteLeaves(Served(start, Clamped(end))) :
          /\ Write(p, Served(start, Clamped(end)), file, "ready")
          /\ prices' = [prices EXCEPT !["research"] = file]
    BY <2>1
  <2>3. file \in Files
    BY <2>2, ServedType, PrefixesType
  <2> QED BY <1>1, <2>2, <2>3, WriteType DEF Pull, Stages
<1>2. CASE SealedPull(p)
  <2>1. PICK start, end \in 1 .. LastDay + 1 : \E file \in WriteLeaves(Served(start, end)) :
          /\ Write(p, Served(start, end), file, "ready")
          /\ prices' = [prices EXCEPT !["sealed"] = file]
    BY <1>2 DEF SealedPull
  <2>2. PICK file \in WriteLeaves(Served(start, end)) :
          /\ Write(p, Served(start, end), file, "ready")
          /\ prices' = [prices EXCEPT !["sealed"] = file]
    BY <2>1
  <2>3. file \in Files
    BY <2>2, ServedType, PrefixesType
  <2> QED BY <1>2, <2>2, <2>3, WriteType DEF SealedPull, Stages
<1>3. CASE Backfill(p)
  <2>1. PICK from \in Day : \E file \in WriteLeaves(Prefix(from) \union prices["sealed"]) :
          /\ Write(p, Prefix(from) \union prices["sealed"], file, "ready")
          /\ prices' = [prices EXCEPT !["sealed"] = file]
    BY <1>3 DEF Backfill
  <2>2. Prefix(from) \union prices["sealed"] \in SUBSET Day
    BY <1>3, FilesAreDays DEF Prefix, Backfill, Roots
  <2>3. PICK file \in WriteLeaves(Prefix(from) \union prices["sealed"]) :
          /\ Write(p, Prefix(from) \union prices["sealed"], file, "ready")
          /\ prices' = [prices EXCEPT !["sealed"] = file]
    BY <2>1
  <2>4. file \in Files
    BY <2>2, <2>3, PrefixesType
  <2> QED BY <1>3, <2>3, <2>4, WriteType DEF Backfill, Stages
<1>4. CASE Download(p)
  <2>1. 1 .. today \in Files
    BY DEF Files, Day
  <2> QED BY <1>4, <2>1 DEF Download, Transfer, Stages
<1>5. CASE SplitTable(p)
  <2>1. PICK file \in WriteLeaves(raw) :
          /\ Write(p, raw, file, "ready")
          /\ chain' = [chain EXCEPT !["research"] = file]
    BY <1>5 DEF SplitTable
  <2>2. file \in Files
    <3>1. CASE raw \in SUBSET Day
      BY <2>1, <3>1, PrefixesType
    <3>2. CASE raw = Absent
      <4>1. file = Absent \/ file = {}
        BY <2>1, <3>2 DEF WriteLeaves, Absent
      <4> QED BY <4>1 DEF Files
    <3> QED BY <3>1, <3>2 DEF Files
  <2> QED BY <1>5, <2>1, <2>2, WriteType DEF SplitTable, Stages
<1>6. CASE TruncateResearch(p)
  <2>1. Source \in SUBSET Day
    BY <1>6, FilesAreDays DEF TruncateResearch, Source, Roots
  <2>2. PICK file \in WriteLeaves(Source \ Reserved) : chain' = [chain EXCEPT !["research"] = file]
    BY <1>6 DEF TruncateResearch
  <2>3. file \in Files
    BY <2>1, <2>2, PrefixesType
  <2> QED BY <1>6, <2>1, <2>2, <2>3 DEF TruncateResearch, Stages
<1>7. CASE KeepSealed(p)
  <2>1. PICK file \in WriteLeaves(inHand[p]) :
          /\ Write(p, inHand[p], file, "split")
          /\ chain' = [chain EXCEPT !["sealed"] = file]
    BY <1>7 DEF KeepSealed
  <2>2. file \in Files
    BY <2>1, PrefixesType
  <2> QED BY <1>7, <2>1, <2>2, WriteType DEF KeepSealed, Stages
<1>8. CASE ArmCanary(p)
  BY <1>8 DEF ArmCanary, Stages
<1>9. CASE ReadBars(p)
  <2>1. PICK read \in SUBSET Day : seal' = [seal EXCEPT ![p] = Observe(@, read)]
    BY <1>9, WindowType DEF ReadBars
  <2> QED BY <1>9, <2>1, ObserveType DEF ReadBars, files
<1>10. CASE ReadChain(p)
  <2>1. PICK read \in SUBSET Day : seal' = [seal EXCEPT ![p] = Observe(@, read)]
    BY <1>10, FilesAreDays DEF ReadChain, Roots
  <2> QED BY <1>10, <2>1, ObserveType DEF ReadChain, files
<1>11. CASE ReadCanary(p)
  BY <1>11 DEF ReadCanary, files, Seal
<1>12. CASE Promote(p)
  BY <1>12 DEF Promote, files, Seal
<1>13. CASE ReadSealed(p)
  <2>1. PICK read \in SUBSET Day : seal' = [seal EXCEPT ![p] = Observe(@, read)]
    <3>1. PICK file \in {prices["sealed"], chain["sealed"]} \ {Absent} :
            seal' = [seal EXCEPT ![p] = Observe(@, file)]
      BY <1>13 DEF ReadSealed
    <3>2. file \in Files /\ file # Absent
      BY <3>1 DEF Roots
    <3> QED BY <3>1, <3>2, FilesAreDays
  <2> QED BY <1>13, <2>1, ObserveType DEF ReadSealed, files
<1>14. CASE Exit(p)
  BY <1>14, FreshType DEF Exit, files, Stages
<1> QED BY <1>1, <1>2, <1>3, <1>4, <1>5, <1>6, <1>7, <1>8, <1>9, <1>10, <1>11, <1>12, <1>13, <1>14
        DEF Step

(***************************************************************************)
(* The roots and the seals keep their types: in particular no command      *)
(* holds, and no write leaves, anything but days.                          *)
(***************************************************************************)
THEOREM TypeCorrect == Spec => []TypeOK
<1>1. ASSUME TypeOK, [Next]_vars PROVE TypeOK'
  <2>1. CASE DayPasses
    BY <1>1, <2>1 DEF DayPasses, TypeOK, files, process, Day
  <2>2. CASE UNCHANGED vars
    BY <1>1, <2>2 DEF vars, TypeOK
  <2> QED BY <1>1, <2>1, <2>2, StepType DEF Next
<1> QED BY <1>1, InitType, PTL DEF Spec

-----------------------------------------------------------------------------
(* The certificates.                                                       *)

\* A seal whose certificate is true, and which a promotion can trust: a process
\* that searched has been touched.
Honest(s) ==
  /\ CertifiesClean(s) => s.read \intersect Reserved = {}
  /\ s.phase = "sealed" => ~s.searched /\ ~s.tainted
  /\ s.searched => s.touched

SealInv == \A p \in Procs : Honest(seal[p])

LEMMA FreshIsHonest == Honest(FreshSeal)
  BY DEF Honest, FreshSeal, CertifiesClean

\* A load taints research that reads past the embargo, and touches what it reads.
LEMMA ObserveIsHonest ==
  ASSUME NEW s \in Seal, Honest(s), NEW read \in SUBSET Day
  PROVE  Honest(Observe(s, read))
<1> DEFINE t == Observe(s, read)
<1>1. /\ t.phase = s.phase
      /\ t.read = s.read \union read
      /\ t.tainted = (s.tainted \/ (s.phase = "research" /\ read \intersect Reserved # {}))
      /\ t.touched = (s.touched \/ read # {})
      /\ t.searched = (s.searched \/ (s.phase = "research" /\ read # {}))
  BY DEF Observe, Seal
<1>2. CertifiesClean(t) => t.read \intersect Reserved = {}
  <2> SUFFICES ASSUME CertifiesClean(t) PROVE t.read \intersect Reserved = {}
    OBVIOUS
  <2>1. s.phase = "research" /\ ~s.tainted /\ read \intersect Reserved = {}
    BY <1>1 DEF CertifiesClean
  <2>2. s.read \intersect Reserved = {}
    BY <2>1 DEF Honest, CertifiesClean
  <2> QED BY <1>1, <2>1, <2>2
<1>3. t.phase = "sealed" => ~t.searched /\ ~t.tainted
  BY <1>1 DEF Honest
<1>4. t.searched => t.touched
  BY <1>1 DEF Honest
<1> QED BY <1>2, <1>3, <1>4 DEF Honest

LEMMA WriteIsHonest ==
  ASSUME TypeOK, SealInv, NEW p \in Procs, NEW written, NEW file, NEW next,
         Write(p, written, file, next)
  PROVE  SealInv'
<1>1. CASE seal' = seal
  BY <1>1 DEF SealInv
<1>2. CASE seal' = [seal EXCEPT ![p] = FreshSeal]
  BY <1>2, FreshIsHonest DEF SealInv, TypeOK
<1> QED BY <1>1, <1>2 DEF Write

\* Only what reads, promotes or ends a process changes its seal.
LEMMA StepIsHonest ==
  ASSUME TypeOK, SealInv, NEW p \in Procs, Step(p)
  PROVE  SealInv'
<1>1. seal[p] \in Seal /\ Honest(seal[p])
  BY DEF TypeOK, SealInv
<1>2. ASSUME NEW read \in SUBSET Day, seal' = [seal EXCEPT ![p] = Observe(@, read)]
      PROVE  SealInv'
  BY <1>1, <1>2, ObserveIsHonest DEF SealInv, TypeOK
<1>3. CASE Pull(p) \/ SealedPull(p) \/ Backfill(p) \/ SplitTable(p) \/ KeepSealed(p)
  BY <1>3, WriteIsHonest DEF Pull, SealedPull, Backfill, SplitTable, KeepSealed
<1>4. CASE Download(p) \/ TruncateResearch(p) \/ ArmCanary(p)
  BY <1>4 DEF Download, TruncateResearch, ArmCanary, SealInv
<1>5. CASE ReadBars(p)
  <2>1. PICK root \in Roots, start, end \in 1 .. LastDay + 1 :
          seal' = [seal EXCEPT ![p] = Observe(@, Window(prices[root], start, end))]
    BY <1>5 DEF ReadBars
  <2> QED BY <1>2, <2>1, WindowType
<1>6. CASE ReadChain(p)
  <2>1. PICK root \in Roots : /\ chain[root] # Absent
                              /\ seal' = [seal EXCEPT ![p] = Observe(@, chain[root])]
    BY <1>6 DEF ReadChain
  <2>2. chain[root] \in SUBSET Day
    BY <2>1, FilesAreDays DEF TypeOK
  <2> QED BY <1>2, <2>1, <2>2
<1>7. CASE ReadCanary(p)
  <2> DEFINE t == [seal[p] EXCEPT !.tainted = @ \/ seal[p].phase = "research"]
  <2>1. Honest(t)
    BY <1>1 DEF Honest, Seal, CertifiesClean
  <2>2. seal' = [seal EXCEPT ![p] = t]
    BY <1>7 DEF ReadCanary, TypeOK
  <2> QED BY <2>1, <2>2 DEF SealInv, TypeOK
<1>8. CASE Promote(p)
  <2> DEFINE t == [seal[p] EXCEPT !.phase = "sealed"]
  <2>1. Honest(t)
    BY <1>1, <1>8 DEF Honest, Seal, CertifiesClean, Promote, MayPromote
  <2>2. seal' = [seal EXCEPT ![p] = t]
    BY <1>8 DEF Promote, TypeOK
  <2> QED BY <2>1, <2>2 DEF SealInv, TypeOK
<1>9. CASE ReadSealed(p)
  <2>1. PICK file \in {prices["sealed"], chain["sealed"]} \ {Absent} :
          seal' = [seal EXCEPT ![p] = Observe(@, file)]
    BY <1>9 DEF ReadSealed
  <2>2. file \in SUBSET Day
    <3>1. file \in Files /\ file # Absent
      BY <2>1 DEF Roots, TypeOK
    <3> QED BY <3>1, FilesAreDays
  <2> QED BY <1>2, <2>1, <2>2
<1>10. CASE Exit(p)
  BY <1>10, FreshIsHonest DEF Exit, SealInv, TypeOK
<1> QED BY <1>3, <1>4, <1>5, <1>6, <1>7, <1>8, <1>9, <1>10 DEF Step

-----------------------------------------------------------------------------
(* The files.                                                              *)

\* The vendor's file is all the vendor served on some day that has been.
Whole == raw # Absent => \E k \in 1 .. today : raw = 1 .. k

KeptInv ==
  /\ Whole
  /\ \A r \in Roots : RowsOf(chain[r]) \subseteq RowsOf(raw)
  /\ \A p \in Procs : stage[p] = "pulled" => raw # Absent
  /\ \A p \in Procs : stage[p] = "truncated" => inHand[p] \subseteq RowsOf(raw)
  /\ prices["research"] \intersect Reserved = {}

\* A new download is of every day of the one before it.
LEMMA RawGrows ==
  ASSUME TypeOK, Whole, NEW p \in Procs, Download(p)
  PROVE  /\ Whole' /\ RowsOf(raw) \subseteq RowsOf(raw')
         /\ raw # Absent => raw' # Absent
         /\ stage'[p] = "pulled" /\ stage[p] # "pulled" => raw' # Absent
<1>1. today \in 1 .. LastDay /\ today' = today /\ 0 \notin 1 .. today
  BY DEF Download, TypeOK, Day
<1>2. 1 .. today # Absent
  BY <1>1 DEF Absent
<1>3. RowsOf(raw) \subseteq 1 .. today
  <2>1. CASE raw = Absent
    BY <2>1 DEF RowsOf
  <2>2. CASE raw # Absent
    BY <1>1, <2>2 DEF Whole, RowsOf
  <2> QED BY <2>1, <2>2
<1>4. CASE raw' = raw
  <2>1. Whole'
    BY <1>1, <1>4 DEF Whole
  <2>2. stage'[p] = "pulled" /\ stage[p] # "pulled" => raw' # Absent
    BY <1>2, <1>4 DEF Download
  <2> QED BY <1>4, <2>1, <2>2
<1>5. CASE raw' = 1 .. today
  <2>1. RowsOf(raw') = 1 .. today
    BY <1>1, <1>5 DEF RowsOf, Absent
  <2>2. Whole'
    BY <1>1, <1>5 DEF Whole
  <2> QED BY <1>2, <1>3, <1>5, <2>1, <2>2
<1> QED BY <1>4, <1>5 DEF Download, Transfer

\* What a command may leave in stage: what it was on its way to, or nothing.
LEMMA WriteStage ==
  ASSUME TypeOK, NEW p \in Procs, NEW written, NEW file, NEW next,
         Write(p, written, file, next)
  PROVE  /\ \A q \in Procs \ {p} : stage'[q] = stage[q] /\ inHand'[q] = inHand[q]
         /\ stage'[p] \in {next, "ready"}
  BY DEF Write, TypeOK

\* A step that leaves the vendor's file and the chains alone.
LEMMA OtherKept ==
  ASSUME TypeOK, KeptInv, NEW p \in Procs, UNCHANGED <<today, raw, chain>>,
         \A q \in Procs \ {p} : stage'[q] = stage[q] /\ inHand'[q] = inHand[q],
         stage'[p] = "ready" \/ (stage'[p] = stage[p] /\ inHand'[p] = inHand[p]),
         prices'["research"] \intersect Reserved = {}
  PROVE  KeptInv'
<1>1. Whole'
  BY DEF KeptInv, Whole
<1>2. \A r \in Roots : RowsOf(chain'[r]) \subseteq RowsOf(raw')
  BY DEF KeptInv
<1>3. \A q \in Procs : stage'[q] = "pulled" => raw' # Absent
  BY DEF KeptInv
<1>4. \A q \in Procs : stage'[q] = "truncated" => inHand'[q] \subseteq RowsOf(raw')
  BY DEF KeptInv
<1> QED BY <1>1, <1>2, <1>3, <1>4 DEF KeptInv

\* A step that writes one chain of rows the vendor's file has.
LEMMA ChainKept ==
  ASSUME TypeOK, KeptInv, NEW p \in Procs, UNCHANGED <<today, raw, prices>>,
         NEW root \in Roots, NEW file, chain' = [chain EXCEPT ![root] = file],
         RowsOf(file) \subseteq RowsOf(raw),
         \A q \in Procs \ {p} : stage'[q] = stage[q] /\ inHand'[q] = inHand[q],
         \/ stage'[p] \in {"ready", "split"}
         \/ stage'[p] = stage[p] /\ inHand'[p] = inHand[p]
         \/ stage'[p] = "truncated" /\ inHand'[p] \subseteq RowsOf(raw)
  PROVE  KeptInv'
<1>1. Whole'
  BY DEF KeptInv, Whole
<1>2. \A r \in Roots : RowsOf(chain'[r]) \subseteq RowsOf(raw')
  BY DEF KeptInv, TypeOK
<1>3. \A q \in Procs : stage'[q] = "pulled" => raw' # Absent
  BY DEF KeptInv
<1>4. \A q \in Procs : stage'[q] = "truncated" => inHand'[q] \subseteq RowsOf(raw')
  BY DEF KeptInv
<1> QED BY <1>1, <1>2, <1>3, <1>4 DEF KeptInv

LEMMA PrefixKept ==
  ASSUME NEW written, NEW whole, RowsOf(written) \subseteq whole, NEW file \in WriteLeaves(written)
  PROVE  RowsOf(file) \subseteq whole
  BY DEF WriteLeaves, RowsOf

\* A pull of research is cut at the embargo, and so is what is left of it.
LEMMA PullIsClamped ==
  ASSUME TypeOK, NEW start \in 1 .. LastDay + 1, NEW end \in 1 .. LastDay + 1,
         NEW file \in WriteLeaves(Served(start, Clamped(end)))
  PROVE  file \intersect Reserved = {}
<1>1. \A d \in Served(start, Clamped(end)) : d \notin Reserved
  BY DEF Served, Clamped, Reserved, TypeOK, Day
<1> QED BY <1>1 DEF WriteLeaves

LEMMA StepKeeps ==
  ASSUME TypeOK, KeptInv, NEW p \in Procs, Step(p)
  PROVE  KeptInv'
<1> USE DEF KeptInv
<1>1. CASE Pull(p)
  <2>1. PICK start, end \in 1 .. LastDay + 1 : \E file \in WriteLeaves(Served(start, Clamped(end))) :
          /\ Write(p, Served(start, Clamped(end)), file, "ready")
          /\ prices' = [prices EXCEPT !["research"] = file]
    BY <1>1 DEF Pull
  <2>2. PICK file \in WriteLeaves(Served(start, Clamped(end))) :
          /\ Write(p, Served(start, Clamped(end)), file, "ready")
          /\ prices' = [prices EXCEPT !["research"] = file]
    BY <2>1
  <2>3. prices'["research"] \intersect Reserved = {}
    BY <2>2, PullIsClamped DEF TypeOK, Roots
  <2> QED BY <1>1, <2>2, <2>3, WriteStage, OtherKept DEF Pull
<1>2. CASE SealedPull(p)
  <2>1. PICK written, file : /\ Write(p, written, file, "ready")
                             /\ prices' = [prices EXCEPT !["sealed"] = file]
    BY <1>2 DEF SealedPull
  <2>2. prices'["research"] = prices["research"]
    BY <2>1 DEF TypeOK, Roots
  <2> QED BY <1>2, <2>1, <2>2, WriteStage, OtherKept DEF SealedPull
<1>3. CASE Backfill(p)
  <2>1. PICK written, file : /\ Write(p, written, file, "ready")
                             /\ prices' = [prices EXCEPT !["sealed"] = file]
    BY <1>3 DEF Backfill
  <2>2. prices'["research"] = prices["research"]
    BY <2>1 DEF TypeOK, Roots
  <2> QED BY <1>3, <2>1, <2>2, WriteStage, OtherKept DEF Backfill
<1>4. CASE Download(p)
  <2>1. /\ Whole' /\ RowsOf(raw) \subseteq RowsOf(raw')
        /\ raw # Absent => raw' # Absent
        /\ stage'[p] = "pulled" /\ stage[p] # "pulled" => raw' # Absent
    BY <1>4, RawGrows
  <2>2. \A r \in Roots : RowsOf(chain'[r]) \subseteq RowsOf(raw')
    BY <1>4, <2>1 DEF Download
  <2>3. /\ \A q \in Procs \ {p} : stage'[q] = stage[q]
        /\ inHand' = inHand /\ stage'[p] \in {"ready", "pulled"} /\ stage[p] = "ready"
    BY <1>4 DEF Download, TypeOK
  <2>4. \A q \in Procs : stage'[q] = "pulled" => raw' # Absent
    BY <2>1, <2>3
  <2>5. \A q \in Procs : stage'[q] = "truncated" => inHand'[q] \subseteq RowsOf(raw')
    BY <2>1, <2>3
  <2> QED BY <1>4, <2>1, <2>2, <2>4, <2>5 DEF Download
<1>5. CASE SplitTable(p)
  <2>1. PICK file \in WriteLeaves(raw) : /\ Write(p, raw, file, "ready")
                                      /\ chain' = [chain EXCEPT !["research"] = file]
    BY <1>5 DEF SplitTable
  <2>2. RowsOf(file) \subseteq RowsOf(raw)
    BY <2>1, PrefixKept
  <2> QED BY <1>5, <2>1, <2>2, WriteStage, ChainKept DEF SplitTable, Roots
<1>6. CASE TruncateResearch(p)
  <2>1. RowsOf(Source) \subseteq RowsOf(raw) /\ Source # Absent /\ Source \in SUBSET Day
    BY <1>6, FilesAreDays DEF TruncateResearch, Source, Roots, TypeOK
  <2>2. Source \subseteq RowsOf(raw)
    BY <2>1, FilesAreDays DEF Files
  <2>3. PICK file \in WriteLeaves(Source \ Reserved) :
          /\ \/ /\ stage' = [stage EXCEPT ![p] = "truncated"]
                /\ inHand' = [inHand EXCEPT ![p] = Source]
             \/ UNCHANGED <<stage, inHand>>
          /\ chain' = [chain EXCEPT !["research"] = file]
    BY <1>6 DEF TruncateResearch
  <2>4. RowsOf(file) \subseteq RowsOf(raw)
    <3>1. RowsOf(Source \ Reserved) \subseteq RowsOf(raw)
      BY <2>2 DEF RowsOf
    <3> QED BY <2>3, <3>1, PrefixKept
  <2>5. /\ \A q \in Procs \ {p} : stage'[q] = stage[q] /\ inHand'[q] = inHand[q]
        /\ \/ stage'[p] = stage[p] /\ inHand'[p] = inHand[p]
           \/ stage'[p] = "truncated" /\ inHand'[p] \subseteq RowsOf(raw)
    BY <2>2, <2>3 DEF TypeOK
  <2> QED BY <1>6, <2>3, <2>4, <2>5, ChainKept DEF TruncateResearch, Roots
<1>7. CASE KeepSealed(p)
  <2>1. PICK file \in WriteLeaves(inHand[p]) : /\ Write(p, inHand[p], file, "split")
                                            /\ chain' = [chain EXCEPT !["sealed"] = file]
    BY <1>7 DEF KeepSealed
  <2>2. inHand[p] \subseteq RowsOf(raw)
    BY <1>7 DEF KeepSealed
  <2>3. RowsOf(file) \subseteq RowsOf(raw)
    <3>1. RowsOf(inHand[p]) \subseteq RowsOf(raw)
      BY <2>2 DEF RowsOf
    <3> QED BY <2>1, <3>1, PrefixKept
  <2> QED BY <1>7, <2>1, <2>3, WriteStage, ChainKept DEF KeepSealed, Roots
<1>8. CASE ArmCanary(p)
  <2>1. /\ \A q \in Procs \ {p} : stage'[q] = stage[q] /\ inHand'[q] = inHand[q]
        /\ stage'[p] = "ready"
    BY <1>8 DEF ArmCanary, TypeOK
  <2> QED BY <1>8, <2>1, OtherKept DEF ArmCanary
<1>9. CASE ReadBars(p) \/ ReadChain(p) \/ ReadCanary(p) \/ Promote(p) \/ ReadSealed(p)
  BY <1>9, OtherKept DEF ReadBars, ReadChain, ReadCanary, Promote, ReadSealed, files
<1>10. CASE Exit(p)
  <2>1. /\ \A q \in Procs \ {p} : stage'[q] = stage[q] /\ inHand'[q] = inHand[q]
        /\ stage'[p] = "ready"
    BY <1>10 DEF Exit, TypeOK
  <2> QED BY <1>10, <2>1, OtherKept DEF Exit, files
<1> QED BY <1>1, <1>2, <1>3, <1>4, <1>5, <1>6, <1>7, <1>8, <1>9, <1>10 DEF Step

(***************************************************************************)
(* However many processes pull, split and read, die and start again: a     *)
(* research process that certifies itself clean has read no reserved row,  *)
(* a promoted one had searched nothing, the vendor's file is whole, every  *)
(* split row is still in it, and the root a search reads ends before the   *)
(* embargo.                                                                *)
(***************************************************************************)
THEOREM SealHolds == Spec => []RootsAreKept
<1>1. Init => SealInv /\ KeptInv
  <2>1. Init => SealInv
    BY FreshIsHonest DEF Init, SealInv
  <2>2. Init => KeptInv
    BY DEF Init, KeptInv, Whole, Roots, RowsOf, Absent, Reserved
  <2> QED BY <2>1, <2>2
<1>2. ASSUME TypeOK, SealInv, KeptInv, [Next]_vars PROVE SealInv' /\ KeptInv'
  <2>1. CASE DayPasses
    <3>1. SealInv'
      BY <1>2, <2>1 DEF DayPasses, process, SealInv
    <3>2. Whole'
      BY <1>2, <2>1 DEF DayPasses, files, KeptInv, Whole, TypeOK, Day
    <3> QED BY <1>2, <2>1, <3>1, <3>2 DEF DayPasses, files, process, KeptInv
  <2>2. CASE UNCHANGED vars
    BY <1>2, <2>2 DEF vars, SealInv, KeptInv, Whole
  <2> QED BY <1>2, <2>1, <2>2, StepIsHonest, StepKeeps DEF Next
<1>3. TypeOK /\ SealInv /\ KeptInv => RootsAreKept
  <2>1. ASSUME SealInv PROVE CertificatesAreTrue
    BY <2>1 DEF SealInv, Honest, CertificatesAreTrue
  <2>2. ASSUME TypeOK, KeptInv PROVE RootsAreSafe
    BY <2>2 DEF KeptInv, Whole, RootsAreSafe, TypeOK, Day
  <2> QED BY <2>1, <2>2 DEF RootsAreKept
<1> QED BY <1>1, <1>2, <1>3, TypeCorrect, PTL DEF Spec
=============================================================================
