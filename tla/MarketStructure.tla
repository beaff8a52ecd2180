--------------------------- MODULE MarketStructure --------------------------
(***************************************************************************)
(* core/structure/engine.py: the swings of a series and the breaks of      *)
(* them, one finished bar at a time.  A bar out of order, or of another    *)
(* series, is refused, and one that still forms is read by a copy of the   *)
(* engine (core/streaming.py): neither leaves a trace, and neither is a    *)
(* step here.                                                              *)
(***************************************************************************)
EXTENDS Integers, Sequences, FiniteSets, FiniteSetsExt

CONSTANTS
  Bars,                     \* what a bar may be: low, high, close, volume, atr
  Steps,                    \* bound: bars of a series
  Left, Right,              \* left_bars, right_bars
  MinMove, AtrWarmup,       \* minimum_move_atr, and the bars an ATR needs
  Inclusive,                \* EqualPricePolicy
  ClosesRequired, UseWicks, \* BreakPolicy
  VolumeMultiple,           \* 0 for None
  VolumePeriod

\* core/bar.py refuses a bar that is out of order in itself.
ASSUME StructureAssumption ==
  /\ \A bar \in Bars : /\ {bar.low, bar.close, bar.high, bar.volume, bar.atr} \subseteq Int
                       /\ bar.low <= bar.close /\ bar.close <= bar.high
  /\ Left \in Nat \ {0} /\ Right \in Nat \ {0} /\ ClosesRequired \in Nat \ {0}
  /\ {Steps, MinMove, AtrWarmup, VolumeMultiple} \subseteq Nat /\ VolumePeriod \in Nat \ {0}

VARIABLES
  bars,      \* the bars consumed
  swings,    \* confirmed, in the order they were
  standing,  \* structural_high and structural_low
  closes,    \* _closes_above and _closes_below
  breaks

svars == <<bars, swings, standing, closes, breaks>>

Kinds == {"high", "low"}
NoSwing == [at |-> 0, seen |-> 0]

StructureInit ==
  /\ bars = <<>> /\ swings = <<>> /\ breaks = <<>>
  /\ standing = [k \in Kinds |-> NoSwing]
  /\ closes = [k \in Kinds |-> 0]

\* How far a price is to the side of k; _extreme of a bar, and what probes it.
Out(price, k) == IF k = "high" THEN price ELSE -price
Extreme(bar, k) == Out(IF k = "high" THEN bar.high ELSE bar.low, k)
Probe(bar, k) == IF UseWicks THEN Extreme(bar, k) ELSE Out(bar.close, k)

\* Mutant: an equal high to the right does not unmake a pivot.
IsPivotOnPlateau(series, p, k, right) ==
  /\ \A i \in 1 .. Left : Extreme(series[p - i], k) <= Extreme(series[p], k)
  /\ \A i \in 1 .. right : Extreme(series[p + i], k) <= Extreme(series[p], k)

\* _is_pivot: of a run of equals the last one is the pivot.
IsPivot(series, p, k, right) ==
  /\ \A i \in 1 .. Left : Extreme(series[p - i], k) <= Extreme(series[p], k)
  /\ \A i \in 1 .. right : Extreme(series[p + i], k) < Extreme(series[p], k)

\* _last_high, _last_low
Before(k) == {i \in DOMAIN swings : swings[i].kind = k}
Previous(k) == swings[Max(Before(k))]

\* _record: too small a move from the last swing of the kind is none, and one
\* that cannot be measured is none either.
Recorded(series, p, k) ==
  \/ MinMove = 0
  \/ /\ p >= AtrWarmup
     /\ \/ Before(k) = {}
        \/ LET move == Extreme(series[p], k) - Previous(k).out
           IN (IF move < 0 THEN -move ELSE move) >= MinMove * series[p].atr

\* _label
Label(out, k) ==
  IF Before(k) = {} THEN "none"
  ELSE LET up == Out(out, k) > Out(Previous(k).out, k) \/ (Inclusive /\ out = Previous(k).out)
       IN IF k = "high" THEN IF up THEN "HH" ELSE "LH" ELSE IF up THEN "HL" ELSE "LL"

\* _confirm_pivots: the bar in the middle of a full window, high before low.
Confirmed(series, k) ==
  LET p == Len(series) - Right IN
  IF p > Left /\ IsPivot(series, p, k, Right) /\ Recorded(series, p, k)
  THEN <<[kind |-> k, at |-> p, seen |-> Len(series), out |-> Extreme(series[p], k),
          label |-> Label(Extreme(series[p], k), k)]>>
  ELSE <<>>

\* The volume of a break against the average before it.
VolumeConfirms(bar) ==
  \/ VolumeMultiple = 0
  \/ /\ Len(bars) >= VolumePeriod
     /\ bar.volume * VolumePeriod
          >= VolumeMultiple * MapThenSumSet(LAMBDA i : bars[i].volume,
                                            Len(bars) - VolumePeriod + 1 .. Len(bars))

Count(count, beyond) == IF beyond THEN count + 1 ELSE 0

\* update and _consume: pivots first, then the breaks of what then stands.
ConsumeBar(bar) ==
  LET series == Append(bars, bar)
      found == [k \in Kinds |-> Confirmed(series, k)]
      level == [k \in Kinds |-> IF found[k] # <<>> THEN found[k][1] ELSE standing[k]]
      count == [k \in Kinds |->
                  IF level[k] = NoSwing THEN 0
                  ELSE Count(IF found[k] # <<>> THEN 0 ELSE closes[k],
                             Probe(bar, k) > level[k].out)]
      broken == {k \in Kinds : /\ count[k] >= ClosesRequired
                               /\ level[k] # NoSwing /\ Probe(bar, k) > level[k].out
                               /\ VolumeConfirms(bar)}
      event(k) == IF k \in broken
                  THEN <<[kind |-> k, of |-> level[k], at |-> Len(series), closes |-> count[k]]>>
                  ELSE <<>>
  IN /\ Len(bars) < Steps
     /\ bars' = series
     /\ swings' = swings \o found["high"] \o found["low"]
     /\ breaks' = breaks \o event("high") \o event("low")
     /\ standing' = [k \in Kinds |-> IF k \in broken THEN NoSwing ELSE level[k]]
     /\ closes' = [k \in Kinds |-> IF k \in broken THEN 0 ELSE count[k]]

StructureNext == \E bar \in Bars : ConsumeBar(bar)

StructureSpec == StructureInit /\ [][StructureNext]_svars

-----------------------------------------------------------------------------
\* The bars of a kind that no bar within reach exceeds, the last of equals, and
\* that has been followed long enough to know.
Peaks(k) ==
  {p \in Left + 1 .. Len(bars) - Right :
     \A q \in p - Left .. p + Right :
       q # p => \/ Extreme(bars[q], k) < Extreme(bars[p], k)
                \/ q < p /\ Extreme(bars[q], k) = Extreme(bars[p], k)}

(***************************************************************************)
(* "The whole anti-look-ahead argument": read from the series as a whole,  *)
(* the swings are the peaks that move enough from the one before, each     *)
(* known as many bars later as it takes, none of them ever revised.        *)
(***************************************************************************)
SwingsAreThePeaks ==
  \A k \in Kinds :
    LET mine == {i \in DOMAIN swings : swings[i].kind = k}
        moved(p, i) == LET d == Extreme(bars[p], k) - swings[i].out
                       IN (IF d < 0 THEN -d ELSE d) >= MinMove * bars[p].atr
        earlier(p) == {i \in mine : swings[i].at < p}
        counts(p) == MinMove = 0 \/ (p >= AtrWarmup /\ (earlier(p) = {} \/ moved(p, Max(earlier(p)))))
    IN /\ {swings[i].at : i \in mine} = {p \in Peaks(k) : counts(p)}
       /\ \A i \in mine : /\ swings[i].seen = swings[i].at + Right
                          /\ swings[i].out = Extreme(bars[swings[i].at], k)

\* The bars since a swing was known, and the run of them beyond it that ends at b.
Beyond(s, k, b) == Probe(bars[b], k) > s.out
RunTo(s, k, b) == {n \in 1 .. b - s.seen : \A i \in 0 .. n - 1 : Beyond(s, k, b - i)}

(***************************************************************************)
(* "A level that broke stays broken, and the level itself is consumed so   *)
(* it cannot break twice": a break is of the newest swing known then, by a *)
(* run of closes beyond it, counted out; and while volume is not asked for *)
(* no swing outlives a run that should have broken it.                     *)
(***************************************************************************)
BreaksAreEarned ==
  /\ \A i \in DOMAIN breaks :
       LET b == breaks[i]
           known == {j \in DOMAIN swings : swings[j].kind = b.kind /\ swings[j].seen <= b.at}
       IN /\ b.of = swings[Max(known)]
          /\ b.closes >= ClosesRequired
          /\ b.closes \in RunTo(b.of, b.kind, b.at) /\ b.closes + 1 \notin RunTo(b.of, b.kind, b.at)
          /\ \A j \in DOMAIN breaks : breaks[j].kind = b.kind /\ breaks[j].of = b.of => i = j
  /\ VolumeMultiple = 0 =>
       \A k \in Kinds : standing[k] # NoSwing =>
         \A b \in standing[k].seen .. Len(bars) : ClosesRequired \notin RunTo(standing[k], k, b)

(***************************************************************************)
(* So what is told of a series is in the series, and was when it was told. *)
(***************************************************************************)
StructureIsTrue == SwingsAreThePeaks /\ BreaksAreEarned
=============================================================================
