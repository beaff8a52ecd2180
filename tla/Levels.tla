-------------------------------- MODULE Levels ------------------------------
(***************************************************************************)
(* core/level_engine and agent/levels.py: the levels read from the bars of *)
(* a series, of the evidence known by then, and what became of them since. *)
(* The engine keeps nothing: a reading is a function of the bars and of    *)
(* the swings, which are MarketStructure's.  Strength is left out.         *)
(***************************************************************************)
EXTENDS MarketStructure, SequencesExt

CONSTANTS
  Quality,               \* the weight of a source
  Merge, Cap, HalfZone,  \* merge_distance, max_cluster_width, zone_width, in ATRs
  WeekLength,            \* sessions of a week
  YearLength,            \* sessions of a trailing year
  Expire,                \* expire_after_untouched_bars
  BinWidth, MaxBins,     \* of a volume profile
  ValueShare, HighRatio, LowRatio    \* in tenths

LevelKinds == {"support", "resistance"}
KindOf(swing) == IF swing.kind = "high" THEN "resistance" ELSE "support"
PriceOf(swing) == IF swing.kind = "high" THEN swing.out ELSE -swing.out
Piece(price, kind, source, at) == [price |-> price, kind |-> kind, source |-> source, at |-> at]

\* The swings that were confirmed after n bars; an ATR that is warm by then.
KnownSwings(n) == {swings[i] : i \in {j \in DOMAIN swings : swings[j].seen <= n}}
Warm(n) == n >= AtrWarmup

-----------------------------------------------------------------------------
(* Evidence, as of the n-th bar.                                           *)

SwingCandidates(n) ==
  {Piece(PriceOf(s), KindOf(s), "swing", s.at) : s \in KnownSwings(n)}

\* The high and the low of some bars, the first or the last of equals.
Highest(span) == CHOOSE p \in span : \A q \in span :
  bars[q].high < bars[p].high \/ (bars[q].high = bars[p].high /\ q <= p)
Lowest(span) == CHOOSE p \in span : \A q \in span :
  bars[q].low > bars[p].low \/ (bars[q].low = bars[p].low /\ q >= p)
Extremes(span, source, high, low) ==
  {Piece(bars[high].high, "resistance", source, high),
   Piece(bars[low].low, "support", source, low)}

\* The last session, the last week that is over, and the trailing year.
Week(p) == (p - 1) \div WeekLength
LastWeek(n) == {p \in 1 .. n : Week(p) = Week(n) - 1}
Year(n) == {p \in 1 .. n : p > n - YearLength}
SessionCandidates(n) ==
  Extremes({n}, "day", n, n)
    \union (IF LastWeek(n) = {} THEN {}
            ELSE Extremes(LastWeek(n), "week", Highest(LastWeek(n)), Lowest(LastWeek(n))))
    \union Extremes(Year(n), "year", Highest(Year(n)), Lowest(Year(n)))

\* gap_candidates: both edges of the air between two bars, unless a bar from
\* then on has come back to the far one: the lows and the highs after a bar
\* are folded from the end.
LowestAfter(p, n) == Min({bars[q].low : q \in p .. n})
HighestAfter(p, n) == Max({bars[q].high : q \in p .. n})
OpenAbove(p, n) == bars[p].low > bars[p - 1].high /\ LowestAfter(p, n) > bars[p - 1].high
OpenBelow(p, n) == bars[p].high < bars[p - 1].low /\ HighestAfter(p, n) < bars[p - 1].low
GapCandidates(n) ==
  UNION {{Piece(price, "support", "gap", p) : price \in {bars[p - 1].high, bars[p].low}} :
           p \in {q \in 2 .. n : OpenAbove(q, n)}}
  \union
  UNION {{Piece(price, "resistance", "gap", p) : price \in {bars[p].high, bars[p - 1].low}} :
           p \in {q \in 2 .. n : OpenBelow(q, n)}}

\* fibonacci_candidates: half of the last leg, from the last swing back to the
\* nearest of the other kind.
FibonacciCandidates(n) ==
  LET latest == CHOOSE s \in KnownSwings(n) : \A r \in KnownSwings(n) : r.at <= s.at
      others == {s \in KnownSwings(n) : s.kind # latest.kind /\ s.at <= latest.at}
      earlier == CHOOSE s \in others : \A r \in others : r.at <= s.at
  IN IF KnownSwings(n) = {} THEN {} ELSE IF others = {} \/ PriceOf(latest) = PriceOf(earlier) THEN {}
     ELSE {Piece((PriceOf(latest) + PriceOf(earlier)) \div 2,
                      IF latest.kind = "high" THEN "support" ELSE "resistance", "fibonacci", latest.at)}

\* _dynamic_kind: by where the price is now.
DynamicKind(n, value) == IF bars[n].close > value THEN "support" ELSE "resistance"

\* anchored_vwap_candidates: from the last swing of each kind.
Vwap(p, n) ==
  LET typical(q) == ((bars[q].high + bars[q].low + bars[q].close) \div 3) * bars[q].volume
      volume == MapThenSumSet(LAMBDA q : bars[q].volume, p .. n)
  IN IF volume = 0 THEN 0 ELSE MapThenSumSet(typical, p .. n) \div volume
VwapCandidates(n) ==
  {Piece(Vwap(p, n), DynamicKind(n, Vwap(p, n)), "vwap", n) :
     p \in {q \in {Max({s.at : s \in {r \in KnownSwings(n) : r.kind = k}} \union {0}) : k \in Kinds} :
              q > 0 /\ Vwap(q, n) > 0}}

-----------------------------------------------------------------------------
(* The volume at a price.                                                  *)

\* _fit_grid: a grid too fine is made coarser by a whole factor.
Cells(low, high, width) == low \div width .. high \div width
Traded(n) == {q \in 1 .. n : bars[q].volume > 0}
Width(n) ==
  LET low == Min({bars[q].low : q \in Traded(n)})
      high == Max({bars[q].high : q \in Traded(n)})
      needed == Cardinality(Cells(low, high, BinWidth))
  IN IF needed <= MaxBins THEN BinWidth ELSE BinWidth * ((needed + MaxBins - 1) \div MaxBins)

Smaller(a, b) == IF a < b THEN a ELSE b
Larger(a, b) == IF a > b THEN a ELSE b
Overlap(bar, cell, width) ==
  Smaller(bar.high, (cell + 1) * width) - Larger(bar.low, cell * width)

\* Mutant: what division drops is dropped.
SpreadFloored(bar, cell, width) ==
  IF bar.high = bar.low THEN IF cell = bar.low \div width THEN bar.volume ELSE 0
  ELSE (bar.volume * Larger(Overlap(bar, cell, width), 0)) \div (bar.high - bar.low)

\* _spread: evenly over the cells a bar spans, and what division drops goes to
\* the one it overlaps most, the lowest of them.
Spread(bar, cell, width) ==
  LET spanned == {c \in Cells(bar.low, bar.high, width) : Overlap(bar, c, width) > 0}
      share(c) == (bar.volume * Overlap(bar, c, width)) \div (bar.high - bar.low)
      fullest == CHOOSE c \in spanned : \A d \in spanned :
                   \/ Overlap(bar, d, width) < Overlap(bar, c, width)
                   \/ Overlap(bar, d, width) = Overlap(bar, c, width) /\ c <= d
  IN IF bar.high = bar.low THEN IF cell = bar.low \div width THEN bar.volume ELSE 0
     ELSE IF cell \notin spanned THEN 0
     ELSE share(cell) + IF cell = fullest THEN bar.volume - MapThenSumSet(share, spanned) ELSE 0

\* build_volume_profile: contiguous cells between the outermost ones traded in.
Profile(n) ==
  LET width == Width(n)
      all == Cells(Min({bars[q].low : q \in Traded(n)}), Max({bars[q].high : q \in Traded(n)}), width)
      volume == [c \in all |-> MapThenSumSet(LAMBDA q : Spread(bars[q], c, width), Traded(n))]
      met == {c \in all : \E q \in Traded(n) :
                \/ Overlap(bars[q], c, width) > 0
                \/ bars[q].high = bars[q].low /\ c = bars[q].low \div width}
  IN [c \in Min(met) .. Max(met) |-> volume[c]]

Total(profile) == MapThenSumSet(LAMBDA c : profile[c], DOMAIN profile)
\* _poc_index
Poc(profile) == CHOOSE c \in DOMAIN profile : \A d \in DOMAIN profile :
  profile[d] < profile[c] \/ (profile[d] = profile[c] /\ c <= d)

\* _value_area: the heavier neighbour next, the lower of equals.
GrowArea(profile, area) ==
  LET below == area.low - 1
      above == area.high + 1
      covered == MapThenSumSet(LAMBDA c : profile[c], area.low .. area.high)
  IN IF 10 * covered >= ValueShare * Total(profile) THEN area
     ELSE IF below \in DOMAIN profile
               /\ (above \in DOMAIN profile => profile[below] >= profile[above])
          THEN [area EXCEPT !.low = below]
     ELSE IF above \in DOMAIN profile THEN [area EXCEPT !.high = above] ELSE area
ValueArea(profile) ==
  FoldLeft(LAMBDA area, c : GrowArea(profile, area),
           [low |-> Poc(profile), high |-> Poc(profile)], [i \in 1 .. Cardinality(DOMAIN profile) |-> i])

\* _runs and _nodes: runs of heavy cells without the heaviest, and of light ones
\* with a cell on either side.
RunsOf(cells) ==
  {run \in {a .. b : a \in cells, b \in cells} :
     run # {} /\ run \subseteq cells /\ Min(run) - 1 \notin cells /\ Max(run) + 1 \notin cells}
HighNodes(profile) ==
  {run \in RunsOf({c \in DOMAIN profile : 10 * profile[c] >= HighRatio * profile[Poc(profile)]}) :
     Poc(profile) \notin run}
LowNodes(profile) ==
  {run \in RunsOf({c \in DOMAIN profile : 10 * profile[c] <= LowRatio * profile[Poc(profile)]}) :
     Min(run) > Min(DOMAIN profile) /\ Max(run) < Max(DOMAIN profile)}

\* volume_profile_candidates: the heaviest cell, the heaviest of each shelf, and
\* the middle of each hole.
ProfileCandidates(n) ==
  LET profile == Profile(n)
      width == Width(n)
      middle(low, high) == ((low + high + 1) * width) \div 2
      peak(run) == Poc([c \in run |-> profile[c]])
      at(price) == Piece(price, DynamicKind(n, price), "profile", n)
  IN IF Traded(n) = {} THEN {}
     ELSE {at(middle(Poc(profile), Poc(profile)))}
            \union {at(middle(peak(run), peak(run))) : run \in HighNodes(profile)}
            \union {at(middle(Min(run), Max(run))) : run \in LowNodes(profile)}

-----------------------------------------------------------------------------
(* Levels.                                                                 *)

\* collect_candidates for a chart, and read_levels for the agent.
EvidenceOf(reader, n) ==
  {c \in SwingCandidates(n)
           \union (IF reader = "agent" THEN Extremes(1 .. n, "year", Highest(1 .. n), Lowest(1 .. n))
                   ELSE SessionCandidates(n) \union GapCandidates(n) \union FibonacciCandidates(n)
                          \union VwapCandidates(n) \union ProfileCandidates(n)) : c.price > 0}

\* _starts_new_cluster, negated: near the last one and not too far from the
\* first.  Without an ATR neither distance is known, and nothing is apart.
Joins(first, last, price, n) ==
  Warm(n) => price - last <= Merge * bars[n].atr /\ price - first <= Cap * bars[n].atr

Ascending(S) == SelectSeq([i \in 1 .. Max(S \union {0}) |-> i], LAMBDA i : i \in S)

\* cluster_candidates: single linkage over the prices of a kind.
Clusters(evidence, n) ==
  LET link(groups, price) ==
        IF groups # <<>> /\ Joins(Head(Last(groups)), Last(Last(groups)), price, n)
        THEN Append(Front(groups), Append(Last(groups), price))
        ELSE Append(groups, <<price>>)
      ofKind(k) == {c \in evidence : c.kind = k}
      groups(k) == FoldLeft(link, <<>>, Ascending({c.price : c \in ofKind(k)}))
  IN UNION {{{c \in ofKind(k) : c.price \in ToSet(group)} : group \in ToSet(groups(k))} :
              k \in LevelKinds}

\* _build_one: the centre of the evidence by its quality, and a zone about it
\* if a width is known.
Level(cluster, n) ==
  LET centre == MapThenSumSet(LAMBDA c : c.price * Quality[c.source], cluster)
                  \div MapThenSumSet(LAMBDA c : Quality[c.source], cluster)
      half == IF Warm(n) THEN HalfZone * bars[n].atr ELSE 0
  IN [kind |-> (CHOOSE c \in cluster : TRUE).kind, price |-> centre,
      low |-> Larger(centre - half, 0), high |-> centre + half, made |-> n, cluster |-> cluster]

BuildLevels(reader, n) == {Level(cluster, n) : cluster \in Clusters(EvidenceOf(reader, n), n)}

Touches(level, p) == bars[p].low <= level.high /\ bars[p].high >= level.low

\* invalidate: a close beyond the zone, on the far side of it.
Breaks(level, p) ==
  IF level.kind = "resistance" THEN bars[p].close > level.high ELSE bars[p].close < level.low

\* bars_since_touch
Untouched(level, n) == n - Max({level.made} \union {p \in level.made + 1 .. n : Touches(level, p)})

\* advance and flip: what a level has become by the n-th bar.
Advance(level, n) ==
  LET broken == {p \in level.made + 1 .. n : Breaks(level, p)} IN
  IF broken # {} THEN [status |-> "broken", at |-> Min(broken), flipped |-> TRUE]
  ELSE IF n > level.made /\ Untouched(level, n) >= Expire
  THEN [status |-> "expired", at |-> n, flipped |-> FALSE]
  ELSE [status |-> "active", at |-> level.made, flipped |-> FALSE]

Flip(level, at) ==
  [level EXCEPT !.kind = IF level.kind = "resistance" THEN "support" ELSE "resistance", !.made = at]

-----------------------------------------------------------------------------
\* No evidence is lost or counted twice, and a cluster is one price to a reader.
ClustersAreNarrow(n) ==
  \A reader \in {"agent", "chart"} :
    LET levels == BuildLevels(reader, n) IN
    /\ \A c \in EvidenceOf(reader, n) : Cardinality({v \in levels : c \in v.cluster}) = 1
    /\ Warm(n) => \A v \in levels : \A c, d \in v.cluster :
         c.price - d.price <= Cap * bars[n].atr /\ c.kind = d.kind
    /\ \A u, v \in levels : u # v /\ u.kind = v.kind =>
         \/ \A c \in u.cluster, d \in v.cluster : c.price < d.price
         \/ \A c \in u.cluster, d \in v.cluster : c.price > d.price

\* The air of a gap nobody came back for is behind the price.
GapsAreOpen(n) ==
  \A c \in GapCandidates(n) :
    \/ c.kind = "support" /\ c.price < bars[c.at].low => bars[n].close > c.price
    \/ c.kind = "resistance" /\ c.price > bars[c.at].high => bars[n].close < c.price

\* Every share that traded is in one cell; the grid is as fine as it may be; a
\* cell is no shelf and hole at once.
ProfileAddsUp(n) ==
  Traded(n) # {} =>
    LET profile == Profile(n)
        area == ValueArea(profile)
    IN /\ Total(profile) = MapThenSumSet(LAMBDA q : bars[q].volume, 1 .. n)
       /\ Cardinality(DOMAIN profile) <= MaxBins + 1
       /\ Poc(profile) \in area.low .. area.high
       /\ 10 * MapThenSumSet(LAMBDA c : profile[c], area.low .. area.high) >= ValueShare * Total(profile)
       /\ \A high \in HighNodes(profile), low \in LowNodes(profile) : high \intersect low = {}
       /\ \A low \in LowNodes(profile) : Poc(profile) \notin low

\* What a level was broken by is not read differently later, and its other side
\* stands at that moment; a break is never told as age.
BreaksStayDated(n) ==
  \A v \in BuildLevels("agent", n) :
    LET was(m) == Advance(v, m) IN
    \A m \in n .. Len(bars) :
      /\ was(m).status = "broken" =>
           /\ was(Len(bars)) = was(m)
           /\ ~Breaks(Flip(v, was(m).at), was(m).at)
           /\ \A p \in n + 1 .. was(m).at - 1 : was(p).status # "broken"
      /\ was(m).status # "broken" => \A p \in n + 1 .. m : ~Breaks(v, p)

(***************************************************************************)
(* Levels are the evidence and nothing else: no piece of it is lost or in  *)
(* two levels, a level is no wider than its cap, a gap that counts is one  *)
(* price has left behind, the profile holds the volume of the bars to the  *)
(* share, and a level that broke has broken at one bar for good.           *)
(***************************************************************************)
LevelsAreEvidence ==
  \A n \in 1 .. Len(bars) :
    /\ n = Len(bars) => ClustersAreNarrow(n) /\ GapsAreOpen(n) /\ ProfileAddsUp(n)
    /\ BreaksStayDated(n)

=============================================================================
