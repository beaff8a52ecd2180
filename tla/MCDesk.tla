------------------------------- MODULE MCDesk -------------------------------
(***************************************************************************)
(* What the options agent decides by: its book and its limits, what it     *)
(* reads of a series of bars, swings and breaks, the phase of a trend, and *)
(* levels, and the rank of a day's volatility. A run is of one of them,    *)
(* chosen at the start, and leaves the others as they begin. The sleeve is *)
(* of ten units: the heat is a position and a half, the drawdown limit a   *)
(* losing one.                                                             *)
(***************************************************************************)
EXTENDS OptionsEntryProps, TrendLadder, Volatility, MarketStructure, TLC

CONSTANT Parts        \* those a run may be of

\* A second series of bars, read by other rules than the first.
VARIABLES desk, otherBars, otherSwings, otherStanding, otherCloses, otherBreaks

others == <<otherBars, otherSwings, otherStanding, otherCloses, otherBreaks>>

Structure(u, loss, profit, delta, spread) ==
  [under |-> u, loss |-> loss, profit |-> profit, delta |-> delta, spread |-> spread,
   age |-> 1, dte |-> 5]

MCDeltaLow == -1
MCQuoted == {Structure("a", 3, 1, 2, 5), Structure("a", 1, 1, 1, 5), Structure("b", 2, 2, NoGreeks, 8)}

Bar(l, h, c, v, a) == [low |-> l, high |-> h, close |-> c, volume |-> v, atr |-> a]
Waves == {Bar(4, 6, 5, 1, 1), Bar(4, 8, 8, 1, 1), Bar(2, 6, 2, 2, 2), Bar(2, 8, 5, 1, 2), Bar(7, 9, 9, 2, 1)}

\* Three kinds of evidence, of which two must be readable.
Weights == ("cross" :> 5) @@ ("slope" :> 3) @@ ("structure" :> 2)
Warmups == ("cross" :> 2) @@ ("slope" :> 1) @@ ("structure" :> 3)

\* A break that takes a wick on twice the volume, of any swing; the one of the
\* configuration takes two closes, of swings that move.
W == INSTANCE MarketStructure WITH
       bars <- otherBars, swings <- otherSwings, standing <- otherStanding,
       closes <- otherCloses, breaks <- otherBreaks,
       Steps <- 5, Left <- 1, Right <- 2, MinMove <- 0, AtrWarmup <- 2,
       Inclusive <- TRUE, ClosesRequired <- 1, UseWicks <- TRUE, VolumeMultiple <- 2, VolumePeriod <- 1

\* Bars that gap over each other, of which one has no volume.
V == INSTANCE Levels WITH
       bars <- otherBars, swings <- otherSwings, standing <- otherStanding,
       closes <- otherCloses, breaks <- otherBreaks,
       Bars <- {Bar(1, 2, 2, 2, 2), Bar(4, 7, 5, 0, 2), Bar(6, 9, 8, 5, 2), Bar(3, 5, 4, 1, 2)},
       Steps <- 5, Left <- 1, Right <- 1, MinMove <- 0, AtrWarmup <- 3,
       Inclusive <- FALSE, ClosesRequired <- 1, UseWicks <- FALSE, VolumeMultiple <- 0, VolumePeriod <- 1,
       Quality <- [s \in {"swing", "day", "week", "year", "gap", "fibonacci", "vwap", "profile"} |->
                     IF s = "swing" THEN 2 ELSE 1],
       Merge <- 1, Cap <- 2, HalfZone <- 1, WeekLength <- 2, YearLength <- 4, Expire <- 2,
       BinWidth <- 1, MaxBins <- 4, ValueShare <- 7, HighRatio <- 7, LowRatio <- 3

\* What an agent has before it has done anything; of a vendor's first day,
\* every row is tried only where the rank is what is followed.
MCInit ==
  /\ desk \in Parts
  /\ Init /\ LadderInit /\ StructureInit /\ W!StructureInit
  /\ RankInit /\ (desk # "rank" => published = <<NoRow>>)

MCNext ==
  /\ UNCHANGED desk
  /\ \/ desk = "entry" /\ Next /\ UNCHANGED <<svars, others, tvars, volatility>>
     \/ desk = "closes" /\ StructureNext /\ UNCHANGED <<vars, others, tvars, volatility>>
     \/ desk = "wicks" /\ W!StructureNext /\ UNCHANGED <<vars, svars, tvars, volatility>>
     \/ desk = "levels" /\ V!StructureNext /\ UNCHANGED <<vars, svars, tvars, volatility>>
     \/ desk = "ladder" /\ LadderNext /\ UNCHANGED <<vars, svars, others, volatility>>
     \/ desk = "rank" /\ RankNext /\ UNCHANGED <<vars, svars, others, tvars>>

MCSpec == MCInit /\ [][MCNext]_<<desk, vars, svars, others, tvars, volatility>>

(***************************************************************************)
(* The second series keeps to StructureIsTrue too, by its own rules; and   *)
(* where levels are read from it, a level is of evidence that was there,   *)
(* and its break is dated: see Levels.                                     *)
(***************************************************************************)
LevelsAreEvidence ==
  /\ desk = "wicks" => W!StructureIsTrue
  /\ desk = "levels" => V!LevelsAreEvidence
=============================================================================
