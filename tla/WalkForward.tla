----------------------------- MODULE WalkForward ----------------------------
(***************************************************************************)
(* aqr/validation/walkforward.py, run_walk_forward: a rule is fitted on a  *)
(* train window and judged on the test window after it, fold after fold.   *)
(* Folds are cut on the longest series and applied to all by time; every   *)
(* window is widened back so that the rule is warm when it begins.  Series *)
(* may have gaps and warm up alike.  An engine's run is any round trip it  *)
(* could make, or none; parameters are whatever the train run made of      *)
(* them.                                                                   *)
(***************************************************************************)
EXTENDS Integers, Sequences, FiniteSets, FiniteSetsExt

CONSTANTS
  Traded,                \* the symbols of the rule's universe that have data
  Histories,             \* which sessions each symbol may have bars on
  Tables,                \* which sessions each may be a member on; NoTable
  NoTable,
  TrainBars, TestBars, Embargoes,
  Warmup,                \* the bars of a series the rule needs
  RankWarmup             \* the bars of its own before a name may have a rank

ASSUME WalkAssumption ==
  /\ IsFiniteSet(Traded) /\ Traded # {}
  /\ Histories \subseteq [Traded -> SUBSET Nat]
  /\ \A h \in Histories, s \in Traded : IsFiniteSet(h[s])
  /\ TrainBars \in Nat \ {0} /\ TestBars \in Nat \ {0} /\ Embargoes \subseteq Nat
  /\ Warmup \in Nat /\ RankWarmup \in Nat

VARIABLES
  prints, table,         \* the bars, the membership table
  plan,                  \* the geometry and the engine
  trainStop,             \* where the last fold ended, in bars of the reference
  fold,                  \* the last fold and its run
  stamps                 \* of the chained curve

walkVars == <<prints, table, plan, trainStop, fold, stamps>>

Within(w) == w.from .. w.to - 1
NoFold == [index |-> 0]

WalkInit ==
  /\ prints \in Histories /\ table \in Tables
  /\ plan \in [anchored : BOOLEAN, embargo : Embargoes, mode : {"signal", "portfolio"}]
  /\ trainStop = TrainBars /\ fold = NoFold /\ stamps = <<>>

\* The longest series is the calendar; its bars are numbered from zero.
Reference == CHOOSE s \in Traded : \A r \in Traded : Cardinality(prints[s]) >= Cardinality(prints[r])
Length == Cardinality(prints[Reference])

\* The p-th of some sessions.
Earlier(S, d) == {u \in S : u < d}
Nth(S, p) == CHOOSE t \in S : Cardinality(Earlier(S, t)) = p
BarAt(p) == Nth(prints[Reference], p)

\* _bounds: a positional split, as a half-open range of time.
Bounds(from, to) ==
  [from |-> BarAt(from), to |-> IF to >= Length THEN BarAt(Length - 1) + 1 ELSE BarAt(to)]

-----------------------------------------------------------------------------
(* A window.                                                               *)

Inside(s, w) == prints[s] \intersect Within(w)

\* The last bars before the window, as many as the rule warms up on.
WarmBars(s, w) ==
  LET before == {t \in prints[s] : t < w.from}
  IN {t \in before : Cardinality({u \in before : u >= t}) <= Warmup}

\* Mutant: a series that ended before the window joins it with its last bars.
SliceToTheEnd(s, w) ==
  LET kept == WarmBars(s, w) \union Inside(s, w)
  IN IF Cardinality(kept) < 2 THEN {} ELSE kept

\* _window: what one symbol brings to it.
Slice(s, w) ==
  LET kept == WarmBars(s, w) \union Inside(s, w)
  IN IF Inside(s, w) = {} \/ Cardinality(kept) < 2 THEN {} ELSE kept

Available(w) == {s \in Traded : Slice(s, w) # {}}

\* A series that has ended, or has not begun, accounts for its absence, and
\* so does a table that has no membership in the window.
Outside(s, w) == prints[s] # {} /\ \/ \A t \in prints[s] : t < w.from
                                   \/ \A t \in prints[s] : t >= w.to
Unexplained(w) ==
  {s \in Traded \ Available(w) :
     /\ ~Outside(s, w)
     /\ table = NoTable \/ table[s] \intersect Within(w) # {}}

Timeline(w) == UNION {Slice(s, w) : s \in Traded}

\* What the engine counts its warm-up in: a signal on its own bars, a book on
\* the timeline of all of them.
Series(s, w) == IF plan.mode = "signal" THEN Slice(s, w) ELSE Timeline(w)

\* Decided warm, by a book of a member that has a bar and a rank.
Decisions(s, w) ==
  {d \in Slice(s, w) : /\ Cardinality(Earlier(Series(s, w), d)) >= Warmup
                       /\ plan.mode = "portfolio" =>
                            /\ Cardinality(Earlier(Slice(s, w), d)) >= RankWarmup
                            /\ table # NoTable => d \in table[s]}

\* A round trip: decided, filled at the next bar, and over by the last one.
Trips(s, w) ==
  {trip \in [symbol : {s}, decided : Decisions(s, w), entered : Slice(s, w), exited : Slice(s, w)] :
     /\ trip.entered <= trip.exited
     /\ {t \in Series(s, w) : trip.decided < t /\ t <= trip.entered} = {trip.entered}}

Nothing == [curve |-> {}, made |-> {}, counted |-> {}]

\* _run_window: the curve and the trades from the window on.
RunWindow(made, w) ==
  IF Unexplained(w) # {} THEN Nothing
  ELSE [curve |-> {t \in Timeline(w) : t >= w.from},
        made |-> made,
        counted |-> {trip \in made : trip.entered >= w.from}]

-----------------------------------------------------------------------------
(* The walk.                                                               *)

TestStart == trainStop + plan.embargo
TestStop == Min({TestStart + TestBars, Length})

\* walk_forward_folds: a stub is not judged.
Judged ==
  /\ trainStop < Length \/ fold = NoFold
  /\ TestStop - TestStart >= Max({1, TestBars \div 2})

TrainStart == IF plan.anchored \/ trainStop <= TrainBars THEN 0 ELSE trainStop - TrainBars

\* _stitch: the return into each session of a curve but its first.
Returns(curve) ==
  LET kept == curve \ {Min(curve)}
  IN IF Cardinality(curve) < 2 THEN <<>>
     ELSE [i \in 1 .. Cardinality(kept) |-> Nth(kept, i - 1)]

WalkFold ==
  LET train == Bounds(TrainStart, trainStop)
      test == Bounds(TestStart, TestStop)
      trips == UNION {Trips(s, test) : s \in Available(test)}
  IN /\ Judged
     /\ \E made \in {{}} \union {{trip} : trip \in trips} :
          LET run == RunWindow(made, test)
          IN /\ fold' = [index |-> fold.index + 1, train |-> train, test |-> test,
                         read |-> Timeline(train), run |-> run]
             /\ stamps' = stamps \o Returns(run.curve)
     /\ trainStop' = TestStop
     /\ UNCHANGED <<prints, table, plan>>

WalkNext == WalkFold

WalkSpec == WalkInit /\ [][WalkNext]_walkVars

-----------------------------------------------------------------------------
(***************************************************************************)
(* What a fold reports is out of sample and all of one piece.  Nothing its *)
(* fit has read is in its test, with the embargo between them; the trades  *)
(* counted are those its curve is made of, for nothing was held when the   *)
(* window began: a signal is decided inside it, a book no sooner than the  *)
(* last bar of its name before it; the curve has no session outside the    *)
(* window; every symbol that could have been traded in it was there; and   *)
(* the chained curve goes forward in time.                                 *)
(***************************************************************************)
FoldsAreHonest ==
  /\ fold # NoFold =>
       LET run == fold.run IN
       /\ \A t \in fold.read :
            /\ t < fold.test.from
            /\ Cardinality({u \in prints[Reference] : t < u /\ u < fold.test.from}) >= plan.embargo
       /\ run.made = run.counted
       /\ run.curve \subseteq Within(fold.test)
       /\ \A trip \in run.counted :
            /\ \A t \in prints[trip.symbol] : trip.decided < t => fold.test.from <= t
            /\ plan.mode = "signal" => fold.test.from <= trip.decided
       /\ run.curve # {} => \A s \in Traded :
            \/ Inside(s, fold.test) # {}
            \/ Outside(s, fold.test)
            \/ table # NoTable /\ table[s] \intersect Within(fold.test) = {}
  /\ \A i, j \in DOMAIN stamps : i < j => stamps[i] < stamps[j]
=============================================================================
