----------------------------- MODULE TrendLadder ----------------------------
(***************************************************************************)
(* core/trend_engine and core/trend.py: evidence is weighed into a bias,   *)
(* the bias asks for a rung of a ladder, and the rung held follows when it *)
(* was asked for often enough.  What the indicators and MarketStructure    *)
(* say of a bar is a vote each, any of them, once they can be read.        *)
(***************************************************************************)
EXTENDS Integers, Sequences, FiniteSets, FiniteSetsExt

CONSTANTS
  Evidence, Weight, Warmup,   \* the kinds with a weight, and the bars each needs
  Watch, Trend, Strong,       \* PhaseThresholds, in percent of bias
  ExitMargin, MinConfidence,  \* in percent
  Confirmation                \* confirmation_bars

\* Every kind asked for has a weight, and no floor asks for more than all.
ASSUME LadderAssumption ==
  /\ IsFiniteSet(Evidence) /\ Evidence # {}
  /\ Weight \in [Evidence -> Nat \ {0}] /\ Warmup \in [Evidence -> Nat \ {0}]
  /\ Watch \in Nat /\ Trend \in Nat /\ Strong \in Nat /\ ExitMargin \in Nat
  /\ MinConfidence \in 0 .. 100 /\ Confirmation \in Nat \ {0}

VARIABLES
  seen,      \* bars consumed, as far as warmup asks
  phase, since,               \* TrendState: state and confirmed_at, in bars ago
  pending, pendingBars, lastDirection,
  events,    \* what the last bar raised
  asked,     \* history: the targets of the last Confirmation bars
  sided      \* history: the last side the phase was on, and for how long

tvars == <<seen, phase, since, pending, pendingBars, lastDirection, events, asked, sided>>

Unknown == 9
Ladder == -3 .. 3
Neutral == 0

\* TrendPhase.direction; 0 for the two that take no side.
Side(p) == IF p = Unknown \/ p = Neutral THEN 0 ELSE IF p > 0 THEN 1 ELSE -1

Never == -1
Longest == Confirmation + 1      \* bound: ages are counted no further

LadderInit ==
  /\ seen = 0 /\ phase = Unknown /\ since = Never
  /\ pending = Unknown /\ pendingBars = 0 /\ lastDirection = 0
  /\ events = <<>> /\ asked = <<>> /\ sided = [side |-> 0, for |-> Never]

-----------------------------------------------------------------------------
(* The evidence.                                                           *)

WeightOf(S) == MapThenSumSet(LAMBDA e : Weight[e], S)

\* score_evidence: what cannot be read is in neither sum.
Score(votes) ==
  LET read == DOMAIN votes IN
  [sum |-> MapThenSumSet(LAMBDA e : Weight[e] * votes[e], read), of |-> WeightOf(read),
   confident |-> 100 * Cardinality(read) >= MinConfidence * Cardinality(Evidence)]

\* bias >= percent
AtLeast(score, percent) == 100 * score.sum >= percent * score.of

\* phase_for: a boundary belongs to the stronger phase.
PhaseFor(score) ==
  LET mirror == [score EXCEPT !.sum = -@]
      rung(s) == CASE AtLeast(s, Strong) -> 3 [] AtLeast(s, Trend) -> 2
                   [] AtLeast(s, Watch) -> 1 [] OTHER -> 0
  IN IF score.sum > 0 THEN rung(score) ELSE -rung(mirror)

\* band_of, from the side of neutral outwards.
Floor(p) == CASE p = 0 -> -Watch [] p \in {1, -1} -> Watch [] p \in {2, -2} -> Trend [] OTHER -> Strong
Ceiling(p) == CASE p = 0 -> Watch [] p \in {1, -1} -> Trend [] p \in {2, -2} -> Strong

\* target_from: leaving the phase that is held takes a margin.
TargetFrom(score, held) ==
  LET own == IF held < 0 THEN [score EXCEPT !.sum = -@] ELSE score
      above == held \notin {3, -3} /\ AtLeast(own, Ceiling(held) + ExitMargin)
      below == 100 * own.sum <= (Floor(held) - ExitMargin) * own.of
  IN IF held = Unknown \/ above \/ below THEN PhaseFor(score) ELSE held

\* _target
Target(votes) ==
  IF DOMAIN votes = {} \/ ~Score(votes).confident THEN Unknown
  ELSE TargetFrom(Score(votes), phase)

-----------------------------------------------------------------------------
(* The ladder.                                                             *)

\* phase_steps: a gap is a sequence of single rungs.
PhaseSteps(from, to) ==
  IF from = to THEN <<>>
  ELSE IF from = Unknown \/ to = Unknown THEN <<to>>
  ELSE IF to > from THEN [i \in 1 .. to - from |-> from + i]
  ELSE [i \in 1 .. from - to |-> from - i]

\* Mutant: a bar that asks for the phase held leaves the count standing.
StillPending(target) ==
  IF target = phase THEN <<pending, pendingBars>>
  ELSE IF target = Unknown THEN <<Unknown, 0>>
  ELSE <<target, IF target = pending THEN pendingBars + 1 ELSE 1>>

\* _moves, what it leaves pending before it moves.
Pending(target) ==
  IF target = phase THEN <<phase, 0>>
  ELSE IF target = Unknown THEN <<Unknown, 0>>
  ELSE <<target, IF target = pending THEN pendingBars + 1 ELSE 1>>

Moves(target) ==
  IF target = Unknown \/ (target # phase /\ Pending(target)[2] >= Confirmation)
  THEN PhaseSteps(phase, target) ELSE <<>>

Distance(p) == IF p < 0 THEN -p ELSE p

\* _event
Event(before, after, stance) ==
  IF before = after \/ after = Unknown THEN "none"
  ELSE IF Side(after) = 0 THEN IF before = Unknown THEN "none" ELSE "decreased"
  ELSE IF Side(before) # Side(after)
  THEN IF stance # 0 /\ stance # Side(after) THEN "reversal" ELSE "confirmed"
  ELSE IF Distance(after) > Distance(before) THEN "increased" ELSE "decreased"

\* _confirmation_time
Since(before, after, at) ==
  IF Side(after) = 0 THEN Never
  ELSE IF Side(before) # Side(after) \/ at = Never THEN 0 ELSE at

\* What a bar begins with, and one step of it.
Begun ==
  [phase |-> phase, stance |-> lastDirection, events |-> <<>>,
   since |-> IF since \in 0 .. Longest - 1 THEN since + 1 ELSE since]

Stepped(was, step) ==
  LET kind == Event(was.phase, step, was.stance) IN
  [phase |-> step,
   stance |-> IF Side(step) # 0 THEN Side(step) ELSE was.stance,
   events |-> IF kind = "none" THEN was.events
              ELSE Append(was.events, [from |-> was.phase, to |-> step, kind |-> kind]),
   since |-> Since(was.phase, step, was.since)]

\* The steps of a bar one after the other.
Walk(steps) ==
  LET walk[n \in 0 .. Len(steps)] == IF n = 0 THEN Begun ELSE Stepped(walk[n - 1], steps[n])
  IN walk[Len(steps)]

\* History: the side of the phases a bar went through, and how long it lasts.
Sided(steps) ==
  LET last == Side(steps[Len(steps)])
  IN IF steps = <<>>
     THEN [sided EXCEPT !.for = IF @ \in 0 .. Longest - 1 THEN @ + 1 ELSE @]
     ELSE [side |-> IF \E i \in DOMAIN steps : Side(steps[i]) # 0
                    THEN Side(steps[Max({i \in DOMAIN steps : Side(steps[i]) # 0})]) ELSE sided.side,
           for |-> IF last = 0 THEN Never
                   ELSE IF Side(phase) = last THEN IF sided.for < Longest THEN sided.for + 1 ELSE sided.for
                   ELSE 0]

\* The bars the slowest kind of evidence needs.
Slowest == Max({Warmup[e] : e \in Evidence})

\* _consume
ConsumeVotes(votes) ==
  LET target == Target(votes)
      moves == Moves(target)
      after == Walk(moves)
  IN /\ seen' = IF seen < Slowest THEN seen + 1 ELSE seen
     /\ phase' = after.phase /\ since' = after.since
     /\ lastDirection' = after.stance /\ events' = after.events
     /\ pending' = Pending(target)[1]
     /\ pendingBars' = IF Pending(target)[2] >= Confirmation THEN 0 ELSE Pending(target)[2]
     /\ asked' = LET all == Append(asked, target)
                 IN IF Len(all) > Confirmation THEN Tail(all) ELSE all
     /\ sided' = Sided(moves)

\* What is warm may be readable, and says one of three things.
LadderNext == \E read \in SUBSET {e \in Evidence : Warmup[e] <= seen + 1} :
          \E votes \in [read -> {-1, 0, 1}] : ConsumeVotes(votes)

LadderSpec == LadderInit /\ [][LadderNext]_tvars

-----------------------------------------------------------------------------
\* The bars before which no phase is known.
Enough == Min({n \in 1 .. Cardinality(Evidence) : 100 * n >= MinConfidence * Cardinality(Evidence)})
Warm(b) == {e \in Evidence : Warmup[e] <= b}
Needed == Min({b \in 1 .. Slowest : Cardinality(Warm(b)) >= Enough}) + Confirmation - 1

(***************************************************************************)
(* "Lags its evidence on purpose": a rung is reached when each of the last *)
(* bars asked for it, never sooner than warmup says, and evidence that can *)
(* no longer be read is admitted at once.                                  *)
(***************************************************************************)
ConfirmedStep ==
  /\ phase' \notin {phase, Unknown} =>
       /\ asked' = [i \in 1 .. Confirmation |-> phase']
       /\ seen' >= Min({Needed, Slowest})
  /\ asked' # <<>> /\ asked'[Len(asked')] = Unknown => phase' = Unknown

(***************************************************************************)
(* "Bullish since 10:30", and a reversal: the stance told is that of the   *)
(* phases gone through, however they were left and come back to.  What one *)
(* bar raises is a chain of single rungs that ends where the phase is.     *)
(***************************************************************************)
StanceIsTold ==
  /\ since = IF Side(phase) = 0 THEN Never ELSE sided.for
  /\ lastDirection = sided.side
  /\ events # <<>> => events[Len(events)].to = phase
  /\ \A i \in DOMAIN events :
       /\ events[i].from # Unknown => Distance(events[i].to - events[i].from) = 1
       /\ i > 1 => events[i].from = events[i - 1].to

\* The last side taken before event i of a bar.
SideBefore(i) ==
  LET before == {j \in 1 .. i - 1 : Side(events'[j].to) # 0}
  IN IF before = {} THEN sided.side ELSE Side(events'[Max(before)].to)

\* And a reversal is told when that side, however long ago, was the other.
ReversalsAreTold ==
  \A i \in DOMAIN events' :
    LET e == events'[i]
    IN e.kind = "reversal" <=>
         Side(e.to) # 0 /\ Side(e.from) # Side(e.to) /\ SideBefore(i) = -Side(e.to)

(***************************************************************************)
(* So a phase is earned, and what is told of it is so.                     *)
(***************************************************************************)
TrendIsEarned == [][ConfirmedStep /\ StanceIsTold' /\ ReversalsAreTold]_tvars
=============================================================================
