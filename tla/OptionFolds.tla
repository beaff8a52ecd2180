----------------------------- MODULE OptionFolds ----------------------------
(***************************************************************************)
(* aqr/options/walkforward.py, run_option_walk_forward: a fixed rule is    *)
(* re-run on folds of the calendar, each on the sessions of its train and  *)
(* its test half, and every entry belongs to the half its session is in.   *)
(* A run is any few entries the engine could make, held to expiry.  Dates  *)
(* are a month and a day of it.                                            *)
(***************************************************************************)
EXTENDS Integers, FiniteSets, FiniteSetsExt, SequencesExt

CONSTANTS
  MonthLengths,                       \* of the months of the calendar, in days
  FirstDays,                          \* the days of the first month the chain may begin on
  LastSessions,                       \* the days the chain may end on
  TrainMonths, TestMonths, StepMonths,
  MinFoldTestDays,
  Terms,                              \* how long an entry may be held
  MaxEntries                          \* bound: the entries of a test half

VARIABLES
  ends,       \* the first session of the chain and its last
  train,      \* where the train half of the next fold begins
  fold,       \* the test half of the last fold run, and where the one before it ended
  counted,    \* the sum of the folds' own test_cycles
  pooled      \* oos_trades: the test halves' trades, fold by fold

ovars == <<ends, train, fold, counted, pooled>>

Date(month, day) == [month |-> month, day |-> day]

\* The days of the calendar are numbered.
Number(date) == date.day + SumFunctionOnSet(MonthLengths, 1 .. date.month - 1)

\* _add_months: clamped to the last day of a shorter month.
AddMonths(date, n) == Date(date.month + n, Min({date.day, MonthLengths[date.month + n]}))

NoFold == [test |-> [from |-> 0, to |-> 0], ended |-> 0]

Init ==
  /\ \E d \in FirstDays, l \in LastSessions : ends = [first |-> Date(1, d), last |-> l]
  /\ train = ends.first
  /\ fold = NoFold /\ counted = 0 /\ pooled = <<>>

-----------------------------------------------------------------------------
(* Cycles.                                                                 *)

ByEntry(s, t) == s.entry < t.entry

\* A trade is counted when the last one counted is over.
Take(walk, trade) ==
  IF trade.entry < walk.free THEN walk ELSE [count |-> walk.count + 1, free |-> trade.expiry]

\* sorted: trades of one session stay as they were.
InOrder(trades) ==
  LET Earlier(i, j) == trades[i].entry < trades[j].entry \/ (trades[i].entry = trades[j].entry /\ i < j)
      order == SetToSortSeq(DOMAIN trades, Earlier)
  IN  [k \in DOMAIN order |-> trades[order[k]]]

\* independent_cycles: the greedy walk, over trades in the order of entry.
IndependentCycles(trades) == FoldLeft(Take, [count |-> 0, free |-> 0], InOrder(trades)).count

\* oos_cycles: counted over the pooled trades.
OosCycles == IndependentCycles(pooled)

-----------------------------------------------------------------------------
(* The folds.                                                              *)

TestStart == Number(AddMonths(train, TrainMonths))
TestStop == Min({Number(AddMonths(AddMonths(train, TrainMonths), TestMonths)), ends.last})

\* option_walk_forward_folds: a stub is dropped.  The calendar goes on as
\* long as a fold needs it to.
Judged ==
  /\ train.month + TrainMonths + TestMonths \in DOMAIN MonthLengths
  /\ TestStart < ends.last /\ TestStop - TestStart >= MinFoldTestDays

\* The entries of some sessions, each held for a term.
Runs(sessions, most) ==
  UNION {{{[entry |-> d, expiry |-> d + term[d]] : d \in S} : term \in [S -> Terms]} :
           S \in {T \in SUBSET sessions : Cardinality(T) <= most}}

\* _bucket: by the session of the entry, in its order.
Bucket(entries, from, to) ==
  SetToSortSeq({t \in entries : from <= t.entry /\ t.entry < to}, ByEntry)

\* The chain is cut to the fold; the engine is run once over both halves.
RunFold ==
  /\ Judged
  /\ \E fitted \in Runs(Number(train) .. TestStart - 1, 1),
        tested \in Runs(TestStart .. TestStop - 1, MaxEntries) :
       LET entries == fitted \union tested
           test == Bucket(entries, TestStart, TestStop)
       IN /\ fold' = [test |-> [from |-> TestStart, to |-> TestStop], ended |-> fold.test.to]
          /\ counted' = counted + IndependentCycles(test)
          /\ pooled' = pooled \o test
  /\ train' = AddMonths(train, StepMonths)
  /\ UNCHANGED ends

Next == RunFold

Spec == Init /\ [][Next]_ovars

-----------------------------------------------------------------------------
Independent(S) == \A t, u \in S : t # u => t.expiry <= u.entry \/ u.expiry <= t.entry

\* No month cuts the day the chain begins on.
EveryMonthHasTheDay == \A m \in DOMAIN MonthLengths : ends.first.day <= MonthLengths[m]

(***************************************************************************)
(* The test halves tile the calendar and a trade is in one of them, unless *)
(* the chain begins on a day a month does not have: the clamp is of each   *)
(* date, so a half may then end after the next begins, or before it.  The  *)
(* cycles a rule is judged by are bets that did not overlap, across the    *)
(* folds too and on any calendar: there are as many trades, no two of them *)
(* live at once.                                                           *)
(***************************************************************************)
CyclesAreIndependent ==
  /\ EveryMonthHasTheDay =>
       /\ fold.ended # 0 => fold.ended = fold.test.from
       /\ \A i, j \in DOMAIN pooled : i < j => pooled[i].entry < pooled[j].entry
  /\ \E S \in SUBSET ToSet(pooled) : Cardinality(S) = OosCycles /\ Independent(S)
=============================================================================
