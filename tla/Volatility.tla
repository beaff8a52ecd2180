----------------------------- MODULE Volatility -----------------------------
(***************************************************************************)
(* The one number an option rule waits for.  The vendor publishes a row a  *)
(* day, some days none, some with a blank: that day's implied volatility   *)
(* and the extremes of its own year.  The research ranks a day by the      *)
(* row's own extremes and carries it forward a few days.  The agent has    *)
(* only a file of its own, which a command tops up from the vendor's table *)
(* line by line, and ranks the file's last line among all of its lines.    *)
(* The threshold of the rule was fitted to the first number and is         *)
(* compared to the second.                                                 *)
(*                                                                         *)
(* Left out: revisions of a row already published, two top-ups at once,    *)
(* the other readings of a rule, which both sides take from bars.          *)
(***************************************************************************)
EXTENDS Integers, Sequences, FiniteSets, FiniteSetsExt

CONSTANTS
  Volatilities,      \* what a row may say of a day
  LastDay,           \* bound: days of a run
  YearDays,          \* days the vendor's extremes and a top-up look back
  StaleAfter,        \* days a row may be carried forward
  MinHistory,        \* lines before a rank means anything
  MaxDeaths,         \* bound: top-ups that die inside a line
  NoRow

ASSUME RankAssumption ==
  /\ IsFiniteSet(Volatilities) /\ Volatilities \subseteq Nat \ {0} /\ Volatilities # {}
  /\ LastDay \in Nat \ {0} /\ {YearDays, StaleAfter, MinHistory, MaxDeaths} \subseteq Nat
  /\ NoRow \notin Nat \union [iv : Nat, extremes : BOOLEAN] \union [of : Nat, whole : BOOLEAN]
  /\ \A of \in SUBSET (1 .. LastDay) : NoRow # of

VARIABLES
  today,
  published,    \* of the days so far: NoRow, or the vendor's row
  pulled,       \* the day the research's copy of the table reaches
  stored,       \* days that have a whole line in the agent's file
  tail,         \* what follows the last newline of the file
  seeding,      \* days a running top-up has still to write, or NoRow
  windows,      \* first days of the windows ever topped up from
  last,         \* the last top-up, unless it died: its last day, and
                \* whether the file it began on ended in a newline
  dead          \* top-ups that died

volatility == <<today, published, pulled, stored, tail, seeding, windows, last, dead>>

None == -1
Blank == 0       \* a blank of the vendor's
Part == LastDay + 1   \* a tail that does not parse

\* extremes says whether the vendor printed the extremes of the row's year.
VendorRows ==
  [iv : Volatilities, extremes : {TRUE}] \cup {[iv |-> Blank, extremes |-> TRUE]}
  \cup {[iv |-> Max(Volatilities), extremes |-> FALSE]}

Said(d) == published[d] # NoRow /\ published[d].iv # Blank

RankInit ==
  /\ today = 1 /\ \E row \in VendorRows \cup {NoRow} : published = <<row>>
  /\ pulled = 0 /\ stored = {} /\ tail = NoRow /\ seeding = NoRow
  /\ windows = {} /\ last = NoRow /\ dead = 0

-----------------------------------------------------------------------------
(* The number as the research has it.                                      *)

YearOf(d) == {published[e].iv : e \in {x \in Max({1, d - YearDays}) .. d : Said(x)}}

Ranked(value, range) == (100 * (value - Min(range))) \div (Max(range) - Min(range))

\* A row without extremes, or whose extremes coincide, says nothing at all.
Answers(d) == Said(d) /\ published[d].extremes /\ Cardinality(YearOf(d)) > 1

AsOf(d) == LET days == {e \in 1 .. Min({d, pulled}) : Answers(e)}
           IN  IF days = {} \/ d - Max(days) > StaleAfter THEN NoRow ELSE Max(days)

ResearchRank(d) ==
  IF AsOf(d) = NoRow THEN None ELSE Ranked(published[AsOf(d)].iv, YearOf(AsOf(d)))

-----------------------------------------------------------------------------
(* The number as the agent has it.                                         *)

\* A line that parses counts whether or not its newline was written.
Entries == stored \cup (IF tail \in 1 .. LastDay THEN {tail} ELSE {})

Latest == Max(Entries)
History == {published[d].iv : d \in Entries}

Stale(d) == d - Latest > StaleAfter

LiveRank(d) ==
  IF Entries = {} \/ Stale(d) \/ Cardinality(Entries) < Max({MinHistory, 2})
     \/ Cardinality(History) = 1
  THEN None
  ELSE Ranked(published[Latest].iv, History)

-----------------------------------------------------------------------------
(* The file.                                                               *)

Dated == {d \in 1 .. pulled : published[d] # NoRow}

SinceEver == 1 - YearDays

\* The window ends at the last dated row, whether or not that row says anything.
SinceDay == Max(Dated) - YearDays

Wanted == {d \in 1 .. pulled : d >= SinceDay /\ Said(d)}

NextDay ==
  /\ seeding = NoRow /\ today < LastDay
  /\ \E row \in VendorRows \cup {NoRow} : published' = Append(published, row)
  /\ today' = today + 1
  /\ UNCHANGED <<pulled, stored, tail, seeding, windows, last, dead>>

Pull ==
  /\ seeding = NoRow /\ pulled < today /\ pulled' = today
  /\ UNCHANGED <<today, published, stored, tail, seeding, windows, last, dead>>

cmd_iv_seed ==
  /\ seeding = NoRow /\ Dated # {}
  /\ seeding' = Wanted /\ windows' = windows \cup {SinceDay}
  /\ last' = [of |-> Max(Dated), whole |-> tail = NoRow]
  /\ UNCHANGED <<today, published, pulled, stored, tail, dead>>

HasRecord(d) == d \in Entries

\* The line after a tail without a newline is one line with it, and parses as none.
Written(d) ==
  /\ tail' = NoRow
  /\ stored' = IF tail = NoRow THEN stored \cup {d} ELSE stored

\* The rows are taken in the order of their days.
Upcoming == Min(seeding)

Record ==
  /\ seeding \notin {NoRow, {}} /\ seeding' = seeding \ {Upcoming}
  /\ IF HasRecord(Upcoming) THEN UNCHANGED <<stored, tail>> ELSE Written(Upcoming)
  /\ UNCHANGED <<today, published, pulled, windows, last, dead>>

\* A death inside the write leaves a part of a line, or the line less its newline.
Die ==
  /\ seeding \notin {NoRow, {}} /\ dead < MaxDeaths
  /\ ~HasRecord(Upcoming)
  /\ tail' \in IF tail = NoRow THEN {Part, Upcoming} ELSE {Part}
  /\ seeding' = NoRow /\ last' = NoRow /\ dead' = dead + 1
  /\ UNCHANGED <<today, published, pulled, stored, windows>>

Seeded ==
  /\ seeding = {} /\ seeding' = NoRow
  /\ UNCHANGED <<today, published, pulled, stored, tail, windows, last, dead>>

RankNext == NextDay \/ Pull \/ cmd_iv_seed \/ Record \/ Die \/ Seeded

RankSpec == RankInit /\ [][RankNext]_volatility

-----------------------------------------------------------------------------
(* The rule.  The research reads any expression; the agent takes one or    *)
(* more comparisons joined by and, and stands aside from a number it has   *)
(* not.                                                                    *)

Entry(form, clauses) == [form |-> form, clauses |-> clauses]

Threshold == 50
Clauses == {"<", "<=", ">", ">="}

Rules == {Entry(form, clauses) : form \in {"and", "or", "not"},
                                 clauses \in UNION {kSubset(k, Clauses) : k \in 1 .. 2}}

Holds(op, value) ==
  CASE op = "<"  -> value < Threshold
    [] op = "<=" -> value <= Threshold
    [] op = ">"  -> value > Threshold
    [] op = ">=" -> value >= Threshold

Compare(op, value) == value # None /\ Holds(op, value)

evaluate(entry, value) ==
  CASE entry.form = "and" -> \A op \in entry.clauses : Compare(op, value)
    [] entry.form = "or"  -> \E op \in entry.clauses : Compare(op, value)
    [] entry.form = "not" -> ~ \A op \in entry.clauses : Compare(op, value)

Taken(entry) == entry.form = "and"

decide(entry, value) == value # None /\ \A op \in entry.clauses : Holds(op, value)

-----------------------------------------------------------------------------
(* One window was ever topped up from, the last top-up of it was whole,    *)
(* and the last row says all it can.  Only then are the numbers one: later *)
(* top-ups leave the older lines in, and the file outgrows the year.       *)

Fresh ==
  /\ last # NoRow /\ last.whole /\ seeding = NoRow /\ Entries # {}
  /\ Cardinality(windows) = 1 /\ last.of = Max(Dated) /\ Latest = last.of /\ Answers(Latest)

(***************************************************************************)
(* The agent's rank is the research's, whenever the agent has one: so a    *)
(* rule fires on a number the research would have had on that day, and an  *)
(* entry the agent takes fires there only if it fires in the research.     *)
(***************************************************************************)
RankIsTheResearchedOne ==
  Fresh /\ LiveRank(today) # None =>
     /\ LiveRank(today) = ResearchRank(today)
     /\ \A entry \in Rules : Taken(entry) /\ decide(entry, LiveRank(today))
                              => evaluate(entry, ResearchRank(today))

(***************************************************************************)
(* Whatever died before, a top-up that ran to its end left every row of    *)
(* its window in the file, but for the two that a tail without a newline   *)
(* costs; and the next top-up brings those back.                           *)
(***************************************************************************)
SeedsAreKept ==
  seeding = NoRow /\ last # NoRow =>
     LET lost == {d \in Max({1, last.of - YearDays}) .. last.of : Said(d)} \ Entries
     IN  Cardinality(lost) <= IF last.whole THEN 0 ELSE 2

\* An agent's rank is the research's wherever the two can be one, and no death
\* costs the history it is ranked in more than the next top-up brings back.
RanksAreTheResearch == RankIsTheResearchedOne /\ SeedsAreKept
=============================================================================
