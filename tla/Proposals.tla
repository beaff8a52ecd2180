----------------------------- MODULE Proposals -----------------------------
(***************************************************************************)
(* Where the hypotheses of a search come from (agent/proposer.py,          *)
(* agent/option_proposer.py, options/spec.py, dsl/schema.py and            *)
(* dsl/validator.py): a provider asked in turns, each answer checked       *)
(* before a specification is built of it, or the offline library, walked,  *)
(* recombined and mutated.  Deltas are whole thousandths, an expression of *)
(* an equity rule is what it parses to, and an entry of an option rule one *)
(* or two comparisons of a feature with a number.                          *)
(***************************************************************************)
EXTENDS Integers, Sequences, FiniteSets, FiniteSetsExt, SequencesExt

CONSTANTS
  NoNumber,         \* what stands where a number was asked for
  Sessions,         \* the values of the features, a function a session
  OptionAnswers, EquityAnswers,      \* what a model may send back
  OptionLibrary, EquityLibrary,      \* _TEMPLATES
  Frames,           \* the timeframes of the run
  Universe,         \* how many symbols it has
  RepairAttempts,
  MaxIssued         \* bound: proposals of a search

One == 1000
Anchors == [low |-> 50, high |-> 450]
DteBand == 11 .. 66
Buckets == {14, 21, 28, 35, 49, 56}
Rounded(n, tenths, unit) == (n * tenths + unit \div 2) \div unit

OneLeg == {"long_call", "long_put"}
Spreads == {"put_credit_spread", "call_credit_spread", "put_debit_spread",
            "call_debit_spread", "iron_condor"}

NotANumber(value) == value = NoNumber
Number(value, default) == IF NotANumber(value) THEN default ELSE value
OrElse(value, default) == IF value = 0 THEN default ELSE value

(***************************************************************************)
(* The entry of an option rule.                                            *)
(***************************************************************************)
\* form is empty, garbage, number, test, and, or, not.
IsCondition(entry) == entry.form \in {"test", "and", "or", "not"}
Parses(entry) == IsCondition(entry) \/ entry.form = "number"

Compare(left, op, right) ==
  CASE op = ">" -> left > right [] op = ">=" -> left >= right
    [] op = "<" -> left < right [] op = "<=" -> left <= right [] op = "==" -> left = right

Holds(test, session) ==
  IF test.mirrored THEN Compare(test.number, test.op, session[test.feature])
                   ELSE Compare(session[test.feature], test.op, test.number)

Fires(entry, session) ==
  CASE entry.form = "and" -> \A t \in entry.tests : Holds(t, session)
    [] entry.form = "not" -> \A t \in entry.tests : ~Holds(t, session)
    [] OTHER -> \E t \in entry.tests : Holds(t, session)

Operators == {"<", "<=", ">", ">=", "=="}
MirroredOp == [op \in Operators |->
  CASE op = "<" -> ">" [] op = "<=" -> ">=" [] op = ">" -> "<" [] op = ">=" -> "<=" [] op = "==" -> "=="]

Span(feature) == LET values == {s[feature] : s \in Sessions}
                 IN  [low |-> Min(values), high |-> Max(values)]

OpOf(test) == IF test.mirrored THEN MirroredOp[test.op] ELSE test.op

UnreachableThresholds(entry) ==
  {t \in entry.tests :
     \/ OpOf(t) \in {">", ">="} /\ t.number > Span(t.feature).high
     \/ OpOf(t) \in {"<", "<="} /\ t.number < Span(t.feature).low}

(***************************************************************************)
(* An option proposal: what is said against it, and what is built of it.   *)
(***************************************************************************)
AnchorProblems(f) ==
  IF NotANumber(f.anchor) \/ f.anchor \notin 1 .. One - 1 THEN {"anchor"} ELSE {}

WidthProblems(f) ==
  IF \/ NotANumber(f.width)
     \/ f.kind \in OneLeg /\ f.width # 0
     \/ f.kind \in Spreads /\ (f.width <= 0 \/ (~NotANumber(f.anchor) /\ f.width >= f.anchor))
  THEN {"width"} ELSE {}

CallProblems(f) ==
  LET anchor == Number(f.callAnchor, 0)
      width == Number(f.callWidth, 0)
  IN  IF \/ NotANumber(f.callAnchor) \/ NotANumber(f.callWidth)
         \/ f.kind # "iron_condor" /\ (anchor # 0 \/ width # 0)
         \/ anchor < 0 \/ width < 0
         \/ anchor # 0 /\ width # 0 /\ width >= anchor
      THEN {"call side"} ELSE {}

EntryProblems(f) ==
  IF ~IsCondition(f.entry) THEN {"entry"}
  ELSE IF UnreachableThresholds(f.entry) # {} THEN {"threshold"} ELSE {}

CheckOptionProposal(f) ==
  UNION {IF f.named /\ f.argued THEN {} ELSE {"text"},
         IF f.kind \in OneLeg \union Spreads THEN {} ELSE {"kind"},
         IF NotANumber(f.dte) \/ f.dte \notin DteBand THEN {"dte"} ELSE {},
         IF NotANumber(f.cadence) \/ f.cadence < 1 THEN {"cadence"} ELSE {},
         AnchorProblems(f), WidthProblems(f), CallProblems(f), EntryProblems(f)}

IsAnchor(delta) == 0 < delta /\ delta < One

StructureStands(kind, anchor, width, callAnchor, callWidth) ==
  /\ IsAnchor(anchor)
  /\ callAnchor # 0 => IsAnchor(callAnchor)
  /\ kind \in Spreads <=> width # 0
  /\ width # 0 => width > 0 /\ width < anchor
  /\ kind # "iron_condor" => callAnchor = 0 /\ callWidth = 0

OptionSpec(f) ==
  [f EXCEPT !.argued = TRUE, !.anchor = Number(@, 160), !.width = Number(@, 0),
            !.callAnchor = Number(@, 0), !.callWidth = Number(@, 0),
            !.dte = OrElse(@, 28), !.cadence = OrElse(@, 5)]

BuildsOption(f) ==
  /\ f.named /\ Parses(f.entry)
  /\ ~NotANumber(f.dte) /\ ~NotANumber(f.cadence)
  /\ LET s == OptionSpec(f)
     IN  /\ s.dte >= 1 /\ s.cadence >= 1
         /\ StructureStands(s.kind, s.anchor, s.width, s.callAnchor, s.callWidth)

(***************************************************************************)
(* An equity proposal.  An expression is blank, a condition, a number, or  *)
(* garbage that does not parse.                                            *)
(***************************************************************************)
Directions == {"long", "short", "market_neutral"}
KnownFrames == {"1D", "1h", "4h"}

FormProblems(f) ==
  IF f.mode = "portfolio"
  THEN IF f.rankBy # "blank" /\ f.entry = "blank" /\ ~NotANumber(f.hold) /\ f.hold >= 1
       THEN {} ELSE {"form"}
  ELSE IF f.entry # "blank" /\ f.rankBy = "blank" /\ f.screen = "blank" THEN {} ELSE {"form"}

CheckProposal(f) ==
  IF f.mode \notin {"signal", "portfolio"} THEN {"mode"}
  ELSE UNION {
         IF f.named /\ f.argued THEN {} ELSE {"text"},
         FormProblems(f),
         IF f.direction \in Directions THEN {} ELSE {"direction"},
         IF f.direction = "market_neutral" /\ f.shortEntry = "blank" THEN {"short leg"} ELSE {},
         IF f.timeframe \in KnownFrames \union {"blank"} THEN {} ELSE {"timeframe"},
         IF \E v \in {f.stop, f.profit, f.holding} : NotANumber(v) THEN {"number"} ELSE {},
         IF \E e \in {f.entry, f.regime, f.signalExit, f.shortEntry, f.screen} :
              e \in {"number", "garbage"} THEN {"expression"} ELSE {},
         IF f.rankBy \in {"condition", "garbage"} THEN {"ranking"} ELSE {}}

\* hold is the hypothesis and the universe the run: the lesser of the two; the
\* short leg is kept of a market-neutral rule only.
StrategySpec(f) ==
  IF f.mode = "portfolio"
  THEN [f EXCEPT !.direction = "long", !.entry = "blank", !.shortEntry = "blank", !.signalExit = "blank",
                 !.hold = Max({1, Min({OrElse(@, 10), Universe})})]
  ELSE [f EXCEPT !.mode = "signal", !.rankBy = "blank", !.screen = "blank",
                 !.shortEntry = IF f.direction = "market_neutral" THEN @ ELSE "blank",
                 !.stop = OrElse(@, 200), !.profit = Max({0, @}), !.holding = OrElse(@, 20)]

Allowed(timeframe) == timeframe \in Frames \union {"blank"}

\* validate(): what must be a condition is one.
Validates(s) ==
  /\ s.direction \in Directions
  /\ IF s.mode = "portfolio"
     THEN s.rankBy = "number" /\ s.screen \in {"blank", "condition"}
     ELSE s.entry = "condition"
  /\ s.regime \in {"blank", "condition"} /\ s.signalExit \in {"blank", "condition"}

BuildsEquity(f) ==
  /\ f.named /\ Allowed(f.timeframe)
  /\ ~NotANumber(f.profit)
  /\ IF f.mode = "portfolio" THEN ~NotANumber(f.hold)
     ELSE ~NotANumber(f.stop) /\ ~NotANumber(f.holding)
  /\ LET s == StrategySpec(f)
     IN  /\ Validates(s)
         /\ s.mode = "signal" => s.stop > 0 /\ s.holding >= 1
         /\ s.direction = "market_neutral" => s.shortEntry \in {"condition", "number"}

\* What is told of a rule to the search: its short leg is not, and a ranked
\* book has no exits.
SpecToProposalFields(s) ==
  IF s.mode = "portfolio" THEN [s EXCEPT !.stop = 0, !.profit = 0, !.holding = 0]
  ELSE [s EXCEPT !.shortEntry = "blank"]

(***************************************************************************)
(* The offline libraries.                                                  *)
(***************************************************************************)
Unconditional == [form |-> "test", tests |-> {[feature |-> "close", op |-> ">", number |-> 0, mirrored |-> FALSE]}]

Complete(t) == IF t.entry.form = "empty" THEN [t EXCEPT !.entry = Unconditional] ELSE t

\* The name and the hypothesis are no part of a rule.
Signature(f) == <<f.entry, f.kind, f.dte, f.anchor, f.width, f.callAnchor, f.callWidth, f.cadence>>

Recombined(left, right) == [Complete(right) EXCEPT !.entry = left.entry]

Pairs(known) ==
  {p \in (DOMAIN OptionLibrary) \X (DOMAIN OptionLibrary) :
     /\ OptionLibrary[p[1]].entry.form # "empty"
     /\ Signature(Recombined(OptionLibrary[p[1]], OptionLibrary[p[2]])) \notin known}

\* One knob is moved; the wing goes with its anchor.
AnchorMoved(f, anchor) ==
  [f EXCEPT !.anchor = anchor, !.width = IF @ = 0 THEN 0 ELSE Rounded(anchor, 375, 1000)]

OptionMutations(f) ==
  {[f EXCEPT !.dte = d] : d \in {b \in Buckets : b - f.dte >= 7 \/ f.dte - b >= 7}}
    \union {AnchorMoved(f, Min({Anchors.high, Max({Anchors.low, Rounded(f.anchor, k, 100)})})) :
              k \in {70, 85, 120, 150}}
    \union {[f EXCEPT !.cadence = Max({1, Rounded(f.cadence, k, 10)})] : k \in {5, 20, 30}}

Scaled(v, k) == Rounded(v, k, 100)

EquityMutations(f) ==
  UNION {{IF knob = "holding" /\ f.holding > 0 THEN [f EXCEPT !.holding = Scaled(@, k)]
          ELSE IF knob = "profit" /\ f.profit > 0 THEN [f EXCEPT !.profit = Scaled(@, k)]
          ELSE [f EXCEPT !.stop = Scaled(OrElse(@, 200), k)] :
            k \in {75, 85, 115, 130}} : knob \in {"stop", "profit", "holding"}}

(***************************************************************************)
(* What an answer and a template may be: of the shape the schema asks for, *)
(* with a number or none where one was asked for. An expression that names *)
(* what no session has does not parse; any other word is "other".         *)
(***************************************************************************)
Numbers == Int \union {NoNumber}
Features == DOMAIN (CHOOSE s \in Sessions : TRUE)
EntryType ==
  [form : {"empty", "garbage", "number", "test", "and", "or", "not"},
   tests : SUBSET [feature : Features, op : Operators, number : Int, mirrored : BOOLEAN]]
OptionType ==
  [named : BOOLEAN, argued : BOOLEAN, kind : STRING, dte : Numbers, anchor : Numbers, width : Numbers,
   callAnchor : Numbers, callWidth : Numbers, cadence : Numbers, entry : EntryType]
Expressions == {"blank", "condition", "number", "garbage"}
EquityType ==
  [named : BOOLEAN, argued : BOOLEAN, mode : {"signal", "portfolio", "other"},
   direction : Directions \union {"other"}, entry : Expressions,
   shortEntry : Expressions, rankBy : Expressions, screen : Expressions, regime : Expressions,
   signalExit : Expressions, hold : Numbers, timeframe : STRING, stop : Numbers, profit : Numbers,
   holding : Numbers]

ASSUME SearchAssumption ==
  /\ NoNumber \notin Int /\ Universe \in Int /\ {MaxIssued, RepairAttempts} \subseteq Nat
  /\ IsFiniteSet(Sessions) /\ Sessions # {} /\ Sessions \subseteq [Features -> Int] /\ "close" \in Features
  /\ OptionAnswers \subseteq OptionType /\ EquityAnswers \subseteq EquityType
  /\ \A f \in OptionAnswers :
       f.entry.form = "test" => \E t \in f.entry.tests : f.entry.tests = {t}
  /\ OptionLibrary \in Seq(OptionType) /\ EquityLibrary \in Seq(EquityType)
  /\ \A i, j \in DOMAIN OptionLibrary :
       Signature(Complete(OptionLibrary[i])) = Signature(Complete(OptionLibrary[j])) => i = j

(***************************************************************************)
(* The state machine: one search, of one family and one source.            *)
(***************************************************************************)
VARIABLES
  family, source,
  used, seen,     \* the templates walked, the signatures offered
  lineage,        \* the versions given of each name
  turn, answer,   \* the attempt a question is at, -1 when none is asked, the
                  \* answer the retry is of
  about,          \* and the proposal to be repaired, 0 when none is
  issued          \* what came out, oldest first: the proposal, how it was
                  \* made, its name and version, and what it is a variant of

asking == <<turn, answer, about>>
searchVars == <<family, source, used, seen, lineage, asking, issued>>

Builds(f) == IF family = "option" THEN BuildsOption(f) ELSE BuildsEquity(f)
Check(f) == IF family = "option" THEN CheckOptionProposal(f) ELSE CheckProposal(f)
Answers == IF family = "option" THEN OptionAnswers ELSE EquityAnswers
Library == IF family = "option" THEN OptionLibrary ELSE EquityLibrary

Proposal(fields, how, base, version, parent) ==
  [fields |-> fields, how |-> how, base |-> base, version |-> version, parent |-> parent]

\* The rules a search may choose a parent from, as the proposer is told of them.
Parents == {i \in DOMAIN issued : Builds(issued[i].fields)}
Told(i) == IF family = "option" THEN OptionSpec(issued[i].fields)
           ELSE SpecToProposalFields(StrategySpec(issued[i].fields))

Signatures == {Signature(Complete(t)) : t \in ToSet(OptionLibrary)}

\* The registry may remember a rule of an earlier search.
SearchInit ==
  /\ family \in {"option", "equity"} /\ source \in {"library", "compat", "anthropic"}
  /\ used = {} /\ lineage = <<>> /\ turn = -1 /\ answer = NoNumber /\ about = 0
  /\ seen = IF family = "option" THEN Signatures ELSE {}
  /\ issued \in {<<>>} \union
       {<<Proposal(f, "remembered", <<>>, 1, 0)>> : f \in {a \in Answers : source = "library" /\ Builds(a)}}

Issue(proposal) == Len(issued) < MaxIssued /\ issued' = Append(issued, proposal)

\* Phase one: the library in its order, each template once.
Walk ==
  /\ source = "library" /\ used # DOMAIN Library
  /\ LET i == Min(DOMAIN Library \ used)
     IN  /\ used' = used \union {i}
         /\ Issue(Proposal(IF family = "option" THEN Complete(Library[i]) ELSE Library[i],
                           "template", <<i>>, 1, 0))
  /\ UNCHANGED <<family, source, seen, lineage, asking>>

\* Then a condition of one under the structure of another, until there is none
\* left, and the exhausted library raises; or a regime of one over another of
\* its direction, again and again.
Recombine ==
  /\ source = "library" /\ used = DOMAIN Library
  /\ IF family = "option"
     THEN \E p \in Pairs(seen) :
            LET f == Recombined(Library[p[1]], Library[p[2]]) IN
            /\ Issue(Proposal(f, "recombined", p, 1, 0))
            /\ seen' = seen \union {Signature(f)}
     ELSE /\ \E p \in (DOMAIN Library) \X (DOMAIN Library) :
               LET l == Library[p[1]]
                   r == Library[p[2]]
               IN  /\ p[1] # p[2] /\ l.direction = r.direction
                   /\ Issue(Proposal([r EXCEPT !.regime = l.regime], "recombined", p, 1, 0))
          /\ UNCHANGED seen
  /\ UNCHANGED <<family, source, used, lineage, asking>>

NextVersion(base) == (IF base \in DOMAIN lineage THEN lineage[base] ELSE 1) + 1

Mutate ==
  /\ source = "library"
  /\ \E i \in Parents :
       LET base == issued[i].base IN
       /\ \E f \in IF family = "option" THEN OptionMutations(Told(i)) ELSE EquityMutations(Told(i)) :
            Issue(Proposal(f, "mutation", base, NextVersion(base), i))
       /\ lineage' = [b \in DOMAIN lineage \union {base} |->
                        IF b = base THEN NextVersion(base) ELSE lineage[b]]
  /\ UNCHANGED <<family, source, used, seen, asking>>

\* A question, or one more about a rule that was built and opened nothing.
Ask ==
  /\ source # "library" /\ turn = -1 /\ Len(issued) < MaxIssued
  /\ turn' = 0 /\ about' \in {0} \union Parents
  /\ UNCHANGED <<family, source, used, seen, lineage, answer, issued>>

\* How often it is asked again with what was wrong.  The shape of an answer is
\* all the schema of the one provider holds; an option answer gets one retry.
Attempts ==
  IF source = "compat" THEN (IF about = 0 THEN RepairAttempts ELSE 0)
  ELSE IF family = "option" THEN 1 ELSE 0

\* Mutant: the answer to the last attempt stands, whoever gave it.
StandsAtLast(f) == Check(f) = {} \/ turn = Attempts
Stands(f) == Check(f) = {} \/ (source = "anthropic" /\ turn = Attempts)

Done == turn' = -1 /\ answer' = NoNumber /\ about' = 0

Answered ==
  /\ turn >= 0
  /\ \E f \in Answers :
       IF Stands(f)
       THEN Done /\ Issue(Proposal(f, "answer", <<>>, 1, about))
       ELSE /\ UNCHANGED issued
            /\ IF turn < Attempts THEN turn' = turn + 1 /\ answer' = f /\ UNCHANGED about ELSE Done
  /\ UNCHANGED <<family, source, used, seen, lineage>>

\* A reply that does not parse, or a refusal: the checking provider asks again
\* or raises, the other raises, or lets the answer it was retrying stand.
Garbled ==
  /\ turn >= 0
  /\ IF source = "compat"
     THEN /\ UNCHANGED issued
          /\ IF turn < Attempts THEN turn' = turn + 1 /\ UNCHANGED <<answer, about>> ELSE Done
     ELSE /\ Done
          /\ IF turn = 0 THEN UNCHANGED issued ELSE Issue(Proposal(answer, "answer", <<>>, 1, about))
  /\ UNCHANGED <<family, source, used, seen, lineage>>

SearchNext == Walk \/ Recombine \/ Mutate \/ Ask \/ Answered \/ Garbled
SearchSpec == SearchInit /\ [][SearchNext]_searchVars

(***************************************************************************)
(* Properties.                                                             *)
(***************************************************************************)
\* What a checking provider hands over is built, unless a number the check
\* takes for any is out of its range, or the run has no such timeframe.
OutOfRange(f) ==
  IF family = "option" THEN f.callAnchor >= One
  ELSE f.stop < 0 \/ f.holding < 0 \/ ~Allowed(f.timeframe)

CheckedIsBuilt ==
  \A i \in DOMAIN issued :
    source = "compat" => Builds(issued[i].fields) \/ OutOfRange(issued[i].fields)

\* No rule the library offers is one it offered before.
LibraryNeverRepeats ==
  family = "option" =>
    \A i, j \in DOMAIN issued :
      i < j /\ {issued[i].how, issued[j].how} \subseteq {"template", "recombined"}
        => Signature(issued[i].fields) # Signature(issued[j].fields)

\* A mutation differs from what was told of its parent by one knob at most, has a
\* name of its own, and is built (but for a rule of two legs, of which one is
\* not told).
Knobs(f) ==
  IF family = "option" THEN <<f.dte, f.anchor, f.cadence>> ELSE <<f.stop, f.profit, f.holding>>

MutationsAreVariants ==
  \A i \in {k \in DOMAIN issued : issued[k].how = "mutation"} :
    LET m == issued[i]
        parent == Told(m.parent)
    IN  /\ Builds(m.fields) \/ (family = "equity" /\ parent.direction = "market_neutral")
        /\ Cardinality({k \in 1 .. 3 : Knobs(m.fields)[k] # Knobs(parent)[k]}) <= 1
        /\ \A j \in DOMAIN issued : issued[j].base = m.base /\ issued[j].version = m.version => i = j

\* What is called unreachable is: no session fires a comparison, or both of two,
\* that was complained of.  (Of an or, or of a not, it may fire all the same.)
ComplaintsAreTrue ==
  \A f \in OptionAnswers :
    f.entry.form \in {"test", "and"} /\ UnreachableThresholds(f.entry) # {} =>
      ~\E s \in Sessions : Fires(f.entry, s)

(***************************************************************************)
(* What a search is offered can be run: an answer that was checked builds, *)
(* the library never spends a slot on a rule it offered, a variant differs *)
(* from its parent by one knob, and no rule is sent back for a threshold   *)
(* its sessions reach (agent/option_proposer.py, agent/proposer.py).       *)
(***************************************************************************)
ProposalsAreSound ==
  /\ CheckedIsBuilt
  /\ LibraryNeverRepeats
  /\ MutationsAreVariants
  /\ ComplaintsAreTrue
=============================================================================
