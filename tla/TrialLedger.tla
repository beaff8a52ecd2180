---------------------------- MODULE TrialLedger -----------------------------
(***************************************************************************)
(* The research ledger, registry/db.py: the tables of strategies, of       *)
(* experiments, of declarations and of handed-off books, and the queries   *)
(* the commands decide by.  A rule is its fingerprint.  The tables only    *)
(* ever hold rows the code writes, so a table is a set: no query modelled  *)
(* here tells two equal rows apart.                                        *)
(***************************************************************************)
EXTENDS Integers, FiniteSets

CONSTANTS
  EquityRules, OptionRules,  \* the fingerprints of the two search programs
  NoRule,                    \* "n/a": what a proposal that did not compile is filed under
  Runs, NoRun,               \* run_id of every process that may search
  Campaigns, NoCampaign

Rules == EquityRules \union OptionRules

ASSUME LedgerAssumption ==
  /\ EquityRules \intersect OptionRules = {}
  /\ NoRule \notin Rules
  /\ NoCampaign \notin Campaigns
  /\ NoRun \notin Runs
  /\ IsFiniteSet(Rules)

Families == {"equity", "option"}
Family(r) == IF r \in OptionRules THEN "option" ELSE "equity"

Unregistered == "unregistered"
Statuses == {"CANDIDATE", "ACTIVE", "PAPER", "LIVE", "DEGRADED", "RETIRED", "REJECTED"}

Transitions ==
  [ CANDIDATE |-> {"PAPER", "REJECTED", "ACTIVE"},
    ACTIVE    |-> {"PAPER", "REJECTED", "RETIRED"},
    PAPER     |-> {"LIVE", "DEGRADED", "RETIRED", "REJECTED"},
    LIVE      |-> {"DEGRADED", "RETIRED"},
    DEGRADED  |-> {"PAPER", "RETIRED", "LIVE"},
    RETIRED   |-> {},
    REJECTED  |-> {} ]

Terminal == {s \in Statuses : Transitions[s] = {}}

\* ACCEPT moves a rule as PAPER does and is not told apart from it.
Verdicts == {"PAPER", "REVIEW", "REJECT"}

\* What a row says of the process that wrote it: its certificate, or nothing.
Certificates == {"none", "clean", "tainted"}

\* by is the run its certificate names.  No query modelled reads the verdict of
\* a row, nor what its backtests measured.  exposed is history: whether the
\* process that wrote the row had read reserved rows by then.
Row == [rule : Rules \union {NoRule}, family : Families, campaign : Campaigns \union {NoCampaign},
        certificate : Certificates, by : Runs \union {NoRun}, exposed : BOOLEAN]

\* sealed_run_at and sealed_result.  again is history: an earlier result was
\* written over.
Unspent == [spent |-> FALSE]
SealedResult == [spent : {TRUE}, at : Nat, looks : Nat, refuted : BOOLEAN, again : BOOLEAN]

VARIABLES
  status,       \* strategies.status, or Unregistered
  sealed,       \* strategies.sealed_run_at and sealed_result
  experiments,  \* the experiments table
  declared,     \* the preregistration table
  books         \* the target_books table, as the rules handed off

ledger == <<status, sealed, experiments, declared, books>>

LedgerTypeOK ==
  /\ status \in [Rules -> Statuses \union {Unregistered}]
  /\ sealed \in [Rules -> SealedResult \union {Unspent}]
  /\ experiments \subseteq Row
  /\ declared \subseteq Rules
  /\ books \subseteq Rules

LedgerInit ==
  /\ status = [r \in Rules |-> Unregistered]
  /\ sealed = [r \in Rules |-> Unspent]
  /\ experiments = {}
  /\ declared = {}
  /\ books = {}

-----------------------------------------------------------------------------
(* The queries.                                                            *)

Registered(r) == status[r] # Unregistered

\* has_tried.
HasTried(r) == \E x \in experiments : x.rule = r

\* The rows a count is over; "any" is the argument left out.
Scope(family, campaign) ==
  {x \in experiments : family \in {"any", x.family} /\ campaign \in {"any", x.campaign}}

\* distinct_hypotheses.
DistinctHypotheses(family, campaign) ==
  Cardinality({x.rule : x \in Scope(family, campaign)})

\* ancestry_taint: the rule's own rows, and every row of the runs they name.
Ancestry(r) ==
  LET own == {x \in experiments : x.rule = r}
      runs == {x.by : x \in {y \in own : y.certificate # "none"}}
  IN  own \union {x \in experiments : x.certificate # "none" /\ x.by \in runs}

Tainted(r) == \E x \in Ancestry(r) : x.certificate = "tainted"

\* TaintReport.unrecorded: not clean, unknown.
Unrecorded(r) == \E x \in Ancestry(r) : x.certificate = "none"

SpentRules(family) == {r \in Rules : sealed[r].spent /\ family \in {"any", Family(r)}}

\* sealed_looks.
SealedLooks(family) == Cardinality(SpentRules(family))

\* sealed_look: the ordinal of a spent seal in its own family.
SealedLook(r) ==
  Cardinality({q \in SpentRules(Family(r)) : sealed[q].at <= sealed[r].at})

-----------------------------------------------------------------------------
(* The writes.  Each is one commit.                                        *)

\* upsert_strategy, upsert_option_strategy: a known rule keeps its status.
Upsert(r) ==
  status' = IF Registered(r) THEN status ELSE [status EXCEPT ![r] = "CANDIDATE"]

\* record_experiment.
RecordExperiment(x) == experiments' = experiments \union {x}

\* preregister.
Declare(r) ==
  /\ Registered(r)
  /\ ~sealed[r].spent
  /\ r \notin declared
  /\ declared' = declared \union {r}

\* Mutant: a spent seal is spent again.
DeclaredIsEnough(r) == r \in declared

\* The refusals of record_sealed_run.
MaySpend(r) == r \in declared /\ ~sealed[r].spent

\* The update of record_sealed_run: it does not look again.
Spend(r, result) == sealed' = [sealed EXCEPT ![r] = result]

\* record_target_book.
RecordBook(r) == books' = books \union {r}
=============================================================================
