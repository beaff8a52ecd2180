---------------------------- MODULE ResearchLoop ----------------------------
(***************************************************************************)
(* The commands that write the research ledger, each a process of its own  *)
(* with a seal of its own: research, option-research and evaluate (cli.py, *)
(* agent/research.py, agent/option_research.py, pipeline.py,               *)
(* option_pipeline.py), preregister, the sealed runs (cli_sealed.py), the  *)
(* hand-offs target-book and option-book, and promote.  What a backtest    *)
(* computes is a choice; a step is what one process does between two       *)
(* commits, and what it checks before a commit is a step before it: the    *)
(* registry holds no lock from a check to the write it is for.             *)
(***************************************************************************)
EXTENDS TrialLedger

CONSTANTS
  Procs,
  SearchBudget,   \* OPTION_SEARCH_BUDGET
  PromoteTo,      \* the statuses a person types after promote
  Does,           \* bound: the commands a process is ever started as
  MaxRows,        \* bound: rows of the experiments table
  MaxDecided      \* bound: rules declared and rules whose status was moved

Searches == {"research", "option-research", "evaluate"}
SealedCommands == {"run", "option-run"}
Commands == Searches \union SealedCommands \union {"preregister", "hand-off", "promote"}

ASSUME ResearchAssumption ==
  /\ SearchBudget \in Nat
  /\ PromoteTo \subseteq Statuses
  /\ MaxRows \in Nat
  /\ MaxDecided \in Nat
  /\ Does \in [Procs -> SUBSET Commands]

\* A sealed run from its checks to its write.
Sealing == {"cleared", "counted", "spending"}

\* The local state of a command.  from is the status set_status read, unrecorded
\* what the taint report said.  History: trials is the count a verdict was
\* deflated by, 0 when another process has committed since; overtaken is how far
\* a sealed run was when another process last committed a row or a result.
Job == [cmd : Commands \union {"none"}, run : Runs \union {NoRun}, exposed : BOOLEAN,
        campaign : Campaigns \union {NoCampaign}, rule : Rules \union {NoRule},
        repaired : BOOLEAN, dead : BOOLEAN, verdict : Verdicts,
        trials : Nat, looks : Nat, refuted : BOOLEAN, unrecorded : BOOLEAN,
        overtaken : Sealing \union {"no"}, from : Statuses, target : Statuses]

NoJob == [cmd |-> "none", run |-> NoRun, exposed |-> FALSE, campaign |-> NoCampaign,
          rule |-> NoRule, repaired |-> FALSE, dead |-> FALSE, verdict |-> "REVIEW",
          trials |-> 0, looks |-> 0, refuted |-> FALSE, unrecorded |-> FALSE,
          overtaken |-> "no", from |-> "CANDIDATE", target |-> "CANDIDATE"]

Stages == {"idle", "proposing", "proposed", "running", "judged", "recorded", "moving",
           "declaring", "cleared", "counted", "spending", "building"}

VARIABLES
  stage, job,  \* where each process is, and its local state
  used         \* the runs started

vars == <<ledger, stage, job, used>>

Init ==
  /\ LedgerInit
  /\ stage = [p \in Procs |-> "idle"]
  /\ job = [p \in Procs |-> NoJob]
  /\ used = {}

-----------------------------------------------------------------------------
(* Steps.                                                                  *)

Goto(p, s, j) ==
  /\ stage' = [stage EXCEPT ![p] = s]
  /\ job' = [job EXCEPT ![p] = j]

Stop(p) == Goto(p, "idle", NoJob)

\* The next iteration of a search; evaluate has only one.
Rest(j) == IF j.cmd \in {"research", "option-research"}
           THEN [NoJob EXCEPT !.cmd = j.cmd, !.run = j.run, !.exposed = j.exposed,
                              !.campaign = j.campaign]
           ELSE NoJob

Then(j) == IF j.cmd \in {"research", "option-research"} THEN "proposing" ELSE "idle"

\* A commit makes stale what another process at s has counted or looked at.
Stale(s, j) == [j EXCEPT !.trials = 0, !.overtaken = IF s \in Sealing THEN s ELSE @]

GotoCommitted(p, s, j) ==
  /\ stage' = [stage EXCEPT ![p] = s]
  /\ job' = [q \in Procs |-> IF q = p THEN j ELSE Stale(stage[q], job[q])]

Room == Cardinality(experiments) < MaxRows

Moved == {r \in Rules : status[r] \notin {Unregistered, "CANDIDATE"}}

RoomToDeclare == Cardinality(declared) + Cardinality(Moved) < MaxDecided

RoomToMove(r) == Cardinality(declared) + Cardinality(Moved \ {r}) < MaxDecided

FamilyOf(j) == IF j.cmd = "option-research" THEN "option" ELSE "equity"

RulesOf(cmd) == IF cmd = "option-research" THEN OptionRules ELSE EquityRules

\* _record_failure and _record_dead_attempt pass no seal.
Uncertified(j, rule) ==
  [rule |-> rule, family |-> FamilyOf(j), campaign |-> j.campaign,
   certificate |-> "none", by |-> NoRun, exposed |-> j.exposed]

\* Mutant: the certificate is not the seal's.
CertificateOfFaith(j) == "clean"

\* current_seal().certificate(), read as the row is written.
Certificate(j) == IF j.exposed THEN "tainted" ELSE "clean"

Certified(j) ==
  [rule |-> j.rule, family |-> FamilyOf(j), campaign |-> j.campaign,
   certificate |-> Certificate(j), by |-> j.run, exposed |-> j.exposed]

-----------------------------------------------------------------------------
(* The searches.                                                           *)

\* A search is a run of its own; it loads its data once, and has then read
\* reserved rows or not.
NewJob(cmd, run, read, campaign) ==
  [NoJob EXCEPT !.cmd = cmd, !.run = run, !.exposed = read, !.campaign = campaign]

StartResearch(p) ==
  /\ stage[p] = "idle" /\ "research" \in Does[p]
  /\ \E run \in Runs \ used, read \in BOOLEAN :
       /\ Goto(p, "proposing", NewJob("research", run, read, NoCampaign))
       /\ used' = used \union {run}
  /\ UNCHANGED ledger

StartOptionResearch(p) ==
  /\ stage[p] = "idle" /\ "option-research" \in Does[p]
  /\ \E run \in Runs \ used, read \in BOOLEAN, campaign \in Campaigns :
       /\ Goto(p, "proposing", NewJob("option-research", run, read, campaign))
       /\ used' = used \union {run}
  /\ UNCHANGED ledger

\* evaluate goes straight to its one rule, tried before or not.
StartEvaluate(p) ==
  /\ stage[p] = "idle" /\ "evaluate" \in Does[p]
  /\ \E run \in Runs \ used, read \in BOOLEAN, r \in EquityRules :
       /\ Goto(p, "running", [NewJob("evaluate", run, read, NoCampaign) EXCEPT !.rule = r])
       /\ used' = used \union {run}
  /\ UNCHANGED ledger

\* The ceiling of an option campaign, looked at before each iteration.
WithinBudget(j) ==
  j.cmd = "option-research" => DistinctHypotheses("option", j.campaign) < SearchBudget

\* propose raises, or what it returned does not compile.
ProposalFails(p) ==
  /\ stage[p] = "proposing" /\ WithinBudget(job[p]) /\ Room
  /\ RecordExperiment(Uncertified(job[p], NoRule))
  /\ GotoCommitted(p, "proposing", job[p])
  /\ UNCHANGED <<status, sealed, declared, books, used>>

Propose(p) ==
  /\ stage[p] = "proposing" /\ WithinBudget(job[p])
  /\ \E r \in RulesOf(job[p].cmd) :
       Goto(p, "proposed", [job[p] EXCEPT !.rule = r])
  /\ UNCHANGED <<ledger, used>>

\* _repair_dead_rule and _record_dead_attempt: the rule cannot fire; it is
\* filed and another takes its place, once.
RepairDeadRule(p) ==
  LET j == job[p] IN
  /\ stage[p] = "proposed" /\ j.cmd = "research" /\ ~j.repaired /\ Room
  /\ Upsert(j.rule)
  /\ RecordExperiment(Uncertified(j, j.rule))
  /\ \E r \in EquityRules \ {j.rule} :
       GotoCommitted(p, "proposed", [j EXCEPT !.rule = r, !.repaired = TRUE])
  /\ UNCHANGED <<sealed, declared, books, used>>

\* The equity loop files a rule tried before as an error, on its fingerprint.
SkipDuplicate(p) ==
  LET j == job[p] IN
  /\ stage[p] = "proposed" /\ j.cmd = "research" /\ HasTried(j.rule) /\ Room
  /\ RecordExperiment(Uncertified(j, j.rule))
  /\ GotoCommitted(p, "proposing", Rest(j))
  /\ UNCHANGED <<status, sealed, declared, books, used>>

\* _ask_for_something_new: the option loop asks again, and files nothing when
\* nothing new comes back.
AskAgain(p) ==
  LET j == job[p] IN
  /\ stage[p] = "proposed" /\ j.cmd = "option-research" /\ HasTried(j.rule)
  /\ \/ Goto(p, "proposing", Rest(j))
     \/ \E r \in OptionRules : ~HasTried(r) /\ Goto(p, "running", [j EXCEPT !.rule = r])
  /\ UNCHANGED <<ledger, used>>

RunBacktests(p) ==
  /\ stage[p] = "proposed" /\ ~HasTried(job[p].rule)
  /\ Goto(p, "running", [job[p] EXCEPT !.repaired = FALSE])
  /\ UNCHANGED <<ledger, used>>

\* What the multiple-comparisons count is over: the equity pipeline passes no
\* family, the option pipeline its own and its campaign.
Prior(j) ==
  IF j.cmd = "option-research" THEN DistinctHypotheses("option", j.campaign)
                               ELSE DistinctHypotheses("any", "any")

\* What _repair may send an option rule that never traded back as, once; it
\* is evaluated whether it was tried or not.
Repairs(j) ==
  IF j.cmd = "option-research" /\ ~j.repaired THEN OptionRules \ {j.rule} ELSE {}

\* An early rejection, before anything is counted: no data, the wrong bars, a
\* failed check, no folds; dead when the rule never traded.  The upsert of
\* _record is a commit of its own.
RejectEarly(p) ==
  LET j == job[p] IN
  /\ stage[p] = "running"
  /\ \E dead \in {FALSE, Repairs(j) # {}} : Goto(p, "judged", [j EXCEPT !.verdict = "REJECT", !.dead = dead])
  /\ Upsert(j.rule)
  /\ UNCHANGED <<sealed, experiments, declared, books, used>>

\* The whole gauntlet, to its verdict, and the same upsert.
Judge(p) ==
  LET j == job[p] IN
  /\ stage[p] = "running"
  /\ \E v \in Verdicts :
       Goto(p, "judged", [j EXCEPT !.verdict = v, !.trials = Prior(j) + 1])
  /\ Upsert(j.rule)
  /\ UNCHANGED <<sealed, experiments, declared, books, used>>

TargetOf(verdict) == IF verdict = "REJECT" THEN "REJECTED" ELSE "PAPER"

\* The row.  The status is a later commit; a REVIEW moves nothing.
Record(p) ==
  LET j == job[p] IN
  /\ stage[p] = "judged" /\ Room
  /\ RecordExperiment(Certified(j))
  /\ IF j.verdict = "REVIEW"
     THEN GotoCommitted(p, Then(j), Rest(j))
     ELSE GotoCommitted(p, "recorded",
            [Rest(j) EXCEPT !.cmd = j.cmd, !.rule = j.rule, !.dead = j.dead,
                            !.target = TargetOf(j.verdict)])
  /\ UNCHANGED <<status, sealed, declared, books, used>>

EndSearch(p) ==
  /\ stage[p] = "proposing"
  /\ Stop(p)
  /\ UNCHANGED <<ledger, used>>

-----------------------------------------------------------------------------
(* set_status, of _record and of promote: the status is read and the move  *)
(* looked at, and a transaction of its own writes it.                      *)

StartPromote(p) ==
  /\ stage[p] = "idle" /\ "promote" \in Does[p]
  /\ \E r \in Rules, s \in PromoteTo :
       /\ Registered(r) /\ s \in Transitions[status[r]] /\ RoomToMove(r)
       /\ Goto(p, "moving", [NoJob EXCEPT !.cmd = "promote", !.rule = r, !.from = status[r],
                                          !.target = s])
  /\ UNCHANGED <<ledger, used>>

\* After the status: the next iteration, or the trial of a repaired rule.
Resume(p, j) ==
  \/ Goto(p, Then(j), Rest(j))
  \/ j.dead /\ \E r \in Repairs(j) : Goto(p, "running", [Rest(j) EXCEPT !.rule = r, !.repaired = TRUE])

\* An unknown rule and an illegal move are refused; _record suppresses the refusal.
CheckMove(p) ==
  LET j == job[p] IN
  /\ stage[p] = "recorded"
  /\ IF Registered(j.rule) /\ j.target \in Transitions[status[j.rule]]
     THEN RoomToMove(j.rule) /\ Goto(p, "moving", [j EXCEPT !.from = status[j.rule]])
     ELSE Resume(p, j)
  /\ UNCHANGED <<ledger, used>>

SetStatus(p) ==
  LET j == job[p] IN
  /\ stage[p] = "moving"
  /\ status' = [status EXCEPT ![j.rule] = j.target]
  /\ Resume(p, j)
  /\ UNCHANGED <<sealed, experiments, declared, books, used>>

-----------------------------------------------------------------------------
(* The declaration and the sealed run.                                     *)

StartPreregister(p) ==
  /\ stage[p] = "idle" /\ "preregister" \in Does[p] /\ RoomToDeclare
  /\ \E r \in Rules :
       /\ Registered(r) /\ ~Tainted(r)
       /\ Goto(p, "declaring", [NoJob EXCEPT !.cmd = "preregister", !.rule = r])
  /\ UNCHANGED <<ledger, used>>

Preregister(p) ==
  /\ stage[p] = "declaring" /\ RoomToDeclare
  /\ Declare(job[p].rule)
  /\ Stop(p)
  /\ UNCHANGED <<status, sealed, experiments, books, used>>

\* option-run looks at the family; the loader of run refuses an option spec.
TakenBy(cmd, r) == r \in (IF cmd = "option-run" THEN OptionRules ELSE EquityRules)

\* Declared, unspent, known and untainted, before anything is read; rows without
\* a certificate pass with --allow-unrecorded-ancestry.
StartSealed(p) ==
  /\ stage[p] = "idle"
  /\ \E cmd \in SealedCommands \intersect Does[p], r \in declared :
       /\ TakenBy(cmd, r)
       /\ ~sealed[r].spent /\ Registered(r)
       /\ ~Tainted(r)
       /\ Goto(p, "cleared",
               [NoJob EXCEPT !.cmd = cmd, !.rule = r, !.unrecorded = Unrecorded(r)])
  /\ UNCHANGED <<ledger, used>>

\* Mutant: an option look is counted among the equity ones.
LooksOfEquity(cmd) == IF cmd = "option-run" THEN SealedLooks("equity") ELSE SealedLooks("any")

\* The looks this one adds to: run counts both families.
LooksBefore(cmd) == IF cmd = "option-run" THEN SealedLooks("option") ELSE SealedLooks("any")

\* The process enters the sealed phase, loads the window and counts.
ReadSealed(p) ==
  /\ stage[p] = "cleared"
  /\ Goto(p, "counted", [job[p] EXCEPT !.looks = LooksBefore(job[p].cmd) + 1])
  /\ UNCHANGED <<ledger, used>>

\* The window is measured, and record_sealed_run looks before it writes.
Measure(p) ==
  /\ stage[p] = "counted"
  /\ IF MaySpend(job[p].rule)
     THEN \E refuted \in BOOLEAN : Goto(p, "spending", [job[p] EXCEPT !.refuted = refuted])
     ELSE Stop(p)
  /\ UNCHANGED <<ledger, used>>

RecordSealedRun(p) ==
  LET j == job[p] IN
  /\ stage[p] = "spending"
  /\ Spend(j.rule, [spent |-> TRUE, at |-> SealedLooks("any") + 1, looks |-> j.looks,
                    refuted |-> j.refuted, again |-> sealed[j.rule].spent])
  /\ GotoCommitted(p, "idle", NoJob)
  /\ UNCHANGED <<status, experiments, declared, books, used>>

-----------------------------------------------------------------------------
(* The hand-off.                                                           *)

\* Mutant: a refuted rule is handed off.
SealIsSpent(r) == sealed[r].spent

\* The refusals of target-book and option-book.
MayHandOff(r) == sealed[r].spent /\ ~sealed[r].refuted

StartHandOff(p) ==
  /\ stage[p] = "idle" /\ "hand-off" \in Does[p]
  /\ \E r \in Rules :
       /\ Registered(r) /\ MayHandOff(r)
       /\ Goto(p, "building", [NoJob EXCEPT !.cmd = "hand-off", !.rule = r])
  /\ UNCHANGED <<ledger, used>>

\* The book is built, its file written, and only then its row.
RecordTargetBook(p) ==
  /\ stage[p] = "building"
  /\ Registered(job[p].rule)
  /\ RecordBook(job[p].rule)
  /\ Stop(p)
  /\ UNCHANGED <<status, sealed, experiments, declared, used>>

-----------------------------------------------------------------------------
\* The process is killed, or gives up for a reason left out here: no data, no
\* sealed sessions, a refused build, a raised error.
Abandon(p) ==
  /\ stage[p] # "idle"
  /\ Stop(p)
  /\ UNCHANGED <<ledger, used>>

Step(p) ==
  \/ StartResearch(p) \/ StartOptionResearch(p) \/ StartEvaluate(p)
  \/ ProposalFails(p) \/ Propose(p) \/ RepairDeadRule(p)
  \/ SkipDuplicate(p) \/ AskAgain(p) \/ RunBacktests(p) \/ RejectEarly(p) \/ Judge(p)
  \/ Record(p) \/ EndSearch(p)
  \/ StartPromote(p) \/ CheckMove(p) \/ SetStatus(p)
  \/ StartPreregister(p) \/ Preregister(p)
  \/ StartSealed(p) \/ ReadSealed(p) \/ Measure(p) \/ RecordSealedRun(p)
  \/ StartHandOff(p) \/ RecordTargetBook(p)
  \/ Abandon(p)

Next == \E p \in Procs : Step(p)

Spec == Init /\ [][Next]_vars

-----------------------------------------------------------------------------
(* What the ledger is kept for.                                            *)

TypeOK ==
  /\ LedgerTypeOK
  /\ stage \in [Procs -> Stages]
  /\ job \in [Procs -> Job]
  /\ \A p \in Procs : stage[p] \notin {"idle", "proposing"} => job[p].rule \in Rules
  /\ used \subseteq Runs

(***************************************************************************)
(* A seal spent without --allow-unrecorded-ancestry is spent on a rule no  *)
(* process had tried after reading reserved rows, nor a sibling of one of  *)
(* its trials, as the tables are when it is spent: only a row that another *)
(* process commits after the ancestry was read goes unseen.                *)
(***************************************************************************)
TaintSound ==
  [][ \A p \in Procs :
        RecordSealedRun(p) /\ ~job[p].unrecorded /\ job[p].overtaken = "no" =>
          \A x \in Ancestry(job[p].rule) : ~x.exposed ]_vars

(***************************************************************************)
(* What was decided is not rewritten, but by a process that another one    *)
(* overtook between its check and its write: a sealed result by a run that *)
(* found the seal unspent before another spent it, a terminal status by a  *)
(* move that read the status before it became so.  No trial, declaration   *)
(* or hand-off is ever taken back.                                         *)
(***************************************************************************)
HistoryStands ==
  [][ /\ \A r \in Rules : sealed[r].spent /\ sealed'[r] # sealed[r] =>
           \E p \in Procs : RecordSealedRun(p) /\ job[p].rule = r /\ job[p].overtaken = "spending"
      /\ \A r \in Rules : status[r] \in Terminal /\ status'[r] # status[r] =>
           \E p \in Procs : SetStatus(p) /\ job[p].rule = r /\ job[p].from # status[r]
      /\ experiments \subseteq experiments'
      /\ declared \subseteq declared'
      /\ books \subseteq books' ]_vars

(***************************************************************************)
(* A sealed result is written once ("Exactly once. A second call raises    *)
(* rather than overwriting", record_sealed_run): no run finds a result     *)
(* where it writes its own.                                                *)
(***************************************************************************)
SealIsSpentOnce ==
  [][ \A r \in Rules : sealed[r].spent => sealed'[r] = sealed[r] ]_vars

(***************************************************************************)
(* The two denominators are honest: the trials a verdict was deflated by,  *)
(* and the looks a sealed result was held to, cover everything recorded in *)
(* their own scope, unless another process recorded something after the    *)
(* count was read.                                                         *)
(***************************************************************************)
CountsAreHonest ==
  [][ \A p \in Procs :
        /\ \A c \in Campaigns \union {NoCampaign} :
             Record(p) /\ job[p].trials > 0 /\ job[p].campaign = c =>
               job[p].trials >= IF c = NoCampaign THEN DistinctHypotheses("equity", "any")'
                                                  ELSE DistinctHypotheses("option", c)'
        /\ \A r \in Rules :
             RecordSealedRun(p) /\ job[p].overtaken \in {"no", "cleared"} /\ job[p].rule = r =>
               job[p].looks >= SealedLook(r)' ]_vars

(***************************************************************************)
(* A book is only ever of a rule that was declared, that spent its seal,   *)
(* and that its sealed run did not refute, unless a second run of it,      *)
(* overtaken by the first, wrote over the result since.                    *)
(***************************************************************************)
HandOffsAreEarned ==
  \A r \in books : r \in declared /\ sealed[r].spent /\ (sealed[r].refuted => sealed[r].again)
=============================================================================
