------------------------- MODULE ResearchLoopProofs -------------------------
(***************************************************************************)
(* Theorems about the research ledger, for any rules, runs, campaigns and  *)
(* processes, whatever the order of their steps.                           *)
(*                                                                         *)
(* Inv says what is true of each process at its stage, by what it has read *)
(* so far, and what stays true of it when another process commits.  A      *)
(* clean certificate is never of a process that had read reserved rows, so *)
(* an ancestry with neither an unrecorded nor a tainted row has no exposed *)
(* one, until the next row is committed.  A rule found unspent stays so    *)
(* until the next seal is spent, and a move found legal is still one from  *)
(* the status it was found legal from.  CountInv says the same of the      *)
(* counts: one a process relies on covers the tables, or was voided by a   *)
(* commit since.                                                           *)
(***************************************************************************)
EXTENDS ResearchLoop, FiniteSetTheorems, TLAPS

Earned(r) == sealed[r].spent /\ (sealed[r].refuted => sealed[r].again)

\* What a process at s with the job j may rely on.
Sound(s, j) ==
  /\ s \in Sealing =>
       /\ j.rule \in declared
       /\ j.overtaken = "no" /\ ~j.unrecorded => \A x \in Ancestry(j.rule) : ~x.exposed
  /\ s = "spending" /\ j.overtaken # "spending" => ~sealed[j.rule].spent
  /\ s = "building" => Earned(j.rule)
  /\ s = "moving" => j.target \in Transitions[j.from]

Inv ==
  /\ TypeOK
  /\ \A x \in experiments : x.certificate = "clean" => ~x.exposed
  /\ \A r \in Rules : sealed[r].spent => r \in declared
  /\ HandOffsAreEarned
  /\ \A p \in Procs : Sound(stage[p], job[p])

-----------------------------------------------------------------------------
\* A count of rules is a natural number.
LEMMA CountsAreNatural ==
  ASSUME NEW family, NEW campaign, TypeOK
  PROVE  /\ DistinctHypotheses(family, campaign) \in Nat
         /\ SealedLooks(family) \in Nat
<1>1. IsFiniteSet(Rules \union {NoRule})
  BY LedgerAssumption, FS_Singleton, FS_Union
<1>2. {x.rule : x \in Scope(family, campaign)} \subseteq Rules \union {NoRule}
  BY DEF Scope, TypeOK, LedgerTypeOK, Row
<1>3. SpentRules(family) \subseteq Rules
  BY DEF SpentRules
<1>4. /\ IsFiniteSet({x.rule : x \in Scope(family, campaign)})
      /\ IsFiniteSet(SpentRules(family))
  BY <1>1, <1>2, <1>3, FS_Subset
<1> QED BY <1>4, FS_CardinalityType DEF DistinctHypotheses, SealedLooks

\* A search sets four fields of its job at once, and so does the end of a trial.
LEMMA StartedJob ==
  ASSUME NEW j \in Job, NEW cmd \in Commands \union {"none"}, NEW run \in Runs \union {NoRun},
         NEW read \in BOOLEAN, NEW campaign \in Campaigns \union {NoCampaign}
  PROVE  [j EXCEPT !.cmd = cmd, !.run = run, !.exposed = read, !.campaign = campaign] \in Job
<1> DEFINE a == [j EXCEPT !.cmd = cmd]
           b == [a EXCEPT !.run = run]
           c == [b EXCEPT !.exposed = read]
           d == [c EXCEPT !.campaign = campaign]
<1>1. a \in Job
  BY DEF Job
<1> HIDE DEF a
<1>2. b \in Job
  BY <1>1 DEF Job
<1> HIDE DEF b
<1>3. c \in Job
  BY <1>2 DEF Job
<1> HIDE DEF c
<1>4. d \in Job
  BY <1>3 DEF Job
<1> QED BY <1>4 DEF a, b, c, d

LEMMA RecordedJob ==
  ASSUME NEW j \in Job, NEW cmd \in Commands \union {"none"}, NEW rule \in Rules \union {NoRule},
         NEW dead \in BOOLEAN, NEW target \in Statuses
  PROVE  [j EXCEPT !.cmd = cmd, !.rule = rule, !.dead = dead, !.target = target] \in Job
<1> DEFINE a == [j EXCEPT !.cmd = cmd]
           b == [a EXCEPT !.rule = rule]
           c == [b EXCEPT !.dead = dead]
           d == [c EXCEPT !.target = target]
<1>1. a \in Job
  BY DEF Job
<1> HIDE DEF a
<1>2. b \in Job
  BY <1>1 DEF Job
<1> HIDE DEF b
<1>3. c \in Job
  BY <1>2 DEF Job
<1> HIDE DEF c
<1>4. d \in Job
  BY <1>3 DEF Job
<1> QED BY <1>4 DEF a, b, c, d

LEMMA PromotedJob ==
  ASSUME NEW j \in Job, NEW cmd \in Commands, NEW rule \in Rules, NEW from \in Statuses,
         NEW target \in Statuses
  PROVE  [j EXCEPT !.cmd = cmd, !.rule = rule, !.from = from, !.target = target] \in Job
<1> DEFINE a == [j EXCEPT !.cmd = cmd]
           b == [a EXCEPT !.rule = rule]
           c == [b EXCEPT !.from = from]
           d == [c EXCEPT !.target = target]
<1>1. a \in Job
  BY DEF Job
<1> HIDE DEF a
<1>2. b \in Job
  BY <1>1 DEF Job
<1> HIDE DEF b
<1>3. c \in Job
  BY <1>2 DEF Job
<1> HIDE DEF c
<1>4. d \in Job
  BY <1>3 DEF Job
<1> QED BY <1>4 DEF a, b, c, d

\* The jobs every action builds on are jobs.
LEMMA JobsAreJobs ==
  /\ NoJob \in Job
  /\ \A j \in Job : /\ Rest(j) \in Job /\ Then(j) \in {"idle", "proposing"}
                   /\ \A s : Stale(s, j) \in Job
<1>1. NoJob \in Job
  BY DEF NoJob, Job, Verdicts, Statuses
<1>2. ASSUME NEW j \in Job  PROVE Rest(j) \in Job
  <2>1. /\ j.cmd \in Commands \union {"none"} /\ j.run \in Runs \union {NoRun}
        /\ j.exposed \in BOOLEAN /\ j.campaign \in Campaigns \union {NoCampaign}
    BY DEF Job
  <2>2. [NoJob EXCEPT !.cmd = j.cmd, !.run = j.run, !.exposed = j.exposed,
                      !.campaign = j.campaign] \in Job
    BY <1>1, <2>1, StartedJob
  <2> QED BY <1>1, <2>2 DEF Rest
<1>3. ASSUME NEW j \in Job, NEW s  PROVE Stale(s, j) \in Job
  <2> DEFINE v == IF s \in Sealing THEN s ELSE j.overtaken
             a == [j EXCEPT !.trials = 0]
             b == [a EXCEPT !.overtaken = v]
  <2>1. a \in Job /\ a.overtaken = j.overtaken
    BY DEF Job
  <2>2. v \in Sealing \union {"no"}
    BY DEF Job
  <2> HIDE DEF a, v
  <2>3. b \in Job
    BY <2>1, <2>2 DEF Job
  <2> QED BY <2>1, <2>3 DEF Stale, a, v
<1>4. \A j \in Job : Then(j) \in {"idle", "proposing"}
  BY DEF Then
<1> QED BY <1>1, <1>2, <1>3, <1>4

\* A row is a row.
LEMMA RowsAreRows ==
  ASSUME NEW j \in Job, NEW rule \in Rules \union {NoRule}
  PROVE  /\ Uncertified(j, rule) \in Row
         /\ j.rule = rule => Certified(j) \in Row
BY DEF Uncertified, Certified, Certificate, Row, Job, FamilyOf, Families, Certificates

\* Where a process goes, if the stage and the job are of their sets.
Local ==
  /\ stage \in [Procs -> Stages]
  /\ job \in [Procs -> Job]
  /\ \A p \in Procs : stage[p] \notin {"idle", "proposing"} => job[p].rule \in Rules

LEMMA GoesSomewhere ==
  ASSUME TypeOK, NEW p \in Procs, NEW s \in Stages, NEW j \in Job,
         s \notin {"idle", "proposing"} => j.rule \in Rules,
         Goto(p, s, j) \/ GotoCommitted(p, s, j)
  PROVE  Local'
<1>1. Local
  BY DEF TypeOK, Local
<1>2. ASSUME NEW q \in Procs  PROVE /\ Stale(stage[q], job[q]) \in Job
                                  /\ Stale(stage[q], job[q]).rule = job[q].rule
  <2>1. job[q] \in Job
    BY <1>1 DEF Local
  <2>2. Stale(stage[q], job[q]).rule = job[q].rule
    BY <2>1 DEF Stale, Job
  <2> QED BY <2>1, <2>2, JobsAreJobs
<1>3. CASE Goto(p, s, j)
  BY <1>1, <1>3 DEF Goto, Local
<1>4. CASE GotoCommitted(p, s, j)
  <2>1. stage' \in [Procs -> Stages] /\ job' \in [Procs -> Job]
    BY <1>1, <1>2, <1>4 DEF GotoCommitted, Local
  <2>2. ASSUME NEW q \in Procs, stage'[q] \notin {"idle", "proposing"}
        PROVE  job'[q].rule \in Rules
    <3>1. CASE q = p
      BY <3>1, <2>2, <1>1, <1>4 DEF GotoCommitted, Local
    <3>2. CASE q # p
      BY <3>2, <2>2, <1>1, <1>2, <1>4 DEF GotoCommitted, Local
    <3> QED BY <3>1, <3>2
  <2> QED BY <2>1, <2>2 DEF Local
<1> QED BY <1>3, <1>4

-----------------------------------------------------------------------------
\* Every action keeps every variable within its type.
THEOREM TypeCorrect == Spec => []TypeOK
<1>1. Init => TypeOK
  BY JobsAreJobs DEF Init, LedgerInit, TypeOK, LedgerTypeOK, Stages
<1>2. TypeOK /\ [Next]_vars => TypeOK'
  <2> SUFFICES ASSUME TypeOK, [Next]_vars  PROVE TypeOK'
    OBVIOUS
  <2>t. /\ LedgerTypeOK /\ used \subseteq Runs /\ Local
        /\ stage \in [Procs -> Stages] /\ job \in [Procs -> Job]
    BY DEF TypeOK, Local
  <2>u. CASE UNCHANGED vars
    BY <2>u, <2>t DEF vars, ledger, TypeOK, LedgerTypeOK
  <2>n. ASSUME NEW p \in Procs, Step(p)  PROVE TypeOK'
    <3>j. job[p] \in Job
      BY <2>t
    <3>r. /\ job[p].rule \in Rules \union {NoRule} /\ job[p].target \in Statuses
          /\ job[p].trials \in Nat /\ job[p].looks \in Nat /\ job[p].cmd \in Commands \union {"none"}
          /\ job[p].refuted \in BOOLEAN /\ job[p].dead \in BOOLEAN
          /\ stage[p] \notin {"idle", "proposing"} => job[p].rule \in Rules
      BY <3>j, <2>t DEF Job, Local
    <3>1. CASE StartResearch(p) \/ StartOptionResearch(p)
      <4>1. PICK cmd \in Commands, run \in Runs, read \in BOOLEAN,
                 campaign \in Campaigns \union {NoCampaign} :
              /\ Goto(p, "proposing", NewJob(cmd, run, read, campaign))
              /\ used' = used \union {run}
        BY <3>1 DEF StartResearch, StartOptionResearch, Commands, Searches
      <4>2. NewJob(cmd, run, read, campaign) \in Job
        BY JobsAreJobs, StartedJob DEF NewJob
      <4>3. Local'
        BY <4>1, <4>2, GoesSomewhere DEF Stages
      <4> QED BY <4>1, <4>3, <3>1, <2>t
              DEF StartResearch, StartOptionResearch, ledger, TypeOK, LedgerTypeOK, Local
    <3>0. CASE StartEvaluate(p)
      <4>1. PICK run \in Runs, read \in BOOLEAN, r \in EquityRules :
              /\ Goto(p, "running",
                      [NewJob("evaluate", run, read, NoCampaign) EXCEPT !.rule = r])
              /\ used' = used \union {run}
        BY <3>0 DEF StartEvaluate
      <4>2. NewJob("evaluate", run, read, NoCampaign) \in Job
        BY JobsAreJobs, StartedJob DEF NewJob, Commands, Searches
      <4>3. [NewJob("evaluate", run, read, NoCampaign) EXCEPT !.rule = r] \in {j \in Job : j.rule \in Rules}
        BY <4>2 DEF Job, Rules
      <4>4. Local'
        BY <4>1, <4>3, GoesSomewhere DEF Stages
      <4> QED BY <4>1, <4>4, <3>0, <2>t DEF StartEvaluate, ledger, TypeOK, LedgerTypeOK, Local
    <3>2. CASE ProposalFails(p)
      BY <3>2, <3>j, <2>t, RowsAreRows, GoesSomewhere
      DEF ProposalFails, RecordExperiment, TypeOK, LedgerTypeOK, Local, Stages
    <3>3. CASE Propose(p)
      <4>1. \A r \in Rules : [job[p] EXCEPT !.rule = r] \in {j \in Job : j.rule = r}
        BY <3>j DEF Job
      <4> QED BY <3>3, <4>1, <2>t, GoesSomewhere
              DEF Propose, RulesOf, Rules, ledger, TypeOK, LedgerTypeOK, Local, Stages
    <3>4. CASE RepairDeadRule(p)
      <4>1. \A r \in EquityRules : [job[p] EXCEPT !.rule = r, !.repaired = TRUE] \in {j \in Job : j.rule = r /\ r \in Rules}
        BY <3>j DEF Job, Rules
      <4>2. Local'
        BY <3>4, <4>1, GoesSomewhere DEF RepairDeadRule, Stages
      <4> QED BY <3>4, <4>2, <3>j, <3>r, <2>t, RowsAreRows
              DEF RepairDeadRule, Upsert, RecordExperiment, TypeOK, LedgerTypeOK, Local, Statuses
    <3>5. CASE SkipDuplicate(p)
      BY <3>5, <3>j, <3>r, <2>t, RowsAreRows, GoesSomewhere, JobsAreJobs
      DEF SkipDuplicate, RecordExperiment, TypeOK, LedgerTypeOK, Local, Stages
    <3>6. CASE AskAgain(p)
      <4>1. \A r \in OptionRules : [job[p] EXCEPT !.rule = r] \in {j \in Job : j.rule = r /\ r \in Rules}
        BY <3>j DEF Job, Rules
      <4> QED BY <3>6, <4>1, <3>j, <2>t, GoesSomewhere, JobsAreJobs
              DEF AskAgain, ledger, TypeOK, LedgerTypeOK, Local, Stages
    <3>7. CASE RunBacktests(p)
      <4>1. [job[p] EXCEPT !.repaired = FALSE] \in {j \in Job : j.rule = job[p].rule}
        BY <3>j DEF Job
      <4> QED BY <3>7, <4>1, <3>r, <2>t, GoesSomewhere
              DEF RunBacktests, ledger, TypeOK, LedgerTypeOK, Local, Stages
    <3>8. CASE RejectEarly(p)
      <4>1. \A d \in BOOLEAN : [job[p] EXCEPT !.verdict = "REJECT", !.dead = d] \in {j \in Job : j.rule = job[p].rule}
        BY <3>j DEF Job, Verdicts
      <4>2. Local'
        BY <3>8, <4>1, <3>r, GoesSomewhere DEF RejectEarly, Stages
      <4> QED BY <3>8, <4>2, <2>t DEF RejectEarly, Upsert, TypeOK, LedgerTypeOK, Local, Statuses
    <3>9. CASE Judge(p)
      <4>1. Prior(job[p]) + 1 \in Nat
        BY CountsAreNatural DEF Prior
      <4>2. \A v \in Verdicts :
              [job[p] EXCEPT !.verdict = v, !.trials = Prior(job[p]) + 1]
                \in {j \in Job : j.rule = job[p].rule}
        BY <3>j, <4>1 DEF Job
      <4>3. Local'
        BY <3>9, <4>2, <3>r, GoesSomewhere DEF Judge, Stages
      <4> QED BY <3>9, <4>3, <2>t DEF Judge, Upsert, TypeOK, LedgerTypeOK, Local, Statuses
    <3>10. CASE Record(p)
      <4>1. TargetOf(job[p].verdict) \in Statuses
        BY DEF TargetOf, Statuses
      <4>2. /\ [Rest(job[p]) EXCEPT !.cmd = job[p].cmd, !.rule = job[p].rule, !.dead = job[p].dead,
                                    !.target = TargetOf(job[p].verdict)] \in Job
           /\ [Rest(job[p]) EXCEPT !.cmd = job[p].cmd, !.rule = job[p].rule, !.dead = job[p].dead,
                                    !.target = TargetOf(job[p].verdict)].rule = job[p].rule
        <5>1. Rest(job[p]) \in Job
          BY <3>j, JobsAreJobs
        <5>2. [Rest(job[p]) EXCEPT !.cmd = job[p].cmd, !.rule = job[p].rule, !.dead = job[p].dead,
                                   !.target = TargetOf(job[p].verdict)].rule = job[p].rule
          BY <5>1 DEF Job
        <5>3. [Rest(job[p]) EXCEPT !.cmd = job[p].cmd, !.rule = job[p].rule, !.dead = job[p].dead,
                                   !.target = TargetOf(job[p].verdict)] \in Job
          BY <5>1, <4>1, <3>r, RecordedJob
        <5> QED BY <5>2, <5>3
      <4>3. Local'
        BY <3>10, <4>2, <3>j, <3>r, GoesSomewhere, JobsAreJobs DEF Record, Stages
      <4> QED BY <3>10, <4>3, <3>j, <3>r, <2>t, RowsAreRows
              DEF Record, RecordExperiment, TypeOK, LedgerTypeOK, Local
    <3>11. CASE EndSearch(p) \/ Abandon(p)
      BY <3>11, <2>t, GoesSomewhere, JobsAreJobs
      DEF EndSearch, Abandon, Stop, ledger, TypeOK, LedgerTypeOK, Local, Stages
    <3>12. CASE StartPromote(p)
      <4>1. PICK r \in Rules, t \in PromoteTo :
              /\ status[r] \in Statuses
              /\ Goto(p, "moving", [NoJob EXCEPT !.cmd = "promote", !.rule = r,
                                                 !.from = status[r], !.target = t])
        BY <3>12, <2>t DEF StartPromote, Registered, LedgerTypeOK
      <4> DEFINE k == [NoJob EXCEPT !.cmd = "promote", !.rule = r, !.from = status[r], !.target = t]
      <4>2. k \in Job /\ k.rule = r
        <5>1. "promote" \in Commands /\ t \in Statuses /\ NoJob \in Job /\ status[r] \in Statuses
          BY <4>1, JobsAreJobs, ResearchAssumption DEF Commands
        <5>2. k \in Job
          BY <5>1, PromotedJob
        <5>3. k.rule = r
          BY DEF NoJob
        <5> QED BY <5>2, <5>3
      <4> HIDE DEF k
      <4>3. Local'
        BY <4>1, <4>2, GoesSomewhere DEF k, Stages
      <4> QED BY <3>12, <4>3, <2>t DEF StartPromote, ledger, TypeOK, LedgerTypeOK, Local
    <3>m. Resume(p, job[p]) => Local'
      <4>1. \A r \in Rules : [Rest(job[p]) EXCEPT !.rule = r, !.repaired = TRUE] \in {j \in Job : j.rule = r}
        BY <3>j, JobsAreJobs DEF Job
      <4>2. Goto(p, Then(job[p]), Rest(job[p])) => Local'
        BY <3>j, GoesSomewhere, JobsAreJobs DEF Stages
      <4>3. ASSUME NEW r \in Repairs(job[p]),
                   Goto(p, "running", [Rest(job[p]) EXCEPT !.rule = r, !.repaired = TRUE])
            PROVE  Local'
        <5>1. r \in Rules
          BY DEF Repairs, Rules
        <5> QED BY <5>1, <4>1, <4>3, GoesSomewhere DEF Stages
      <4> QED BY <4>2, <4>3 DEF Resume
    <3>22. CASE CheckMove(p)
      <4>1. CASE Resume(p, job[p])
        BY <4>1, <3>m, <3>22, <2>t DEF CheckMove, ledger, TypeOK, LedgerTypeOK, Local
      <4>2. CASE ~Resume(p, job[p])
        <5>1. /\ Registered(job[p].rule) /\ stage[p] = "recorded"
              /\ Goto(p, "moving", [job[p] EXCEPT !.from = status[job[p].rule]])
          BY <4>2, <3>22 DEF CheckMove
        <5>2. job[p].rule \in Rules /\ status[job[p].rule] \in Statuses
          BY <5>1, <3>r, <2>t DEF Registered, LedgerTypeOK
        <5>3. [job[p] EXCEPT !.from = status[job[p].rule]] \in {j \in Job : j.rule \in Rules}
          BY <5>2, <3>j DEF Job
        <5>4. Local'
          BY <5>1, <5>3, GoesSomewhere DEF Stages
        <5> QED BY <5>4, <3>22, <2>t DEF CheckMove, ledger, TypeOK, LedgerTypeOK, Local
      <4> QED BY <4>1, <4>2
    <3>13. CASE SetStatus(p)
      <4>1. Local'
        BY <3>13, <3>m DEF SetStatus
      <4> QED BY <3>13, <4>1, <3>r, <2>t DEF SetStatus, TypeOK, LedgerTypeOK, Local
    <3>14. CASE StartPreregister(p)
      <4>1. \A r \in Rules : [NoJob EXCEPT !.cmd = "preregister", !.rule = r] \in {j \in Job : j.rule \in Rules}
        BY JobsAreJobs DEF Job, Commands
      <4> QED BY <3>14, <4>1, <2>t, GoesSomewhere
              DEF StartPreregister, ledger, TypeOK, LedgerTypeOK, Local, Stages
    <3>15. CASE Preregister(p)
      <4>1. Local'
        BY <3>15, GoesSomewhere, JobsAreJobs DEF Preregister, Stop, Stages
      <4> QED BY <3>15, <4>1, <3>r, <2>t DEF Preregister, Declare, TypeOK, LedgerTypeOK, Local
    <3>16. CASE StartSealed(p)
      <4>1. \A cmd \in SealedCommands, r \in Rules, u \in BOOLEAN :
              /\ [NoJob EXCEPT !.cmd = cmd, !.rule = r, !.unrecorded = u] \in Job
              /\ [NoJob EXCEPT !.cmd = cmd, !.rule = r, !.unrecorded = u].rule = r
        <5>1. \A cmd \in SealedCommands, r \in Rules, u \in BOOLEAN :
                [NoJob EXCEPT !.cmd = cmd, !.rule = r, !.unrecorded = u] \in Job
          BY JobsAreJobs DEF Job, Commands
        <5>2. \A cmd, r, u : [NoJob EXCEPT !.cmd = cmd, !.rule = r, !.unrecorded = u].rule = r
          BY DEF NoJob
        <5> QED BY <5>1, <5>2
      <4>2. declared \subseteq Rules
        BY <2>t DEF LedgerTypeOK
      <4>4. \A r : Unrecorded(r) \in BOOLEAN
        BY DEF Unrecorded
      <4>3. Local'
        <5>1. PICK cmd \in SealedCommands, r \in Rules :
                Goto(p, "cleared", [NoJob EXCEPT !.cmd = cmd, !.rule = r, !.unrecorded = Unrecorded(r)])
          BY <3>16, <4>2 DEF StartSealed
        <5> DEFINE k == [NoJob EXCEPT !.cmd = cmd, !.rule = r, !.unrecorded = Unrecorded(r)]
        <5>2. k \in Job /\ k.rule = r
          BY <4>1, <4>4
        <5> HIDE DEF k
        <5> QED BY <5>1, <5>2, GoesSomewhere DEF k, Stages
      <4> QED BY <3>16, <4>3, <2>t DEF StartSealed, ledger, TypeOK, LedgerTypeOK, Local
    <3>17. CASE ReadSealed(p)
      <4>1. LooksBefore(job[p].cmd) + 1 \in Nat
        BY CountsAreNatural DEF LooksBefore
      <4>2. [job[p] EXCEPT !.looks = LooksBefore(job[p].cmd) + 1] \in {j \in Job : j.rule = job[p].rule}
        BY <3>j, <4>1 DEF Job
      <4> QED BY <3>17, <4>2, <3>r, <2>t, GoesSomewhere
              DEF ReadSealed, ledger, TypeOK, LedgerTypeOK, Local, Stages
    <3>18. CASE Measure(p)
      <4>1. \A refuted \in BOOLEAN : [job[p] EXCEPT !.refuted = refuted] \in {j \in Job : j.rule = job[p].rule}
        BY <3>j DEF Job
      <4> QED BY <3>18, <4>1, <3>r, <2>t, GoesSomewhere, JobsAreJobs
              DEF Measure, Stop, ledger, TypeOK, LedgerTypeOK, Local, Stages
    <3>19. CASE RecordSealedRun(p)
      <4>1. Local'
        BY <3>19, GoesSomewhere, JobsAreJobs DEF RecordSealedRun, Stages
      <4>2. [spent |-> TRUE, at |-> SealedLooks("any") + 1, looks |-> job[p].looks,
             refuted |-> job[p].refuted, again |-> sealed[job[p].rule].spent] \in SealedResult
        <5>1. sealed[job[p].rule].spent \in BOOLEAN
          <6>1. sealed[job[p].rule] \in SealedResult \union {Unspent}
            BY <3>19, <3>r, <2>t DEF RecordSealedRun, LedgerTypeOK
          <6>2. CASE sealed[job[p].rule] \in SealedResult
            BY <6>2 DEF SealedResult
          <6>3. CASE sealed[job[p].rule] = Unspent
            BY <6>3 DEF Unspent
          <6> QED BY <6>1, <6>2, <6>3
        <5> QED BY <5>1, <3>r, CountsAreNatural DEF SealedResult
      <4> QED BY <3>19, <4>1, <4>2, <2>t DEF RecordSealedRun, Spend, TypeOK, LedgerTypeOK, Local
    <3>20. CASE StartHandOff(p)
      <4>1. \A r \in Rules : [NoJob EXCEPT !.cmd = "hand-off", !.rule = r] \in {j \in Job : j.rule \in Rules}
        BY JobsAreJobs DEF Job, Commands
      <4> QED BY <3>20, <4>1, <2>t, GoesSomewhere
              DEF StartHandOff, ledger, TypeOK, LedgerTypeOK, Local, Stages
    <3>21. CASE RecordTargetBook(p)
      <4>1. Local'
        BY <3>21, GoesSomewhere, JobsAreJobs DEF RecordTargetBook, Stop, Stages
      <4> QED BY <3>21, <4>1, <3>r, <2>t DEF RecordTargetBook, RecordBook, TypeOK, LedgerTypeOK, Local
    <3> QED BY <2>n, <3>0, <3>1, <3>2, <3>3, <3>4, <3>5, <3>6, <3>7, <3>8, <3>9, <3>10, <3>11, <3>12,
               <3>13, <3>14, <3>15, <3>16, <3>17, <3>18, <3>19, <3>20, <3>21, <3>22 DEF Step
  <2> QED BY <2>u, <2>n DEF Next
<1> QED BY <1>1, <1>2, PTL DEF Spec

-----------------------------------------------------------------------------
\* A step of p that leaves the seals, the rows and the books as they are leaves
\* every other process what it may rely on.
LEMMA KeepsSound ==
  ASSUME Inv, NEW p \in Procs, NEW s, NEW j, Goto(p, s, j), TypeOK',
         UNCHANGED <<sealed, experiments, books>>, declared \subseteq declared',
         Sound(s, j)
  PROVE  Inv'
<1>t. stage \in [Procs -> Stages] /\ job \in [Procs -> Job]
  BY DEF Inv, TypeOK
<1>1. \A k, c : Sound(c, k) => Sound(c, k)'
  BY DEF Sound, Ancestry, Earned
<1>2. \A q \in Procs : Sound(stage'[q], job'[q])
  BY <1>t DEF Goto, Inv
<1>3. \A q \in Procs : Sound(stage[q], job[q])'
  BY <1>1, <1>2
<1>4. HandOffsAreEarned'
  BY DEF Inv, HandOffsAreEarned
<1> QED BY <1>3, <1>4 DEF Inv

\* A commit of p leaves every other process what it may rely on, and says so to
\* those in a sealed run.
LEMMA CommitKeepsSound ==
  ASSUME Inv, NEW p \in Procs, NEW q \in Procs \ {p}, NEW s, NEW j, GotoCommitted(p, s, j),
         UNCHANGED declared,
         \A r \in Rules : Earned(r) => Earned(r)'
  PROVE  Sound(stage[q], job[q])'
<1>t. /\ stage \in [Procs -> Stages] /\ job \in [Procs -> Job] /\ job[q] \in Job
      /\ stage[q] \notin {"idle", "proposing"} => job[q].rule \in Rules
  BY DEF Inv, TypeOK
<1>1. stage'[q] = stage[q] /\ job'[q] = Stale(stage[q], job[q])
  BY <1>t DEF GotoCommitted
<1>2. /\ job'[q].rule = job[q].rule /\ job'[q].target = job[q].target /\ job'[q].from = job[q].from
      /\ stage[q] \in Sealing => job'[q].overtaken = stage[q]
  BY <1>1, <1>t DEF Stale, Job
<1>3. Sound(stage[q], job[q])
  BY DEF Inv
<1> QED BY <1>t, <1>1, <1>2, <1>3 DEF Sound, Sealing

\* A new row that tells the truth keeps the invariant.
LEMMA RowKeepsInv ==
  ASSUME Inv, NEW p \in Procs, NEW s \in {"idle", "proposing", "proposed", "recorded"}, NEW j,
         GotoCommitted(p, s, j), TypeOK', UNCHANGED <<sealed, declared, books>>,
         NEW x, experiments' = experiments \union {x}, x.certificate = "clean" => ~x.exposed
  PROVE  Inv'
<1>1. stage'[p] = s
  BY DEF GotoCommitted, Inv, TypeOK
<1>2. Sound(stage[p], job[p])'
  BY <1>1 DEF Sound, Sealing
<1>3. \A q \in Procs \ {p} : Sound(stage[q], job[q])'
  BY CommitKeepsSound DEF Earned
<1>4. HandOffsAreEarned'
  BY DEF Inv, HandOffsAreEarned
<1> QED BY <1>2, <1>3, <1>4 DEF Inv

\* What ancestry_taint says of a rule is true of its ancestry.
LEMMA AncestryIsSound ==
  ASSUME Inv, NEW r, ~Tainted(r), ~Unrecorded(r)
  PROVE  \A x \in Ancestry(r) : ~x.exposed
<1> SUFFICES ASSUME NEW x \in Ancestry(r)  PROVE ~x.exposed
  OBVIOUS
<1>1. x \in experiments
  BY DEF Ancestry
<1>2. x.certificate \in Certificates
  BY <1>1 DEF Inv, TypeOK, LedgerTypeOK, Row
<1>3. x.certificate = "clean"
  BY <1>2 DEF Tainted, Unrecorded, Certificates
<1> QED BY <1>1, <1>3 DEF Inv

\* The rows the searches write tell the truth.
LEMMA RowsAreTrue ==
  ASSUME NEW j, NEW rule
  PROVE  /\ Uncertified(j, rule).certificate # "clean"
         /\ Certified(j).certificate = "clean" => ~Certified(j).exposed
BY DEF Uncertified, Certified, Certificate

-----------------------------------------------------------------------------
\* Every step keeps the invariant.
LEMMA StepKeepsInv ==
  ASSUME Inv, Next, TypeOK'
  PROVE  Inv'
<1> PICK p \in Procs : Step(p)
  BY DEF Next
<1>t. TypeOK /\ stage \in [Procs -> Stages] /\ job \in [Procs -> Job]
  BY DEF Inv, TypeOK
<1>j. /\ job[p] \in Job /\ Sound(stage[p], job[p])
      /\ stage[p] \notin {"idle", "proposing"} => job[p].rule \in Rules
  BY <1>t DEF Inv, TypeOK
<1>i. Then(job[p]) \in {"idle", "proposing"}
  BY <1>j, JobsAreJobs
<1>e. \A j : \A s \in {"idle", "proposing", "proposed", "running", "judged", "recorded", "declaring"} :
        Sound(s, j)
  BY DEF Sound, Sealing
<1>q. ASSUME NEW s \in {"idle", "proposing", "proposed", "running", "judged", "recorded", "declaring"},
             NEW j, Goto(p, s, j), UNCHANGED <<sealed, experiments, declared, books>>
      PROVE  Inv'
  BY <1>q, <1>e, KeepsSound
<1>r. Resume(p, job[p]) /\ UNCHANGED <<sealed, experiments, declared, books>> => Inv'
  BY <1>q, <1>i DEF Resume
<1>1. CASE StartResearch(p) \/ StartOptionResearch(p) \/ StartEvaluate(p)
  BY <1>1, <1>q DEF StartResearch, StartOptionResearch, StartEvaluate, ledger
<1>2. CASE ProposalFails(p) \/ RepairDeadRule(p) \/ SkipDuplicate(p)
  <2>1. \E s \in {"idle", "proposing", "proposed", "recorded"} : \E j : GotoCommitted(p, s, j)
    BY <1>2 DEF ProposalFails, RepairDeadRule, SkipDuplicate
  <2>2. \E rule : experiments' = experiments \union {Uncertified(job[p], rule)}
    BY <1>2 DEF ProposalFails, RepairDeadRule, SkipDuplicate, RecordExperiment
  <2>3. UNCHANGED <<sealed, declared, books>>
    BY <1>2 DEF ProposalFails, RepairDeadRule, SkipDuplicate
  <2> QED BY <2>1, <2>2, <2>3, RowsAreTrue, RowKeepsInv
<1>3. CASE Propose(p) \/ AskAgain(p) \/ RunBacktests(p) \/ StartPreregister(p) \/ EndSearch(p) \/ Abandon(p)
  <2>1. \E s \in {"idle", "proposing", "proposed", "running", "declaring"} : \E j : Goto(p, s, j)
    BY <1>3 DEF Propose, AskAgain, RunBacktests, StartPreregister, EndSearch, Abandon, Stop
  <2>2. UNCHANGED ledger
    BY <1>3 DEF Propose, AskAgain, RunBacktests, StartPreregister, EndSearch, Abandon
  <2> QED BY <2>1, <2>2, <1>q DEF ledger
<1>4. CASE RejectEarly(p) \/ Judge(p)
  BY <1>4, <1>q DEF RejectEarly, Judge
<1>5. CASE Record(p)
  <2>1. \E s \in {"idle", "proposing", "proposed", "recorded"} : \E j : GotoCommitted(p, s, j)
    BY <1>5, <1>i DEF Record
  <2> QED BY <2>1, <1>5, RowsAreTrue, RowKeepsInv DEF Record, RecordExperiment
<1>6. CASE StartPromote(p)
  <2>1. PICK r \in Rules, t \in PromoteTo :
          /\ status[r] \in Statuses /\ t \in Transitions[status[r]]
          /\ Goto(p, "moving", [NoJob EXCEPT !.cmd = "promote", !.rule = r,
                                             !.from = status[r], !.target = t])
    BY <1>6, <1>t DEF StartPromote, Registered, TypeOK, LedgerTypeOK
  <2> DEFINE k == [NoJob EXCEPT !.cmd = "promote", !.rule = r, !.from = status[r], !.target = t]
  <2>2. k.from = status[r] /\ k.target = t
    BY DEF NoJob
  <2> HIDE DEF k
  <2>3. Sound("moving", k)
    BY <2>1, <2>2 DEF Sound, Sealing
  <2> QED BY <2>1, <2>3, <1>6, KeepsSound DEF k, StartPromote, ledger
<1>7. CASE CheckMove(p)
  <2>1. UNCHANGED ledger
    BY <1>7 DEF CheckMove
  <2>2. ASSUME ~Resume(p, job[p])  PROVE Inv'
    <3> DEFINE k == [job[p] EXCEPT !.from = status[job[p].rule]]
    <3>1. job[p].target \in Transitions[status[job[p].rule]] /\ Goto(p, "moving", k)
      BY <1>7, <2>2 DEF CheckMove
    <3>2. k.from = status[job[p].rule] /\ k.target = job[p].target
      BY <1>j DEF Job
    <3> HIDE DEF k
    <3>3. Sound("moving", k)
      BY <3>1, <3>2 DEF Sound, Sealing
    <3> QED BY <2>1, <3>1, <3>3, KeepsSound DEF ledger
  <2> QED BY <2>1, <2>2, <1>r DEF ledger
<1>8. CASE SetStatus(p)
  BY <1>8, <1>r DEF SetStatus
<1>9. CASE Preregister(p)
  BY <1>9, <1>e, KeepsSound DEF Preregister, Declare, Stop, Inv
<1>10. CASE StartSealed(p)
  <2>1. PICK cmd \in SealedCommands, r \in declared :
          /\ ~Tainted(r)
          /\ Goto(p, "cleared", [NoJob EXCEPT !.cmd = cmd, !.rule = r, !.unrecorded = Unrecorded(r)])
    BY <1>10 DEF StartSealed
  <2> DEFINE k == [NoJob EXCEPT !.cmd = cmd, !.rule = r, !.unrecorded = Unrecorded(r)]
  <2>2. k.rule = r /\ k.unrecorded = Unrecorded(r)
    BY DEF NoJob
  <2> HIDE DEF k
  <2>3. Sound("cleared", k)
    BY <2>1, <2>2, AncestryIsSound DEF Sound
  <2> QED BY <2>1, <2>3, <1>10, KeepsSound DEF k, StartSealed, ledger
<1>11. CASE ReadSealed(p)
  <2> DEFINE k == [job[p] EXCEPT !.looks = LooksBefore(job[p].cmd) + 1]
  <2>1. Goto(p, "counted", k) /\ UNCHANGED ledger /\ stage[p] = "cleared"
    BY <1>11 DEF ReadSealed
  <2>2. k.rule = job[p].rule /\ k.unrecorded = job[p].unrecorded /\ k.overtaken = job[p].overtaken
    BY <1>j DEF Job
  <2> HIDE DEF k
  <2>3. Sound("counted", k)
    BY <2>1, <2>2, <1>j DEF Sound, Sealing
  <2> QED BY <2>1, <2>3, KeepsSound DEF ledger
<1>12. CASE Measure(p)
  <2>1. UNCHANGED ledger /\ stage[p] = "counted"
    BY <1>12 DEF Measure
  <2>2. ASSUME ~Stop(p)  PROVE Inv'
    <3>1. PICK refuted : /\ Goto(p, "spending", [job[p] EXCEPT !.refuted = refuted])
                         /\ MaySpend(job[p].rule)
      BY <2>2, <1>12 DEF Measure
    <3> DEFINE k == [job[p] EXCEPT !.refuted = refuted]
    <3>2. k.rule = job[p].rule /\ k.unrecorded = job[p].unrecorded /\ k.overtaken = job[p].overtaken
      BY <1>j DEF Job
    <3> HIDE DEF k
    <3>3. Sound("spending", k)
      BY <2>1, <3>1, <3>2, <1>j DEF Sound, Sealing, MaySpend
    <3> QED BY <2>1, <3>1, <3>3, KeepsSound DEF k, ledger
  <2> QED BY <2>1, <2>2, <1>q DEF Stop, ledger
<1>13. CASE RecordSealedRun(p)
  <2> DEFINE r == job[p].rule
             result == [spent |-> TRUE, at |-> SealedLooks("any") + 1, looks |-> job[p].looks,
                        refuted |-> job[p].refuted, again |-> sealed[r].spent]
  <2>1. /\ stage[p] = "spending" /\ GotoCommitted(p, "idle", NoJob)
        /\ sealed' = [sealed EXCEPT ![r] = result]
        /\ UNCHANGED <<experiments, declared, books>>
    BY <1>13 DEF RecordSealedRun, Spend
  <2>2. r \in Rules /\ r \in declared
    BY <2>1, <1>j DEF Sound, Sealing
  <2>3. sealed'[r] = result /\ \A q \in Rules \ {r} : sealed'[q] = sealed[q]
    BY <2>1, <2>2, <1>t DEF TypeOK, LedgerTypeOK
  <2>4. \A q \in Rules : Earned(q) => Earned(q)'
    BY <2>3 DEF Earned
  <2>5. \A q \in Procs \ {p} : Sound(stage[q], job[q])'
    BY <2>1, <2>4, CommitKeepsSound
  <2>6. Sound(stage[p], job[p])'
    <3>1. stage'[p] = "idle"
      BY <2>1, <1>t DEF GotoCommitted
    <3> QED BY <3>1 DEF Sound, Sealing
  <2>7. HandOffsAreEarned'
    <3>1. books \subseteq Rules
      BY <1>t DEF TypeOK, LedgerTypeOK
    <3> QED BY <2>1, <2>4, <3>1 DEF Inv, HandOffsAreEarned, Earned
  <2>8. \A q \in Rules : sealed'[q].spent => q \in declared'
    BY <2>1, <2>2, <2>3 DEF Inv
  <2> QED BY <2>1, <2>5, <2>6, <2>7, <2>8 DEF Inv
<1>14. CASE StartHandOff(p)
  <2>1. PICK r \in Rules :
          MayHandOff(r) /\ Goto(p, "building", [NoJob EXCEPT !.cmd = "hand-off", !.rule = r])
    BY <1>14 DEF StartHandOff
  <2> DEFINE k == [NoJob EXCEPT !.cmd = "hand-off", !.rule = r]
  <2>2. k.rule = r
    BY DEF NoJob
  <2> HIDE DEF k
  <2>3. Sound("building", k)
    BY <2>1, <2>2 DEF Sound, Sealing, MayHandOff, Earned
  <2> QED BY <2>1, <2>3, <1>14, KeepsSound DEF k, StartHandOff, ledger
<1>15. CASE RecordTargetBook(p)
  <2>1. /\ Goto(p, "idle", NoJob) /\ books' = books \union {job[p].rule} /\ stage[p] = "building"
        /\ UNCHANGED <<sealed, experiments, declared>>
    BY <1>15 DEF RecordTargetBook, RecordBook, Stop
  <2>2. \A k, s : Sound(s, k) => Sound(s, k)'
    BY <2>1 DEF Sound, Ancestry, Earned
  <2>3. \A q \in Procs : Sound(stage'[q], job'[q])
    BY <2>1, <1>t, <1>e DEF Goto, Inv
  <2>4. job[p].rule \in declared /\ Earned(job[p].rule)
    BY <2>1, <1>j DEF Sound, Inv, Earned
  <2>5. HandOffsAreEarned'
    BY <2>1, <2>4 DEF Inv, HandOffsAreEarned, Earned
  <2> QED BY <2>1, <2>2, <2>3, <2>5 DEF Inv
<1> QED BY <1>1, <1>2, <1>3, <1>4, <1>5, <1>6, <1>7, <1>8, <1>9, <1>10, <1>11, <1>12, <1>13,
           <1>14, <1>15 DEF Step

\* The invariant, always.
LEMMA Invariance == Spec => []Inv
<1>1. Init => (TypeOK => Inv)
  BY DEF Init, LedgerInit, Unspent, Inv, Sound, Sealing, HandOffsAreEarned
<1>2. Inv /\ TypeOK' /\ UNCHANGED vars => Inv'
  BY DEF vars, ledger, Inv, Sound, Earned, Ancestry, HandOffsAreEarned
<1>3. Inv /\ TypeOK' /\ [Next]_vars => Inv'
  BY <1>2, StepKeepsInv
<1> QED BY <1>1, <1>3, TypeCorrect, PTL DEF Spec

\* Whatever the commands do in between, a seal no --allow-unrecorded-ancestry
\* went into is spent on a rule whose whole ancestry is unexposed, unless a row
\* or a result was committed between its check and its spend.
THEOREM TaintIsSound == Spec => TaintSound
<1> DEFINE Sounds ==
      \A p \in Procs :
        RecordSealedRun(p) /\ ~job[p].unrecorded /\ job[p].overtaken = "no" =>
          \A x \in Ancestry(job[p].rule) : ~x.exposed
<1>1. Inv => Sounds
  BY DEF Inv, Sound, Sealing, RecordSealedRun
<1>2. Spec => [][Sounds]_vars
  <2> HIDE DEF Sounds
  <2> QED BY <1>1, Invariance, PTL
<1> QED BY <1>2 DEF TaintSound

\* A book is only of a rule that was declared, that spent its seal, and that was
\* not refuted unless by a result written over another.
THEOREM HandOffsEarned == Spec => []HandOffsAreEarned
<1>1. Inv => HandOffsAreEarned
  BY DEF Inv
<1> QED BY <1>1, Invariance, PTL

\* What was decided is only rewritten by a process overtaken between its check
\* and its write.
THEOREM HistoryIsKept == Spec => HistoryStands
<1> DEFINE Stands ==
      /\ \A r \in Rules : sealed[r].spent /\ sealed'[r] # sealed[r] =>
           \E p \in Procs : RecordSealedRun(p) /\ job[p].rule = r /\ job[p].overtaken = "spending"
      /\ \A r \in Rules : status[r] \in Terminal /\ status'[r] # status[r] =>
           \E p \in Procs : SetStatus(p) /\ job[p].rule = r /\ job[p].from # status[r]
      /\ experiments \subseteq experiments'
      /\ declared \subseteq declared'
      /\ books \subseteq books'
<1>1. ASSUME Inv, Next  PROVE Stands
  <2> PICK p \in Procs : Step(p)
    BY <1>1 DEF Next
  <2>t. /\ status \in [Rules -> Statuses \union {Unregistered}]
        /\ sealed \in [Rules -> SealedResult \union {Unspent}]
        /\ Sound(stage[p], job[p])
    BY <1>1 DEF Inv, TypeOK, LedgerTypeOK
  <2>u. \A r \in Rules : status[r] \in Terminal => Registered(r)
    BY DEF Terminal, Statuses, Registered, Unregistered
  <2>1. CASE StartResearch(p) \/ StartOptionResearch(p) \/ StartEvaluate(p) \/ Propose(p) \/ AskAgain(p) \/ RunBacktests(p) \/ EndSearch(p)
             \/ StartPromote(p) \/ CheckMove(p) \/ StartPreregister(p) \/ StartSealed(p) \/ ReadSealed(p) \/ Measure(p)
             \/ StartHandOff(p) \/ Abandon(p)
    BY <2>1 DEF StartResearch, StartOptionResearch, StartEvaluate, Propose, AskAgain, RunBacktests, EndSearch, StartPromote,
                CheckMove, StartPreregister, StartSealed, ReadSealed, Measure, StartHandOff, Abandon, ledger
  <2>2. CASE ProposalFails(p) \/ SkipDuplicate(p) \/ Record(p)
    BY <2>2 DEF ProposalFails, SkipDuplicate, Record, RecordExperiment
  <2>3. CASE RepairDeadRule(p) \/ RejectEarly(p) \/ Judge(p)
    <3>1. \E r : Upsert(r)
      BY <2>3 DEF RepairDeadRule, RejectEarly, Judge
    <3>2. \A r \in Rules : status[r] \in Terminal => status'[r] = status[r]
      BY <3>1, <2>t, <2>u DEF Upsert
    <3> QED BY <3>2, <2>3 DEF RepairDeadRule, RejectEarly, Judge, RecordExperiment
  <2>4. CASE SetStatus(p)
    <3>1. /\ status' = [status EXCEPT ![job[p].rule] = job[p].target] /\ stage[p] = "moving"
          /\ UNCHANGED <<sealed, experiments, declared, books>>
      BY <2>4 DEF SetStatus
    <3>2. job[p].target \in Transitions[job[p].from]
      BY <2>t, <3>1 DEF Sound
    <3>3. ASSUME NEW r \in Rules, status[r] \in Terminal, status'[r] # status[r]
          PROVE  job[p].rule = r /\ job[p].from # status[r]
      BY <3>1, <3>2, <3>3, <2>t DEF Terminal
    <3> QED BY <3>1, <3>3, <2>4
  <2>5. CASE Preregister(p)
    BY <2>5 DEF Preregister, Declare
  <2>6. CASE RecordSealedRun(p)
    <3>1. stage[p] = "spending" /\ UNCHANGED <<status, experiments, declared, books>>
      BY <2>6 DEF RecordSealedRun
    <3>2. ASSUME NEW r \in Rules, sealed[r].spent, sealed'[r] # sealed[r]
          PROVE  job[p].rule = r /\ job[p].overtaken = "spending"
      <4>1. job[p].rule = r
        BY <3>2, <2>6, <2>t DEF RecordSealedRun, Spend
      <4> QED BY <4>1, <3>1, <3>2, <2>t DEF Sound
    <3> QED BY <3>1, <3>2, <2>6
  <2>7. CASE RecordTargetBook(p)
    BY <2>7 DEF RecordTargetBook, RecordBook
  <2> QED BY <2>1, <2>2, <2>3, <2>4, <2>5, <2>6, <2>7 DEF Step
<1>2. Inv /\ [Next]_vars => [Stands]_vars
  BY <1>1
<1>3. Spec => [][Stands]_vars
  <2> HIDE DEF Stands
  <2> QED BY <1>2, Invariance, PTL DEF Spec
<1> QED BY <1>3 DEF HistoryStands

-----------------------------------------------------------------------------
(***************************************************************************)
(* The denominators.  A count a process still relies on covers what is     *)
(* recorded now: it was read by a search that is judged and not yet        *)
(* recorded, or by a sealed run, and every commit of another process       *)
(* voided it.                                                              *)
(***************************************************************************)
Campaigned(j) == j.cmd = "option-research" <=> j.campaign # NoCampaign

CountsOf(p) ==
  /\ Campaigned(job[p])
  /\ job[p].trials > 0 => stage[p] = "judged" /\ job[p].trials >= Prior(job[p]) + 1
  /\ stage[p] \in Sealing =>
       job[p].cmd \in SealedCommands /\ TakenBy(job[p].cmd, job[p].rule)
  /\ stage[p] \in {"counted", "spending"} =>
       (job[p].overtaken \in {"no", "cleared"} => job[p].looks >= LooksBefore(job[p].cmd) + 1)

CountInv == \A p \in Procs : CountsOf(p)

\* One more element is at most one more.
LEMMA OneMore ==
  ASSUME NEW S, NEW T, NEW e, IsFiniteSet(S), T \subseteq S \union {e}
  PROVE  IsFiniteSet(T) /\ Cardinality(T) <= Cardinality(S) + 1
<1>1. /\ IsFiniteSet(S \union {e})
      /\ Cardinality(S \union {e}) <= Cardinality(S) + 1
  <2>1. Cardinality(S) \in Nat
    BY FS_CardinalityType
  <2>2. /\ IsFiniteSet(S \union {e})
        /\ Cardinality(S \union {e}) = IF e \in S THEN Cardinality(S) ELSE Cardinality(S) + 1
    BY FS_AddElement
  <2> QED BY <2>1, <2>2
<1>2. Cardinality(S \union {e}) \in Nat
  BY <1>1, FS_CardinalityType
<1>3. Cardinality(T) \in Nat /\ Cardinality(T) <= Cardinality(S \union {e}) /\ IsFiniteSet(T)
  BY <1>1, FS_Subset, FS_CardinalityType
<1>4. Cardinality(S) \in Nat
  BY FS_CardinalityType
<1> QED BY <1>1, <1>2, <1>3, <1>4

\* What the counts are over is finite.
LEMMA CountedAreFinite ==
  ASSUME NEW family, NEW campaign, TypeOK
  PROVE  /\ IsFiniteSet({x.rule : x \in Scope(family, campaign)})
         /\ IsFiniteSet(SpentRules(family))
<1>1. IsFiniteSet(Rules \union {NoRule})
  BY LedgerAssumption, FS_Singleton, FS_Union
<1>2. {x.rule : x \in Scope(family, campaign)} \subseteq Rules \union {NoRule}
  BY DEF Scope, TypeOK, LedgerTypeOK, Row
<1>3. SpentRules(family) \subseteq Rules
  BY DEF SpentRules
<1> QED BY <1>1, <1>2, <1>3, LedgerAssumption, FS_Subset

\* A commit of another process voids what this one has counted.
LEMMA StaleIsVoid ==
  ASSUME NEW j \in Job, NEW s
  PROVE  /\ Stale(s, j).trials = 0 /\ Stale(s, j).looks = j.looks /\ Stale(s, j).cmd = j.cmd
         /\ Stale(s, j).rule = j.rule /\ Stale(s, j).campaign = j.campaign
         /\ s \in Sealing => Stale(s, j).overtaken = s
BY DEF Stale, Job, Sealing

\* The others keep their counts, or are voided, or the tables did not change.
LEMMA OthersKeepCounts ==
  ASSUME TypeOK, CountInv, NEW p \in Procs, NEW q \in Procs \ {p}, NEW s, NEW j,
         \/ Goto(p, s, j) /\ UNCHANGED <<experiments, sealed>>
         \/ GotoCommitted(p, s, j)
  PROVE  CountsOf(q)'
<1>t. stage \in [Procs -> Stages] /\ job \in [Procs -> Job] /\ job[q] \in Job
  BY DEF TypeOK
<1>i. CountsOf(q)
  BY DEF CountInv
<1>1. stage'[q] = stage[q]
  BY <1>t DEF Goto, GotoCommitted
<1>2. CASE Goto(p, s, j) /\ UNCHANGED <<experiments, sealed>>
  <2>1. job'[q] = job[q]
    BY <1>2, <1>t DEF Goto
  <2> QED BY <1>1, <1>2, <1>i, <2>1
          DEF CountsOf, Campaigned, Prior, DistinctHypotheses, Scope, LooksBefore, SealedLooks, SpentRules, TakenBy
<1>3. CASE GotoCommitted(p, s, j)
  <2>1. job'[q] = Stale(stage[q], job[q])
    BY <1>3, <1>t DEF GotoCommitted
  <2>2. /\ job'[q].trials = 0 /\ job'[q].looks = job[q].looks /\ job'[q].cmd = job[q].cmd
        /\ job'[q].rule = job[q].rule /\ job'[q].campaign = job[q].campaign
    BY <1>t, <2>1, StaleIsVoid
  <2>3. stage[q] \in Sealing => job'[q].overtaken = stage[q]
    BY <1>t, <2>1, StaleIsVoid
  <2>5. Campaigned(job[q])'
    BY <1>i, <2>2 DEF CountsOf, Campaigned
  <2>6. stage'[q] \in Sealing =>
          job'[q].cmd \in SealedCommands /\ TakenBy(job'[q].cmd, job'[q].rule)
    BY <1>1, <1>i, <2>2 DEF CountsOf
  <2>7. stage'[q] \in {"counted", "spending"} => job'[q].overtaken \notin {"no", "cleared"}
    BY <1>1, <2>3 DEF Sealing
  <2> QED BY <2>2, <2>5, <2>6, <2>7 DEF CountsOf, TakenBy
<1> QED BY <1>2, <1>3

\* A job that holds no count yet.
Fresh(s, j) == Campaigned(j) /\ j.trials = 0 /\ s \notin Sealing

LEMMA FreshKeepsCounts ==
  ASSUME TypeOK, CountInv, NEW p \in Procs, NEW s, NEW j, Fresh(s, j),
         \/ Goto(p, s, j) /\ UNCHANGED <<experiments, sealed>>
         \/ GotoCommitted(p, s, j)
  PROVE  CountInv'
<1>1. stage'[p] = s /\ job'[p] = j
  BY DEF Goto, GotoCommitted, TypeOK
<1>2. CountsOf(p)'
  BY <1>1 DEF CountsOf, Fresh, Campaigned, Sealing
<1> QED BY <1>2, OthersKeepCounts DEF CountInv

\* The jobs a step leaves behind hold none.
LEMMA JobsAreFresh ==
  /\ Campaigned(NoJob) /\ NoJob.trials = 0
  /\ \A j \in Job : Campaigned(j) => Campaigned(Rest(j)) /\ Rest(j).trials = 0
<1>1. Campaigned(NoJob) /\ NoJob.trials = 0 /\ NoJob \in Job
  BY JobsAreJobs DEF Campaigned, NoJob
<1>2. ASSUME NEW j \in Job, Campaigned(j)  PROVE Campaigned(Rest(j)) /\ Rest(j).trials = 0
  <2> DEFINE k == [NoJob EXCEPT !.cmd = j.cmd, !.run = j.run, !.exposed = j.exposed,
                                !.campaign = j.campaign]
  <2>1. k.cmd = j.cmd /\ k.campaign = j.campaign /\ k.trials = 0
    BY DEF NoJob
  <2>2. Rest(j) = k \/ Rest(j) = NoJob
    BY DEF Rest
  <2> QED BY <1>1, <1>2, <2>1, <2>2 DEF Campaigned
<1> QED BY <1>1, <1>2

\* Every step keeps the counts honest.
LEMMA StepKeepsCounts ==
  ASSUME TypeOK, CountInv, Next
  PROVE  CountInv'
<1> PICK p \in Procs : Step(p)
  BY DEF Next
<1>t. stage \in [Procs -> Stages] /\ job \in [Procs -> Job] /\ job[p] \in Job
  BY DEF TypeOK
<1>i. CountsOf(p) /\ Campaigned(job[p])
  BY DEF CountInv, CountsOf
<1>n. /\ job[p].trials \in Nat
      /\ stage[p] # "judged" => job[p].trials = 0
  BY <1>t, <1>i DEF CountsOf, Job
<1>f. /\ \A s \in Stages \ Sealing : Fresh(s, NoJob) /\ Fresh(s, Rest(job[p]))
      /\ Then(job[p]) \in {"idle", "proposing"}
      /\ {"idle", "proposing", "proposed", "running", "judged", "recorded", "declaring", "building",
          "moving"} = Stages \ Sealing
  BY <1>t, <1>i, JobsAreFresh, JobsAreJobs DEF Fresh, Sealing, Stages
<1>g. ASSUME NEW s \in Stages \ Sealing, NEW j,
             j.cmd = job[p].cmd, j.campaign = job[p].campaign, j.trials = job[p].trials,
             stage[p] # "judged",
             \/ Goto(p, s, j) /\ UNCHANGED <<experiments, sealed>>
             \/ GotoCommitted(p, s, j)
      PROVE  CountInv'
  BY <1>i, <1>n, <1>g, FreshKeepsCounts DEF Fresh, Campaigned
<1>1. CASE StartResearch(p) \/ StartOptionResearch(p) \/ StartEvaluate(p)
  <2>1. \E s \in Stages \ Sealing : \E j : Fresh(s, j) /\ Goto(p, s, j)
    <3>1. ASSUME NEW run, NEW read
          PROVE  Fresh("proposing", NewJob("research", run, read, NoCampaign))
      BY DEF Fresh, Campaigned, NewJob, NoJob, Sealing
    <3>2. ASSUME NEW run, NEW read, NEW campaign \in Campaigns
          PROVE  Fresh("proposing", NewJob("option-research", run, read, campaign))
      BY LedgerAssumption DEF Fresh, Campaigned, NewJob, NoJob, Sealing
    <3>3. ASSUME NEW run, NEW read, NEW r
          PROVE  Fresh("running", [NewJob("evaluate", run, read, NoCampaign) EXCEPT !.rule = r])
      BY DEF Fresh, Campaigned, NewJob, NoJob, Sealing
    <3>4. CASE StartResearch(p)
      BY <3>1, <3>4, <1>f DEF StartResearch
    <3>5. CASE StartOptionResearch(p)
      BY <3>2, <3>5, <1>f DEF StartOptionResearch
    <3>6. CASE StartEvaluate(p)
      BY <3>3, <3>6, <1>f DEF StartEvaluate
    <3> QED BY <1>1, <3>4, <3>5, <3>6
  <2>2. UNCHANGED <<experiments, sealed>>
    BY <1>1 DEF StartResearch, StartOptionResearch, StartEvaluate, ledger
  <2> QED BY <2>1, <2>2, FreshKeepsCounts
<1>2. CASE ProposalFails(p)
  BY <1>2, <1>f, <1>g DEF ProposalFails
<1>3. CASE Propose(p)
  <2>1. PICK r \in Rules : Goto(p, "proposed", [job[p] EXCEPT !.rule = r])
    BY <1>3 DEF Propose, RulesOf, Rules
  <2> QED BY <2>1, <1>3, <1>t, <1>f, <1>g DEF Propose, ledger, Job
<1>4. CASE RepairDeadRule(p)
  <2>1. PICK r \in Rules :
          GotoCommitted(p, "proposed", [job[p] EXCEPT !.rule = r, !.repaired = TRUE])
    BY <1>4 DEF RepairDeadRule, Rules
  <2> DEFINE k == [job[p] EXCEPT !.rule = r, !.repaired = TRUE]
  <2>2. k.cmd = job[p].cmd /\ k.campaign = job[p].campaign /\ k.trials = job[p].trials
    BY <1>t DEF Job
  <2>3. GotoCommitted(p, "proposed", k) /\ stage[p] # "judged"
    BY <2>1, <1>4 DEF RepairDeadRule
  <2> HIDE DEF k
  <2> QED BY <2>2, <2>3, <1>f, <1>g
<1>5. CASE SkipDuplicate(p)
  BY <1>5, <1>f, FreshKeepsCounts DEF SkipDuplicate
<1>6. CASE AskAgain(p)
  <2>1. CASE Goto(p, "proposing", Rest(job[p]))
    BY <2>1, <1>6, <1>f, FreshKeepsCounts DEF AskAgain, ledger
  <2>2. CASE \E r \in OptionRules : Goto(p, "running", [job[p] EXCEPT !.rule = r])
    <3>1. PICK r : Goto(p, "running", [job[p] EXCEPT !.rule = r])
      BY <2>2
    <3> DEFINE k == [job[p] EXCEPT !.rule = r]
    <3>2. k.cmd = job[p].cmd /\ k.campaign = job[p].campaign /\ k.trials = job[p].trials
      BY <1>t DEF Job
    <3>3. Goto(p, "running", k) /\ stage[p] # "judged" /\ UNCHANGED <<experiments, sealed>>
      BY <3>1, <1>6 DEF AskAgain, ledger
    <3> HIDE DEF k
    <3> QED BY <3>2, <3>3, <1>f, <1>g
  <2> QED BY <1>6, <2>1, <2>2 DEF AskAgain
<1>7. CASE RunBacktests(p)
  BY <1>7, <1>t, <1>f, <1>g DEF RunBacktests, ledger, Job
<1>8. CASE RejectEarly(p)
  <2>1. PICK dead \in BOOLEAN :
          Goto(p, "judged", [job[p] EXCEPT !.verdict = "REJECT", !.dead = dead])
    BY <1>8 DEF RejectEarly
  <2> DEFINE k == [job[p] EXCEPT !.verdict = "REJECT", !.dead = dead]
  <2>2. k.cmd = job[p].cmd /\ k.campaign = job[p].campaign /\ k.trials = job[p].trials
    BY <1>t DEF Job
  <2>3. /\ Goto(p, "judged", k) /\ UNCHANGED <<experiments, sealed>>
        /\ stage[p] # "judged"
    BY <2>1, <1>8 DEF RejectEarly
  <2> HIDE DEF k
  <2> QED BY <2>2, <2>3, <1>f, <1>g
<1>9. CASE Judge(p)
  <2>1. PICK v \in Verdicts :
          Goto(p, "judged", [job[p] EXCEPT !.verdict = v, !.trials = Prior(job[p]) + 1])
    BY <1>9 DEF Judge
  <2>2. UNCHANGED <<experiments, sealed>>
    BY <1>9 DEF Judge
  <2>3. /\ stage'[p] = "judged" /\ job'[p].cmd = job[p].cmd /\ job'[p].campaign = job[p].campaign
        /\ job'[p].trials = Prior(job[p]) + 1
    BY <2>1, <1>t DEF Goto, Job
  <2>4. Prior(job[p])' = Prior(job[p])
    BY <2>2, <2>3 DEF Prior, DistinctHypotheses, Scope
  <2>5. Prior(job[p]) \in Nat
    BY CountsAreNatural DEF Prior
  <2>6. CountsOf(p)'
    BY <2>3, <2>4, <2>5, <1>i DEF CountsOf, Campaigned, Sealing
  <2> QED BY <2>1, <2>2, <2>6, OthersKeepCounts DEF CountInv
<1>10. CASE Record(p)
  <2>1. CASE GotoCommitted(p, Then(job[p]), Rest(job[p]))
    BY <2>1, <1>f, FreshKeepsCounts
  <2>2. CASE \E rule, dead, target :
               GotoCommitted(p, "recorded", [Rest(job[p]) EXCEPT !.cmd = job[p].cmd, !.rule = rule,
                                               !.dead = dead, !.target = target])
    <3>1. Rest(job[p]) \in Job
      BY <1>t, JobsAreJobs
    <3>2. ASSUME NEW rule, NEW dead, NEW target
          PROVE  Fresh("recorded", [Rest(job[p]) EXCEPT !.cmd = job[p].cmd, !.rule = rule,
                                      !.dead = dead, !.target = target])
      <4>1. /\ job[p].cmd # "option-research" => Rest(job[p]).campaign = NoCampaign
            /\ job[p].cmd = "option-research" => Rest(job[p]).campaign = job[p].campaign
        <5> DEFINE k == [NoJob EXCEPT !.cmd = job[p].cmd, !.run = job[p].run,
                                      !.exposed = job[p].exposed, !.campaign = job[p].campaign]
        <5>1. k.campaign = job[p].campaign /\ NoJob.campaign = NoCampaign
          BY DEF NoJob
        <5>2. /\ job[p].cmd \in {"research", "option-research"} => Rest(job[p]) = k
              /\ job[p].cmd \notin {"research", "option-research"} => Rest(job[p]) = NoJob
          BY DEF Rest
        <5> HIDE DEF k
        <5> QED BY <5>1, <5>2, <1>i DEF Campaigned
      <4>2. Rest(job[p]).trials = 0
        BY <1>f, <1>i, <1>t, JobsAreFresh
      <4> QED BY <3>1, <4>1, <4>2, <1>i DEF Fresh, Campaigned, Job, Sealing
    <3> QED BY <2>2, <3>2, FreshKeepsCounts
  <2> QED BY <1>10, <2>1, <2>2 DEF Record
<1>11. CASE EndSearch(p) \/ Abandon(p) \/ Preregister(p)
  BY <1>11, <1>f, FreshKeepsCounts DEF EndSearch, Abandon, Preregister, Stop, ledger
<1>12. CASE StartPromote(p)
  <2>1. \A r, from, target :
          Fresh("moving", [NoJob EXCEPT !.cmd = "promote", !.rule = r, !.from = from, !.target = target])
    BY DEF Fresh, Campaigned, NoJob, Sealing
  <2>2. \E j : Fresh("moving", j) /\ Goto(p, "moving", j)
    BY <1>12, <2>1 DEF StartPromote
  <2> QED BY <1>12, <2>2, FreshKeepsCounts DEF StartPromote, ledger
<1>r. ASSUME Resume(p, job[p]), UNCHANGED <<experiments, sealed>>  PROVE CountInv'
  <2>1. CASE Goto(p, Then(job[p]), Rest(job[p]))
    BY <2>1, <1>r, <1>f, FreshKeepsCounts
  <2>2. CASE \E r \in Repairs(job[p]) :
               Goto(p, "running", [Rest(job[p]) EXCEPT !.rule = r, !.repaired = TRUE])
    <3>1. PICK r : Goto(p, "running", [Rest(job[p]) EXCEPT !.rule = r, !.repaired = TRUE])
      BY <2>2
    <3>2. Rest(job[p]) \in Job /\ Fresh("running", Rest(job[p]))
      BY <1>t, <1>f, JobsAreJobs
    <3>3. Fresh("running", [Rest(job[p]) EXCEPT !.rule = r, !.repaired = TRUE])
      BY <3>2 DEF Fresh, Campaigned, Job
    <3> QED BY <3>1, <3>3, <1>r, FreshKeepsCounts
  <2> QED BY <1>r, <2>1, <2>2 DEF Resume
<1>20. CASE CheckMove(p)
  <2>1. CASE Resume(p, job[p])
    BY <2>1, <1>20, <1>r DEF CheckMove, ledger
  <2>2. CASE ~Resume(p, job[p])
    <3>1. Goto(p, "moving", [job[p] EXCEPT !.from = status[job[p].rule]]) /\ stage[p] = "recorded"
      BY <2>2, <1>20 DEF CheckMove
    <3> DEFINE k == [job[p] EXCEPT !.from = status[job[p].rule]]
    <3>2. k.cmd = job[p].cmd /\ k.campaign = job[p].campaign /\ k.trials = job[p].trials
      BY <1>t DEF Job
    <3>3. Goto(p, "moving", k)
      BY <3>1
    <3> HIDE DEF k
    <3> QED BY <3>1, <3>2, <3>3, <1>20, <1>f, <1>g DEF CheckMove, ledger
  <2> QED BY <2>1, <2>2
<1>13. CASE SetStatus(p)
  BY <1>13, <1>r DEF SetStatus
<1>14. CASE StartPreregister(p) \/ StartHandOff(p)
  <2>1. ASSUME NEW cmd \in {"preregister", "hand-off"}, NEW r, NEW s \in {"declaring", "building"}
        PROVE  Fresh(s, [NoJob EXCEPT !.cmd = cmd, !.rule = r])
    BY DEF Fresh, Campaigned, NoJob, Sealing
  <2>2. \E s, j : Fresh(s, j) /\ Goto(p, s, j)
    <3>1. CASE StartPreregister(p)
      <4>1. PICK r : Goto(p, "declaring", [NoJob EXCEPT !.cmd = "preregister", !.rule = r])
        BY <3>1 DEF StartPreregister
      <4> QED BY <4>1, <2>1
    <3>2. CASE StartHandOff(p)
      <4>1. PICK r : Goto(p, "building", [NoJob EXCEPT !.cmd = "hand-off", !.rule = r])
        BY <3>2 DEF StartHandOff
      <4> QED BY <4>1, <2>1
    <3> QED BY <3>1, <3>2, <1>14
  <2>3. UNCHANGED <<experiments, sealed>>
    BY <1>14 DEF StartPreregister, StartHandOff, ledger
  <2> QED BY <2>2, <2>3, FreshKeepsCounts
<1>15. CASE StartSealed(p)
  <2>1. PICK cmd \in SealedCommands, r \in declared :
          /\ TakenBy(cmd, r)
          /\ \E u : Goto(p, "cleared", [NoJob EXCEPT !.cmd = cmd, !.rule = r, !.unrecorded = u])
    BY <1>15 DEF StartSealed
  <2>2. /\ stage'[p] = "cleared" /\ job'[p].cmd = cmd /\ job'[p].rule = r
        /\ job'[p].campaign = NoCampaign /\ job'[p].trials = 0
    BY <2>1, <1>t DEF Goto, NoJob
  <2>3. CountsOf(p)'
    BY <2>1, <2>2 DEF CountsOf, Campaigned, SealedCommands, TakenBy
  <2> QED BY <2>1, <2>3, <1>15, OthersKeepCounts DEF CountInv, StartSealed, ledger
<1>16. CASE ReadSealed(p)
  <2>1. PICK n : n = LooksBefore(job[p].cmd) + 1 /\ Goto(p, "counted", [job[p] EXCEPT !.looks = n])
    BY <1>16 DEF ReadSealed
  <2>2. n \in Nat /\ n > 0
    BY <2>1, CountsAreNatural DEF LooksBefore
  <2>3. UNCHANGED <<experiments, sealed>> /\ stage[p] = "cleared"
    BY <1>16 DEF ReadSealed, ledger
  <2>4. /\ stage'[p] = "counted" /\ job'[p].cmd = job[p].cmd /\ job'[p].rule = job[p].rule
        /\ job'[p].campaign = job[p].campaign /\ job'[p].trials = 0 /\ job'[p].looks = n
    BY <2>1, <2>3, <1>t, <1>n DEF Goto, Job
  <2>5. LooksBefore(job[p].cmd)' = LooksBefore(job[p].cmd)
    BY <2>3, <2>4 DEF LooksBefore, SealedLooks, SpentRules
  <2>6. CountsOf(p)'
    BY <2>1, <2>2, <2>3, <2>4, <2>5, <1>i DEF CountsOf, Campaigned, TakenBy, Sealing
  <2> QED BY <2>1, <2>3, <2>6, OthersKeepCounts DEF CountInv
<1>17. CASE Measure(p)
  <2>1. CASE Stop(p)
    BY <2>1, <1>17, <1>f, FreshKeepsCounts DEF Measure, Stop, ledger
  <2>2. CASE \E refuted \in BOOLEAN : Goto(p, "spending", [job[p] EXCEPT !.refuted = refuted])
    <3>1. PICK refuted : Goto(p, "spending", [job[p] EXCEPT !.refuted = refuted])
      BY <2>2
    <3>2. UNCHANGED <<experiments, sealed>> /\ stage[p] = "counted"
      BY <1>17 DEF Measure, ledger
    <3>3. /\ stage'[p] = "spending" /\ job'[p].cmd = job[p].cmd /\ job'[p].rule = job[p].rule
          /\ job'[p].campaign = job[p].campaign /\ job'[p].trials = 0
          /\ job'[p].looks = job[p].looks /\ job'[p].overtaken = job[p].overtaken
      BY <3>1, <3>2, <1>t, <1>n DEF Goto, Job
    <3>4. LooksBefore(job[p].cmd)' = LooksBefore(job[p].cmd)
      BY <3>2, <3>3 DEF LooksBefore, SealedLooks, SpentRules
    <3>5. CountsOf(p)'
      BY <3>2, <3>3, <3>4, <1>i DEF CountsOf, Campaigned, TakenBy, Sealing
    <3> QED BY <3>1, <3>2, <3>5, OthersKeepCounts DEF CountInv
  <2> QED BY <1>17, <2>1, <2>2 DEF Measure
<1>18. CASE RecordSealedRun(p)
  BY <1>18, <1>f, FreshKeepsCounts DEF RecordSealedRun
<1>19. CASE RecordTargetBook(p)
  BY <1>19, <1>f, FreshKeepsCounts DEF RecordTargetBook, Stop
<1> QED BY <1>1, <1>2, <1>3, <1>4, <1>5, <1>6, <1>7, <1>8, <1>9, <1>10, <1>11, <1>12, <1>13,
           <1>14, <1>15, <1>16, <1>17, <1>18, <1>19, <1>20 DEF Step

\* The row of a judged trial makes the tables one hypothesis longer at most.
LEMMA RecordedTrialsAreCovered ==
  ASSUME TypeOK, CountInv, NEW p \in Procs, Record(p), job[p].trials > 0,
         NEW c \in Campaigns \union {NoCampaign}, job[p].campaign = c
  PROVE  job[p].trials >= IF c = NoCampaign THEN DistinctHypotheses("equity", "any")'
                                            ELSE DistinctHypotheses("option", c)'
<1> DEFINE j == job[p]
           Was(f, k) == {x.rule : x \in Scope(f, k)}
           Is(f, k) == {x.rule : x \in Scope(f, k)'}
<1>1. j \in Job /\ j.trials \in Nat /\ j.campaign = c
  BY DEF TypeOK, Job
<1>2. Campaigned(j) /\ j.trials >= Prior(j) + 1
  BY DEF CountInv, CountsOf
<1>3. experiments' = experiments \union {Certified(j)} /\ Certified(j).rule = j.rule
  BY DEF Record, RecordExperiment, Certified
<1>4. \A k : /\ Is("equity", k) \subseteq Was("any", k) \union {j.rule}
             /\ Is("option", k) \subseteq Was("option", k) \union {j.rule}
  BY <1>3 DEF Scope
<1>5. \A f, k : IsFiniteSet(Was(f, k)) /\ Cardinality(Was(f, k)) \in Nat
  BY CountedAreFinite, FS_CardinalityType
<1>6. \A k : /\ Cardinality(Is("equity", k)) <= Cardinality(Was("any", k)) + 1
             /\ Cardinality(Is("option", k)) <= Cardinality(Was("option", k)) + 1
             /\ Cardinality(Is("equity", k)) \in Nat /\ Cardinality(Is("option", k)) \in Nat
  <2> SUFFICES ASSUME NEW k
               PROVE  /\ Cardinality(Is("equity", k)) <= Cardinality(Was("any", k)) + 1
                      /\ Cardinality(Is("option", k)) <= Cardinality(Was("option", k)) + 1
                      /\ Cardinality(Is("equity", k)) \in Nat
                      /\ Cardinality(Is("option", k)) \in Nat
    OBVIOUS
  <2> HIDE DEF Was, Is, j
  <2>1. /\ Is("equity", k) \subseteq Was("any", k) \union {j.rule} /\ IsFiniteSet(Was("any", k))
        /\ Is("option", k) \subseteq Was("option", k) \union {j.rule} /\ IsFiniteSet(Was("option", k))
    BY <1>4, <1>5
  <2> QED BY <2>1, OneMore, FS_CardinalityType
<1>7. /\ DistinctHypotheses("equity", "any")' = Cardinality(Is("equity", "any"))
      /\ DistinctHypotheses("option", c)' = Cardinality(Is("option", c))
      /\ DistinctHypotheses("any", "any") = Cardinality(Was("any", "any"))
      /\ DistinctHypotheses("option", c) = Cardinality(Was("option", c))
  BY DEF DistinctHypotheses
<1> HIDE DEF j, Was, Is
<1>8. CASE c = NoCampaign
  <2>1. Prior(j) = DistinctHypotheses("any", "any")
    BY <1>1, <1>2, <1>8 DEF Prior, Campaigned
  <2> QED BY <1>1, <1>2, <1>5, <1>6, <1>7, <1>8, <2>1 DEF j
<1>9. CASE c # NoCampaign
  <2>1. Prior(j) = DistinctHypotheses("option", c)
    BY <1>1, <1>2, <1>9 DEF Prior, Campaigned
  <2>2. /\ Cardinality(Is("option", c)) <= Cardinality(Was("option", c)) + 1
        /\ Cardinality(Is("option", c)) \in Nat /\ Cardinality(Was("option", c)) \in Nat
    BY <1>5, <1>6
  <2>3. j.trials >= DistinctHypotheses("option", c)'
    BY <1>1, <1>2, <1>7, <2>1, <2>2
  <2> QED BY <1>9, <2>3 DEF j
<1> QED BY <1>8, <1>9

\* A look that was counted in time is no less than its ordinal.
LEMMA RecordedLooksAreCovered ==
  ASSUME TypeOK, CountInv, NEW p \in Procs, RecordSealedRun(p), job[p].overtaken \in {"no", "cleared"},
         NEW r \in Rules, job[p].rule = r
  PROVE  job[p].looks >= SealedLook(r)'
<1> DEFINE cmd == job[p].cmd
           f == IF cmd = "option-run" THEN "option" ELSE "any"
           Was == SpentRules(f)
           Is == {q \in SpentRules(Family(r))' : sealed'[q].at <= sealed'[r].at}
<1>1. job[p] \in Job /\ job[p].looks \in Nat
  BY DEF TypeOK, Job
<1>2. TakenBy(cmd, r) /\ job[p].looks >= LooksBefore(cmd) + 1
  BY DEF CountInv, CountsOf, RecordSealedRun, Sealing
<1>3. LooksBefore(cmd) = Cardinality(Was)
  BY DEF LooksBefore, SealedLooks
<1>4. f = "any" \/ f = Family(r)
  BY <1>2 DEF TakenBy, Family
<1>5. \A q \in Rules : sealed'[q].spent => sealed[q].spent \/ q = r
  BY DEF RecordSealedRun, Spend, TypeOK, LedgerTypeOK
<1>6. Is \subseteq {q \in Rules : sealed'[q].spent /\ Family(q) = Family(r)}
  BY DEF SpentRules, Family
<1>7. Is \subseteq Was \union {r}
  BY <1>4, <1>5, <1>6 DEF SpentRules
<1>8. IsFiniteSet(Was) /\ Cardinality(Was) \in Nat
  BY CountedAreFinite, FS_CardinalityType
<1>9. Cardinality(Is) \in Nat /\ Cardinality(Is) <= Cardinality(Was) + 1
  BY <1>7, <1>8, OneMore, FS_CardinalityType
<1>10. SealedLook(r)' = Cardinality(Is)
  BY DEF SealedLook
<1> HIDE DEF Is, Was
<1> QED BY <1>1, <1>2, <1>3, <1>8, <1>9, <1>10

\* What a verdict and a sealed result were held to covers all that was recorded.
THEOREM CountsCover == Spec => CountsAreHonest
<1> DEFINE Honest ==
      \A p \in Procs :
        /\ \A c \in Campaigns \union {NoCampaign} :
             Record(p) /\ job[p].trials > 0 /\ job[p].campaign = c =>
               job[p].trials >= IF c = NoCampaign THEN DistinctHypotheses("equity", "any")'
                                                  ELSE DistinctHypotheses("option", c)'
        /\ \A r \in Rules :
             RecordSealedRun(p) /\ job[p].overtaken \in {"no", "cleared"} /\ job[p].rule = r =>
               job[p].looks >= SealedLook(r)'
<1>1. Init => CountInv
  <2> SUFFICES ASSUME Init, NEW p \in Procs  PROVE CountsOf(p)
    BY DEF CountInv
  <2>1. stage[p] = "idle" /\ job[p] = NoJob
    BY DEF Init
  <2> QED BY <2>1, JobsAreFresh DEF CountsOf, Sealing
<1>2. CountInv /\ UNCHANGED vars => CountInv'
  BY DEF vars, ledger, CountInv, CountsOf, Campaigned, Prior, DistinctHypotheses, Scope,
         LooksBefore, SealedLooks, SpentRules, TakenBy
<1>3. TypeOK /\ CountInv /\ [Next]_vars => CountInv'
  BY <1>2, StepKeepsCounts
<1>4. TypeOK /\ CountInv => Honest
  BY RecordedTrialsAreCovered, RecordedLooksAreCovered
<1>5. TypeOK /\ CountInv /\ [Next]_vars => [Honest]_vars
  BY <1>4
<1>6. Spec => [][Honest]_vars
  <2> HIDE DEF Honest
  <2> QED BY <1>1, <1>3, <1>5, TypeCorrect, PTL DEF Spec
<1> QED BY <1>6 DEF CountsAreHonest
=============================================================================
