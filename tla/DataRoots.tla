----------------------------- MODULE DataRoots ------------------------------
(***************************************************************************)
(* The caches research reads and the seal that watches it read them:       *)
(* seal.py, data/embargo.py, data/option_embargo.py, data/options_chain.py *)
(* and the commands pull, options-pull, options-embargo (cli.py), pull and *)
(* backfill (cli_sealed.py).  One symbol of bars and one of option chains; *)
(* a row is its day.  A write truncates its file and then fills it, so a   *)
(* process that dies in one leaves a part of it.                           *)
(***************************************************************************)
EXTENDS Integers, FiniteSets

CONSTANTS
  Procs,
  LastDay,   \* bound: the days the vendor ever serves, 1 .. LastDay
  Embargo,   \* EMBARGO_START: the first reserved day, in 1 .. LastDay
  MayDie     \* whether a process may die inside a write

ASSUME RootsAssumption ==
  /\ LastDay \in Nat /\ Embargo \in 1 .. LastDay
  /\ MayDie \in BOOLEAN

Day == 1 .. LastDay
Reserved == Embargo .. LastDay
Roots == {"research", "sealed"}
Absent == {0}   \* no file
Files == (SUBSET Day) \union {Absent}

\* The rows of a file, none when there is no file.
RowsOf(file) == file \ Absent

\* What a command that must make two writes holds between them.
Stages == {"ready", "pulled", "truncated", "split"}

\* Seal: phase, _tainted, and whether _loads or _max_event_time was ever set.
\* read and searched are history: the days read, and whether any was read
\* before the promotion.
Seal == [phase : {"research", "sealed"}, tainted : BOOLEAN, touched : BOOLEAN,
         read : SUBSET Day, searched : BOOLEAN]

FreshSeal == [phase |-> "research", tainted |-> FALSE, touched |-> FALSE,
              read |-> {}, searched |-> FALSE]

VARIABLES
  today,          \* what the vendor serves: days 1 .. today
  prices,         \* data-sp500 and data-sp500-sealed
  raw,            \* data-options/_raw, the vendor's file
  chain,          \* data-options and data-options-sealed
  canary,         \* whether the tripwire is armed in data-options
  seal,           \* the ambient seal of each process
  stage, inHand   \* where a process is in its command, and the rows it holds

vars == <<today, prices, raw, chain, canary, seal, stage, inHand>>

files == <<prices, raw, chain, canary>>
process == <<seal, stage, inHand>>

Init ==
  /\ today \in Day
  /\ prices = [r \in Roots |-> Absent]
  /\ raw = Absent
  /\ chain = [r \in Roots |-> Absent]
  /\ canary = FALSE
  /\ seal = [p \in Procs |-> FreshSeal]
  /\ stage = [p \in Procs |-> "ready"]
  /\ inHand = [p \in Procs |-> {}]

-----------------------------------------------------------------------------
(* The seal.                                                               *)

\* Mutant: a load is written down and not looked at.
ObserveOnlyLoads(s, rows) ==
  [s EXCEPT !.touched = TRUE, !.read = @ \union rows,
            !.searched = @ \/ (s.phase = "research" /\ rows # {})]

\* Seal.observe and Seal.record_load: rows past the embargo taint research.
Observe(s, rows) ==
  [s EXCEPT !.touched = @ \/ rows # {},
            !.tainted = @ \/ (s.phase = "research" /\ rows \intersect Reserved # {}),
            !.read = @ \union rows,
            !.searched = @ \/ (s.phase = "research" /\ rows # {})]

\* The refusals of enter_sealed.
MayPromote(s) == s.phase = "research" /\ ~s.touched /\ ~s.tainted

\* Seal.certificate, as far as a reader of the ledger trusts it.
CertifiesClean(s) == s.phase = "research" /\ ~s.tainted

-----------------------------------------------------------------------------
(* Files.                                                                  *)

\* What a write may leave: all of it, or the first rows of it.
WriteLeaves(rows) ==
  IF MayDie THEN {{d \in rows : d <= k} : k \in 0 .. LastDay} ELSE {rows}

\* The process goes on, or dies in the write and takes its seal with it.
Write(p, rows, file, next) ==
  \/ /\ file = rows
     /\ stage' = [stage EXCEPT ![p] = next]
     /\ UNCHANGED <<seal, inHand>>
  \/ /\ MayDie
     /\ stage' = [stage EXCEPT ![p] = "ready"]
     /\ seal' = [seal EXCEPT ![p] = FreshSeal]
     /\ inHand' = [inHand EXCEPT ![p] = {}]

\* ResearchProvider.load: a request that overruns the embargo is cut there.
Clamped(end) == IF end < Embargo THEN end ELSE Embargo

\* A provider serves the days in [start, end).
Served(start, end) == {d \in 1 .. today : start <= d /\ d < end}

-----------------------------------------------------------------------------
(* Bars.                                                                   *)

\* aqr pull: in the research phase, through the clamp, onto a file that is not
\* there or, with --force, on any.
Pull(p) ==
  /\ stage[p] = "ready" /\ seal[p] = FreshSeal
  /\ \E start, end \in 1 .. LastDay + 1 :
       LET rows == Served(start, Clamped(end)) IN
       /\ rows # {}
       /\ \E file \in WriteLeaves(rows) :
            /\ Write(p, rows, file, "ready")
            /\ prices' = [prices EXCEPT !["research"] = file]
  /\ UNCHANGED <<today, raw, chain, canary>>

\* cli_sealed pull: promoted, and not clamped.
SealedPull(p) ==
  /\ stage[p] = "ready" /\ seal[p].phase = "sealed"
  /\ \E start, end \in 1 .. LastDay + 1 :
       LET rows == Served(start, end) IN
       /\ rows # {}
       /\ \E file \in WriteLeaves(rows) :
            /\ Write(p, rows, file, "ready")
            /\ prices' = [prices EXCEPT !["sealed"] = file]
  /\ UNCHANGED <<today, raw, chain, canary>>

\* The first session of a sealed file; the embargo when it has none.
FirstSealed(file) ==
  IF file = {} THEN Embargo ELSE CHOOSE d \in file : \A e \in file : d <= e

\* The rows backfill copies.
Prefix(from) == {d \in RowsOf(prices["research"]) : from <= d /\ d < FirstSealed(prices["sealed"])}

\* cli_sealed backfill: not promoted, and it builds no Bars.
Backfill(p) ==
  /\ stage[p] = "ready" /\ Absent \notin {prices["research"], prices["sealed"]}
  /\ \E from \in Day :
       LET rows == Prefix(from) \union prices["sealed"] IN
       /\ Prefix(from) # {}
       /\ \E file \in WriteLeaves(rows) :
            /\ Write(p, rows, file, "ready")
            /\ prices' = [prices EXCEPT !["sealed"] = file]
  /\ UNCHANGED <<today, raw, chain, canary>>

-----------------------------------------------------------------------------
(* Option chains.                                                          *)

\* download_table: a .part file, renamed when it is whole.
Transfer(rows) == IF MayDie THEN {rows, raw} ELSE {rows}

\* options-pull downloads, or reuses the vendor's file.
Download(p) ==
  /\ stage[p] = "ready" /\ seal[p] = FreshSeal
  /\ \/ \E file \in Transfer(1 .. today) :
          /\ raw' = file
          /\ stage' = IF file = 1 .. today THEN [stage EXCEPT ![p] = "pulled"] ELSE stage
     \/ raw # Absent /\ raw' = raw /\ stage' = [stage EXCEPT ![p] = "pulled"]
  /\ UNCHANGED <<today, prices, chain, canary, seal, inHand>>

\* split_table: every day of it, into the research root.
SplitTable(p) ==
  /\ stage[p] = "pulled"
  /\ \E file \in WriteLeaves(raw) :
       /\ Write(p, raw, file, "ready")
       /\ chain' = [chain EXCEPT !["research"] = file]
  /\ UNCHANGED <<today, prices, raw, canary>>

\* options-embargo prefers the sealed copy.
Source == IF chain["sealed"] # Absent THEN chain["sealed"] ELSE chain["research"]

\* split_at_embargo reads its source, then writes the truncated root ...
TruncateResearch(p) ==
  /\ stage[p] = "ready" /\ seal[p] = FreshSeal /\ Source # Absent
  /\ \E file \in WriteLeaves(Source \ Reserved) :
       /\ \/ /\ file = Source \ Reserved
             /\ stage' = [stage EXCEPT ![p] = "truncated"]
             /\ inHand' = [inHand EXCEPT ![p] = Source]
          \/ UNCHANGED <<stage, inHand>>
       /\ chain' = [chain EXCEPT !["research"] = file]
  /\ UNCHANGED <<today, prices, raw, canary, seal>>

\* ... and the full one ...
KeepSealed(p) ==
  /\ stage[p] = "truncated"
  /\ \E file \in WriteLeaves(inHand[p]) :
       /\ Write(p, inHand[p], file, "split")
       /\ chain' = [chain EXCEPT !["sealed"] = file]
  /\ UNCHANGED <<today, prices, raw, canary>>

\* ... and the canary is armed.
ArmCanary(p) ==
  /\ stage[p] = "split"
  /\ canary' = TRUE
  /\ stage' = [stage EXCEPT ![p] = "ready"]
  /\ inHand' = [inHand EXCEPT ![p] = {}]
  /\ UNCHANGED <<today, prices, raw, chain, seal>>

-----------------------------------------------------------------------------
(* What a search and a sealed run read.  A root may be named on the command*)
(* line, so a search may be pointed at the sealed one.                     *)

\* _load: the rows of a window.
Window(file, start, end) == {d \in RowsOf(file) : start <= d /\ d < end}

\* CsvProvider.load.
ReadBars(p) ==
  /\ stage[p] = "ready"
  /\ \E root \in Roots, start, end \in 1 .. LastDay + 1 :
       LET rows == Window(prices[root], start, end) IN
       rows # {} /\ seal' = [seal EXCEPT ![p] = Observe(@, rows)]
  /\ UNCHANGED <<files, today, stage, inHand>>

\* load_research: the whole file, of whatever root it was given.
ReadChain(p) ==
  /\ stage[p] = "ready"
  /\ \E root \in Roots :
       /\ chain[root] # Absent
       /\ seal' = [seal EXCEPT ![p] = Observe(@, chain[root])]
  /\ UNCHANGED <<files, today, stage, inHand>>

\* The canary is a symbol only a peek can load: its rows are not looked at.
ReadCanary(p) ==
  /\ stage[p] = "ready" /\ canary
  /\ seal' = [seal EXCEPT ![p].tainted = @ \/ seal[p].phase = "research"]
  /\ UNCHANGED <<files, today, stage, inHand>>

\* enter_sealed_phase.
Promote(p) ==
  /\ stage[p] = "ready" /\ MayPromote(seal[p])
  /\ seal' = [seal EXCEPT ![p].phase = "sealed"]
  /\ UNCHANGED <<files, today, stage, inHand>>

\* SealedProvider.load and load_sealed.
ReadSealed(p) ==
  /\ stage[p] = "ready" /\ seal[p].phase = "sealed"
  /\ \E file \in {prices["sealed"], chain["sealed"]} \ {Absent} :
       seal' = [seal EXCEPT ![p] = Observe(@, file)]
  /\ UNCHANGED <<files, today, stage, inHand>>

\* The process ends or is killed between two writes.
Exit(p) ==
  /\ seal' = [seal EXCEPT ![p] = FreshSeal]
  /\ stage' = [stage EXCEPT ![p] = "ready"]
  /\ inHand' = [inHand EXCEPT ![p] = {}]
  /\ UNCHANGED <<files, today>>

\* The vendor serves another day.
DayPasses ==
  /\ today < LastDay
  /\ today' = today + 1
  /\ UNCHANGED <<files, process>>

Step(p) ==
  \/ Pull(p) \/ SealedPull(p) \/ Backfill(p)
  \/ Download(p) \/ SplitTable(p) \/ TruncateResearch(p) \/ KeepSealed(p) \/ ArmCanary(p)
  \/ ReadBars(p) \/ ReadChain(p) \/ ReadCanary(p) \/ Promote(p) \/ ReadSealed(p)
  \/ Exit(p)

Next == DayPasses \/ \E p \in Procs : Step(p)

Spec == Init /\ [][Next]_vars

-----------------------------------------------------------------------------
TypeOK ==
  /\ today \in Day
  /\ prices \in [Roots -> Files] /\ chain \in [Roots -> Files] /\ raw \in Files
  /\ canary \in BOOLEAN
  /\ seal \in [Procs -> Seal]
  /\ stage \in [Procs -> Stages]
  /\ inHand \in [Procs -> SUBSET Day]

(***************************************************************************)
(* A certificate tells the truth: a research process that says it is clean *)
(* has read no reserved row, from whatever root it was pointed at and in   *)
(* whatever order, and a sealed process had read nothing when it was       *)
(* promoted.                                                               *)
(***************************************************************************)
CertificatesAreTrue ==
  \A p \in Procs :
    /\ CertifiesClean(seal[p]) => seal[p].read \intersect Reserved = {}
    /\ seal[p].phase = "sealed" => ~seal[p].searched /\ ~seal[p].tainted

(***************************************************************************)
(* No death of a process loses what cannot be fetched again, and no pull   *)
(* puts a reserved bar where a search looks: the vendor's file is whole,   *)
(* every split row is still in it, and the research root of bars ends      *)
(* before the embargo.                                                     *)
(***************************************************************************)
RootsAreSafe ==
  /\ raw # Absent => \E k \in Day : raw = 1 .. k
  /\ \A r \in Roots : RowsOf(chain[r]) \subseteq RowsOf(raw)
  /\ prices["research"] \intersect Reserved = {}

\* Both: research is sealed off, and what it is given is kept.
RootsAreKept == CertificatesAreTrue /\ RootsAreSafe
=============================================================================
