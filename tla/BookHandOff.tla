---------------------------- MODULE BookHandOff -----------------------------
(***************************************************************************)
(* How a validated rule gets from the research to the account, as a file:  *)
(* target-book and option-book (cli.py, target_book.py, option_book.py of  *)
(* the researcher) write one a session of data, stage by stage of          *)
(* scripts/pipeline.py or typed by hand; the equity agent reads the latest *)
(* at every pass, the options agent once at the start of a session.  One   *)
(* rule, of one family, under one fingerprint; what a book weighs is left  *)
(* out, and a file is written in place.                                    *)
(***************************************************************************)
EXTENDS Integers, FiniteSets

CONSTANTS
  Names,        \* what the rule was ever called
  RegistryName, \* what the registry calls it, one of Names
  Precedes,     \* Precedes[m]: the names that come before m in a listing
  RuleShapes,   \* the option rules there may be
  Writers,      \* the hand-offs under way at once: a pipeline's, and any typed by hand
  LastDay,      \* bound: the days
  MaxBookAge,   \* max_book_age_days
  NoBook        \* no book

DataDay == 1 .. LastDay

ASSUME HandOffAssumption ==
  /\ RegistryName \in Names /\ IsFiniteSet(Names)
  /\ \A m, n \in Names : m = n \/ m \in Precedes[n] \/ n \in Precedes[m]
  /\ \A m, n \in Names : m \in Precedes[n] => m # n
  /\ \A l, m, n \in Names : l \in Precedes[m] /\ m \in Precedes[n] => l \in Precedes[n]
  /\ LastDay \in Nat \ {0} /\ MaxBookAge \in Nat
  /\ NoBook \notin [asOf : DataDay, on : DataDay] \union [asOf : DataDay, earned : BOOLEAN, unrefuted : BOOLEAN]

VARIABLES
  family, shape,   \* "equity" or "option", and what an option rule is
  day, reach,      \* today, and the last day of the data
  status, seal,    \* strategies.status; the sealed run: "unspent", "clean", "refuted"
  files,           \* the directory of books
  writer,          \* what each hand-off is at
  loaded,          \* the book of the options session at work
  executed,        \* history: the last book an account traded on, and the day
  tradeable        \* history: the last day the status was tradeable, 0 for none

\* Of the registry: a rule's life, on one rule.
Rule == "rule"
L == INSTANCE TrialLedger WITH
       EquityRules <- {Rule}, OptionRules <- {}, NoRule <- NoBook, Runs <- {}, NoRun <- NoBook,
       Campaigns <- {}, NoCampaign <- NoBook, status <- status, sealed <- seal,
       experiments <- {}, declared <- {}, books <- {}

\* What a file says of its rule: the session it is of, and whether the registry
\* had it in a tradeable status and unrefuted when the command began.
HandedBook == [asOf : DataDay, earned : BOOLEAN, unrefuted : BOOLEAN]
Torn == [torn |-> TRUE]
BookFiles == Names \X DataDay

hvars == <<family, shape, day, reach, status, seal, files, writer, loaded, executed, tradeable>>

Resting == [at |-> "idle"]

\* TRADEABLE_STATUS, of both agents.
TradeableStatus == {"PAPER", "LIVE"}

Seen(s, d) == IF s \in TradeableStatus THEN d ELSE tradeable

HandOffInit ==
  /\ \/ family = "equity" /\ shape = NoBook
     \/ family = "option" /\ shape \in RuleShapes
  /\ day = 1 /\ reach = 1
  /\ status = "CANDIDATE" /\ seal = "unspent"
  /\ files = [f \in {} |-> NoBook]
  /\ writer = [w \in Writers |-> Resting]
  /\ loaded = NoBook /\ executed = NoBook /\ tradeable = 0

-----------------------------------------------------------------------------
(* The research.                                                           *)

\* The pull of stage_refresh, with --force: up to the day it was asked for,
\* or as far as the vendor goes.
Refresh ==
  /\ \E d \in 1 .. day : reach' = d
  /\ UNCHANGED <<family, shape, day, status, seal, files, writer, loaded, executed, tradeable>>

\* record_sealed_run, in one step as well: once.
SpendSeal ==
  /\ seal = "unspent"
  /\ seal' \in {"clean", "refuted"}
  /\ UNCHANGED <<family, shape, day, reach, status, files, writer, loaded, executed, tradeable>>

\* set_status, with its check; ResearchLoop has the two apart.
SetStatus ==
  /\ \E s \in L!Transitions[status] : status' = s /\ tradeable' = Seen(s, day)
  /\ UNCHANGED <<family, shape, day, reach, seal, files, writer, loaded, executed>>

-----------------------------------------------------------------------------
(* The hand-off.                                                           *)

\* _spec_for_handoff: a path gives a book the name the file has; a
\* fingerprint, and option-book takes nothing else, the registry's.
NameOf(kind) == IF kind = "equity" THEN Names ELSE {RegistryName}

\* The refusals of target_book_cmd and option_book_cmd.
MayWrite == seal = "clean"

Goto(w, what) == writer' = [writer EXCEPT ![w] = what]

\* The registry is read at once, and the data loaded after it.
StartHandOff(w) ==
  /\ writer[w] = Resting /\ MayWrite
  /\ \E name \in NameOf(family) :
       Goto(w, [at |-> "building", name |-> name,
                earned |-> status \in TradeableStatus, unrefuted |-> seal # "refuted"])
  /\ UNCHANGED <<family, shape, day, reach, status, seal, files, loaded, executed, tradeable>>

\* The session a book is of: the last the data has, up to --end.
AsOf(end) == IF reach < end THEN reach ELSE end

Holds(file, what) ==
  files' = [f \in DOMAIN files \union {file} |-> IF f = file THEN what ELSE files[f]]

\* The rule is run over the data, and the file opened: it is empty now.
Built(w, end) ==
  LET file == <<writer[w].name, AsOf(end)>>
  IN  /\ writer[w].at = "building"
      /\ Holds(file, Torn)
      /\ Goto(w, [at |-> "writing", file |-> file,
                  book |-> [asOf |-> AsOf(end), earned |-> writer[w].earned,
                            unrefuted |-> writer[w].unrefuted]])
      /\ UNCHANGED <<family, shape, day, reach, status, seal, loaded, executed, tradeable>>

BuildTarget(w) == family = "equity" /\ \E end \in 1 .. day : Built(w, end)

\* option-book has no --end: it is of all the chain there is.
BuildOption(w) == family = "option" /\ Built(w, day)

\* write_book, write_option_book.  The row in the registry comes after it.
Write(w) ==
  /\ writer[w].at = "writing"
  /\ Holds(writer[w].file, writer[w].book)
  /\ Goto(w, Resting)
  /\ UNCHANGED <<family, shape, day, reach, status, seal, loaded, executed, tradeable>>

\* The process is killed, or refuses: no data, a rule that never filled.
Abandon(w) ==
  /\ writer[w] # Resting
  /\ Goto(w, Resting)
  /\ UNCHANGED <<family, shape, day, reach, status, seal, files, loaded, executed, tradeable>>

-----------------------------------------------------------------------------
(* The accounts.                                                           *)

\* find_latest_book: the last file by its name, which begins with the rule's.
Latest ==
  CHOOSE f \in DOMAIN files : \A g \in DOMAIN files \ {f} :
    g[1] \in Precedes[f[1]] \/ (g[1] = f[1] /\ g[2] < f[2])

\* Mutant: the hand-off has looked at the status.
UsableUnlooked(b) == b # Torn /\ b.unrefuted

\* load_target_book, and load_option_book of what is not the rule.
Usable(b) == b # Torn /\ b.earned /\ b.unrefuted

\* What an account trades on: the book of the latest file, when it is usable.
Readable == DOMAIN files # {} /\ Usable(files[Latest])

\* The rules _rule and _entry take whole: a defined risk whose width is a
\* delta, on clauses of features this account measures, no larger than the
\* share a run was sized by.
TakenWhole(r) ==
  /\ r.structure \in {"put_credit_spread", "call_credit_spread", "iron_condor"}
  /\ ~r.points /\ r.entry = "clauses" /\ r.share = "small"

\* right_for_structure: half of a condor is not built.
IsVertical(r) == r.structure \in {"put_credit_spread", "call_credit_spread"}

\* read_book and the age, in run_equity_cycle: a torn or an unusable file is
\* no book, one older than MaxBookAge is stale, and no other file is looked for.
EquityPass ==
  /\ family = "equity" /\ Readable
  /\ day - files[Latest].asOf <= MaxBookAge
  /\ executed' = [asOf |-> files[Latest].asOf, on |-> day]
  /\ UNCHANGED <<family, shape, day, reach, status, seal, files, writer, loaded, tradeable>>

\* _context: the options session loads its book, or refuses to start.
StartOptions ==
  /\ family = "option" /\ loaded = NoBook /\ Readable
  /\ TakenWhole(shape) /\ IsVertical(shape)
  /\ loaded' = files[Latest]
  /\ UNCHANGED <<family, shape, day, reach, status, seal, files, writer, executed, tradeable>>

\* A slot of it enters by that book, whatever was written since.
OptionsSlot ==
  /\ loaded # NoBook
  /\ executed' = [asOf |-> loaded.asOf, on |-> day]
  /\ UNCHANGED <<family, shape, day, reach, status, seal, files, writer, loaded, tradeable>>

\* The day ends with its session; a hand-off takes minutes of it.
NextDay ==
  /\ day < LastDay /\ \A w \in Writers : writer[w] = Resting
  /\ day' = day + 1 /\ tradeable' = Seen(status, day + 1)
  /\ loaded' = NoBook
  /\ UNCHANGED <<family, shape, reach, status, seal, files, writer, executed>>

HandOffNext ==
  \/ Refresh \/ SpendSeal \/ SetStatus
  \/ \E w \in Writers : StartHandOff(w) \/ BuildTarget(w) \/ BuildOption(w) \/ Write(w) \/ Abandon(w)
  \/ EquityPass \/ StartOptions \/ OptionsSlot
  \/ NextDay

HandOffSpec == HandOffInit /\ [][HandOffNext]_hvars

-----------------------------------------------------------------------------
HandOffTypeOK ==
  /\ day \in DataDay /\ reach \in DataDay /\ tradeable \in 0 .. LastDay
  /\ status \in L!Statuses /\ seal \in {"unspent", "clean", "refuted"}
  /\ DOMAIN files \subseteq BookFiles /\ \A f \in DOMAIN files : files[f] \in HandedBook \union {Torn}
  /\ loaded \in HandedBook \union {NoBook} /\ executed \in [asOf : DataDay, on : DataDay] \union {NoBook}

(***************************************************************************)
(* No account is moved back to the weights of a session before the one it  *)
(* last traded on, though an older book be written after, the data of the  *)
(* next be shorter, or a newer book be torn.                               *)
(***************************************************************************)
MovesForward == family = "equity" /\ executed # NoBook => executed'.asOf >= executed.asOf

(***************************************************************************)
(* live/equity.py, find_latest_book: "the lexicographic maximum is the     *)
(* latest session".                                                        *)
(***************************************************************************)
LatestIsNewest == \A f \in DOMAIN files : f[2] <= Latest[2]

(***************************************************************************)
(* A demotion is a status in a database no account reads: it reaches them  *)
(* through the books, or through their age.  A rule is traded on only when *)
(* its sealed run was clean and a command read a tradeable status, for the *)
(* equity account within the age of a book, though the status be read      *)
(* before a demotion and the book written after it; and an option rule     *)
(* only when the account can execute all of it.                            *)
(***************************************************************************)
IsEarned ==
  executed' # executed =>
    /\ seal = "clean" /\ tradeable > 0
    /\ family = "equity" => tradeable >= day - MaxBookAge
    /\ family = "option" => TakenWhole(shape) /\ IsVertical(shape)

DemotionReachesTheAccount == [][IsEarned]_executed

\* Both, of a rule that is called one name.
HandOffsAreHonoured == [][MovesForward /\ IsEarned]_executed
=============================================================================
