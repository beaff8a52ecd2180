------------------------ MODULE OptionsSessionProps -------------------------
(***************************************************************************)
(* What makes the options agent correct, stated over OptionsSession.       *)
(***************************************************************************)
EXTENDS OptionsSession

MapsIds(f, R) == DOMAIN f \subseteq Ids /\ \A c \in DOMAIN f : f[c] \in R

AgentType ==
  [pc : {"off", "waiting", "exiting", "reconciling", "entered", "stopping"},
   slot : Slots \union {0}, errors : Nat, restarts : 0..MaxRestarts, latched : BOOLEAN]
MemoryType ==
  [todo : SUBSET Position, offset : Nat, open : Nat, capped : BOOLEAN,
   blocked : BOOLEAN, asked : SUBSET Ids, breached : BOOLEAN]

\* Every variable keeps its type; the restarts of a session stay within
\* MaxRestarts (cli.py, MAX_RESTARTS).
TypeOK ==
  /\ now \in 0..(Days * SlotsPerDay)
  /\ agent \in AgentType
  /\ memory \in MemoryType
  /\ MapsIds(unrecorded, Record)
  /\ MapsIds(journal, Record)
  /\ latch \in BOOLEAN
  /\ MapsIds(orders, Order)

(***************************************************************************)
(* The journal                                                             *)
(***************************************************************************)
\* A decision line is never lost or overwritten and a settled outcome never
\* revised, across crashes and restarts (writer.py's amendment discipline;
\* supervised_run: "the journal never grows a second decision for a slot").
DecisionsAreFinal ==
  [][\A c \in DOMAIN journal :
       /\ c \in DOMAIN journal'
       /\ journal'[c].stage = journal[c].stage
       /\ journal[c].outcome.status \in Terminal => journal'[c] = journal[c]]_vars

\* What the journal says of an order is so at the broker: a traded record has
\* an order, a settled one has it in that very shape (book.py claims broker
\* legs, and fills_on counts trades, on the strength of it).
JournalIsEvidence ==
  \A c \in DOMAIN journal :
    LET r == journal[c]
    IN  /\ r.stage \in {"submitted", "breached"} => AtBroker(c)
        /\ StageOf(r) = "filled" => c \in DOMAIN orders /\ orders[c].status = "filled"
        /\ r.outcome.status \in Terminal => r.outcome = ShapeOf(orders[c])

(***************************************************************************)
(* Orders                                                                  *)
(***************************************************************************)
Opened(c) == c \in DOMAIN orders' \ DOMAIN orders /\ orders'[c].intent = "open"

\* Once the kill switch is on disk no session sends an opening order, whoever
\* starts it and whatever died since (cli.py, _latch_if_breached).
NoOpenWhileLatched == [][latch => \A c \in Ids : ~Opened(c)]_vars

\* A journalled breach is the end of opening orders (specs/04 D5: "blocks new
\* opens until a human clears it").
BreachBlocksOpens ==
  [][(\E c \in DOMAIN journal : journal[c].stage = "breached") => \A c \in Ids : ~Opened(c)]_vars

\* The closes of s that have leg n, or may yet take it.
Closing(s, n) ==
  {c \in DOMAIN orders : /\ orders[c].intent = "close" /\ orders[c].structure = s
                         /\ orders[c].status \in Live \/ orders[c].legs >= n}

\* A close of s is journalled as breached: the session has stopped on it, and
\* what is left of the spread is reconciled by hand.
CloseBreached(s) ==
  \E c \in DOMAIN journal : /\ journal[c].intent = "close" /\ journal[c].structure = s
                            /\ journal[c].stage = "breached"

\* However the live closes turn out, no leg of a spread is closed more often
\* than it was opened: no mirror position (book.py, working_closes).  Of a
\* spread with a breached close that is promised of the leg it fills first,
\* because a breached close is no working one to the next slot.
ClosesNeverExceedOpens ==
  \A s \in Structures, n \in 1..2 :
    n = 1 \/ ~CloseBreached(s) => Cardinality(Closing(s, n)) <= Cardinality(Placed("open", s, n))

\* One entry a session, counting one that still works: two opening orders of a
\* day are at the broker only if it rejected one (book.py, last_entry_day).
OneEntryPerSession ==
  \A c, d \in DOMAIN orders :
    (/\ {orders[c].intent, orders[d].intent} = {"open"}
     /\ Day(c[1]) = Day(d[1])
     /\ {orders[c].status, orders[d].status} \intersect {"rejected", "flying"} = {}) => c = d

(***************************************************************************)
(* Refinement                                                              *)
(***************************************************************************)
WhatIsWritten(c) ==
  IF c \notin DOMAIN journal THEN "nothing"
  ELSE IF StageOf(journal[c]) = "filled" \/ journal[c].outcome.status \in Terminal THEN "settled"
  ELSE IF journal[c].stage \in {"submitted", "breached"} THEN "sent" ELSE "made"

WhatIsTrue(c) ==
  IF ~AtBroker(c) THEN "absent" ELSE IF orders[c].status \in Terminal THEN "settled" ELSE "live"

Log == INSTANCE DecisionLog WITH
  written <- [c \in Ids |-> WhatIsWritten(c)],
  truth <- [c \in Ids |-> WhatIsTrue(c)],
  opening <- {c \in DOMAIN orders : orders[c].intent = "open"},
  tripped <- latch

\* The agent, with every fault at once, implements the decision log.
KeepsLog == Log!LogSpec

(***************************************************************************)
(* Liveness                                                                *)
(***************************************************************************)
\* A session that starts comes to an end (supervised_run returns).
SessionConcludes == agent.pc # "off" ~> agent.pc = "off"

=============================================================================
