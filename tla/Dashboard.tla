------------------------------ MODULE Dashboard ------------------------------
(***************************************************************************)
(* What the page says of two running agents, from the two files they leave *)
(* (live/status.py, live/equity_status.py, interface/).  The options agent *)
(* publishes when a session starts and once in every slot; the equity      *)
(* agent on every beat.  The page holds no session with the broker: whether *)
(* an agent runs, what each sleeve is worth and how far one has fallen is  *)
(* all read back from files that are as old as they are.                   *)
(*                                                                         *)
(* Money is in units, time in ticks.  A closed option's profit is in no    *)
(* sleeve of the options agent, for nobody writes outcome.realised_pl.     *)
(***************************************************************************)
EXTENDS Integers, FiniteSets, FiniteSetsExt, Functions

CONSTANTS
  Positions,          \* the option positions there may be
  Slots,              \* the ticks of the session's slots
  LastTick,
  OptionsStale,       \* ticks after which the options page is "not running"
  EquityStale,        \* the same of the equity page
  OptionsAllocation, EquityAllocation,
  MaxMoves,           \* bound: changes of the market
  MaxDeaths,          \* bound: sessions that die
  Nothing

Files == {"options", "equity"}

\* What is on the disk of either: see OptionsSnapshot and EquitySnapshot.
Marks == UNION {[held -> Int] : held \in SUBSET Positions}
OptionsPage == [asOf : Nat, unpriced : SUBSET Positions, positions : Marks]
EquityPage == [asOf : Nat, equity : Int, fall : Int]

ASSUME PageAssumption ==
  /\ IsFiniteSet(Positions) /\ Slots \subseteq Nat /\ LastTick \in Nat
  /\ OptionsStale \in Nat /\ EquityStale \in Nat /\ OptionsAllocation \in Nat /\ EquityAllocation \in Nat
  /\ Nothing \notin Int \union OptionsPage \union EquityPage

VARIABLES
  clock,
  market,             \* [marks: position :> its open profit, stock, closed, moves]
  sessions,           \* file :> [phase, since, untold]; untold: the last thing it set out
                      \* to publish it could not, or it has yet to set out
  snapshots,          \* file :> what is there to read
  peak,               \* the equity sleeve's high-water mark
  current,            \* the pages written since the market last moved
  sessionDeaths

dvars == <<clock, market, sessions, snapshots, peak, current, sessionDeaths>>

LargerOf(a, b) == IF a > b THEN a ELSE b

MarksOf(marks) == SumFunctionOnSet(marks, DOMAIN marks)

Closed(at) == [phase |-> "down", since |-> at, untold |-> FALSE]

PageInit ==
  /\ clock = 0
  /\ market = [marks |-> [p \in {} |-> 0], stock |-> 0, closed |-> 0, moves |-> 0]
  /\ sessions = [f \in Files |-> Closed(0)]
  /\ snapshots = [f \in Files |-> Nothing]
  /\ peak = Nothing /\ current = {} /\ sessionDeaths = 0

(***************************************************************************)
(* The market and the account.                                             *)
(***************************************************************************)

\* The broker's whole account.
Account == OptionsAllocation + EquityAllocation + MarksOf(market.marks) + market.stock + market.closed

Moved(m) ==
  /\ market.moves < MaxMoves
  /\ market' = [m EXCEPT !.moves = @ + 1]
  /\ current' = {}
  /\ UNCHANGED <<clock, sessions, snapshots, peak, sessionDeaths>>

StockMoves == \E by \in {-1, 1}: Moved([market EXCEPT !.stock = @ + by])

MarkMoves ==
  \E p \in DOMAIN market.marks, by \in {-1, 1}: Moved([market EXCEPT !.marks[p] = @ + by])

PositionOpens ==
  \E p \in Positions \ DOMAIN market.marks:
    Moved([market EXCEPT !.marks = [q \in DOMAIN @ \cup {p} |-> IF q = p THEN 0 ELSE @[q]]])

PositionCloses ==
  \E p \in DOMAIN market.marks:
    Moved([market EXCEPT !.marks = [q \in DOMAIN @ \ {p} |-> @[q]], !.closed = @ + market.marks[p]])

Tick == clock < LastTick /\ clock' = clock + 1
        /\ UNCHANGED <<market, sessions, snapshots, peak, current, sessionDeaths>>

(***************************************************************************)
(* A sleeve is worth its allocation and its open profit, never less than   *)
(* nothing; the equity sleeve is what the account holds beside it.         *)
(***************************************************************************)

Sleeve(allocation, unrealised) == LargerOf(0, allocation + unrealised)

ResidualSleeve(account, other) ==
  Sleeve(EquityAllocation, account - other - EquityAllocation)

\* The legs' profit by the broker, not what the page of the options agent says.
OwnSleeve == ResidualSleeve(Account, Sleeve(OptionsAllocation, MarksOf(market.marks)))

Fall(high, equity) == IF high = Nothing \/ high <= 0 THEN 0 ELSE LargerOf(0, high - equity)

(***************************************************************************)
(* Writing a snapshot: the temporary file, then the replacement.           *)
(***************************************************************************)

Half == [asOf |-> -1]

\* The page after a write that did not end: half of it is in the temporary file.
AfterTorn(f) == snapshots[f]

\* What is published, and of which moment; a failure is swallowed and leaves
\* the page as it was, and a death in the write leaves the session down.
WriteSnapshot(f, at, doc) ==
  \/ /\ snapshots' = [snapshots EXCEPT ![f] = doc] /\ current' = current \cup {f}
     /\ sessions' = [sessions EXCEPT ![f] = [phase |-> "waiting", since |-> at, untold |-> FALSE]]
     /\ UNCHANGED sessionDeaths
  \/ /\ snapshots' \in {snapshots, [snapshots EXCEPT ![f] = AfterTorn(f)]}
     /\ sessions' = [sessions EXCEPT ![f] = [phase |-> "waiting", since |-> at, untold |-> TRUE]]
     /\ UNCHANGED <<current, sessionDeaths>>
  \/ /\ sessionDeaths < MaxDeaths /\ sessionDeaths' = sessionDeaths + 1
     /\ snapshots' = [snapshots EXCEPT ![f] = AfterTorn(f)]
     /\ sessions' = [sessions EXCEPT ![f] = Closed(clock)]
     /\ UNCHANGED current

(***************************************************************************)
(* The options agent.  A position the caller has no mark of is on the page *)
(* with no profit at all, and says that it is unpriced.                    *)
(***************************************************************************)

OptionsSnapshot(at, priced) ==
  [asOf |-> at,
   unpriced |-> DOMAIN market.marks \ priced,
   positions |-> [p \in DOMAIN market.marks |-> IF p \in priced THEN market.marks[p] ELSE 0]]

Ahead == {s \in Slots: s > clock}

\* As it was once: nothing is published before the first slot.
NoStartup ==
  /\ sessions' = [sessions EXCEPT !["options"] = [phase |-> "waiting", since |-> clock, untold |-> FALSE]]
  /\ UNCHANGED <<snapshots, current, sessionDeaths>>

\* The snapshot of a session that only just started: no position is priced yet.
PublishStartup == WriteSnapshot("options", clock, OptionsSnapshot(clock, {}))

\* A session, or one resumed: it takes the slots that are still ahead, and
\* publishes before it waits for the first of them.
OneSession ==
  /\ sessions["options"].phase = "down" /\ Ahead # {}
  /\ PublishStartup
  /\ UNCHANGED <<clock, market, peak>>

Pending == {s \in Slots: s > sessions["options"].since}

\* A slot is told by its own moment, which is past when it was gathered late.
GatherSlot ==
  LET slot == Min(Pending) IN
  /\ sessions["options"].phase = "waiting" /\ Pending # {} /\ slot <= clock
  /\ \E priced \in SUBSET DOMAIN market.marks: WriteSnapshot("options", slot, OptionsSnapshot(slot, priced))
  /\ UNCHANGED <<clock, market, peak>>

(***************************************************************************)
(* The equity agent's beat: the account, its sleeve and the sleeve's high- *)
(* water mark, and the page.                                               *)
(***************************************************************************)

EquityRun ==
  /\ sessions["equity"].phase = "down" /\ clock < LastTick
  /\ sessions' = [sessions EXCEPT !["equity"] = [phase |-> "waiting", since |-> clock - 1, untold |-> TRUE]]
  /\ UNCHANGED <<clock, market, snapshots, peak, current, sessionDeaths>>

Observed == IF peak = Nothing \/ OwnSleeve > peak THEN OwnSleeve ELSE peak

\* The account as the broker has it, beside the fall of the sleeve.
EquitySnapshot(at) == [asOf |-> at, equity |-> Account, fall |-> Fall(Observed, OwnSleeve)]

Heartbeat ==
  /\ sessions["equity"].phase = "waiting" /\ sessions["equity"].since < clock
  /\ peak' = Observed
  /\ WriteSnapshot("equity", clock, EquitySnapshot(clock))
  /\ UNCHANGED <<clock, market>>

\* After the last slot, or at the close.
SessionEnds(f) ==
  /\ sessions[f].phase = "waiting"
  /\ IF f = "options" THEN Pending = {} ELSE clock = LastTick
  /\ sessions' = [sessions EXCEPT ![f] = Closed(clock)]
  /\ UNCHANGED <<clock, market, snapshots, peak, current, sessionDeaths>>

Die(f) ==
  /\ sessionDeaths < MaxDeaths /\ sessions[f].phase # "down"
  /\ sessions' = [sessions EXCEPT ![f] = Closed(clock)]
  /\ sessionDeaths' = sessionDeaths + 1
  /\ UNCHANGED <<clock, market, snapshots, peak, current>>

PageNext ==
  \/ Tick \/ StockMoves \/ MarkMoves \/ PositionOpens \/ PositionCloses
  \/ OneSession \/ GatherSlot \/ EquityRun \/ Heartbeat
  \/ \E f \in Files: SessionEnds(f) \/ Die(f)

PageSpec == PageInit /\ [][PageNext]_dvars

(***************************************************************************)
(* The page.                                                               *)
(***************************************************************************)

\* None of a file that is missing or does not parse.
ReadStatus(f) == IF snapshots[f] = Half THEN Nothing ELSE snapshots[f]

StaleAfter(f) == IF f = "options" THEN OptionsStale ELSE EquityStale

Running(f) == ReadStatus(f) # Nothing /\ clock - ReadStatus(f).asOf < StaleAfter(f)

\* Of the options agent's own positions; the equity sleeve is what is left of
\* the account, and is nothing at all while the other one is not told.
OptionsSleeveView ==
  IF ReadStatus("options") = Nothing THEN Nothing
  ELSE Sleeve(OptionsAllocation, MarksOf(ReadStatus("options").positions))

EquitySleeveView ==
  IF ReadStatus("equity") = Nothing \/ OptionsSleeveView = Nothing THEN Nothing
  ELSE ResidualSleeve(ReadStatus("equity").equity, OptionsSleeveView)

(***************************************************************************)
(* Properties                                                              *)
(***************************************************************************)

\* Once an agent has published there is always a whole snapshot of it to read,
\* through every death inside a write, and its moment never goes back.
ContactIsKept ==
  \A f \in Files: ReadStatus(f) # Nothing =>
    ReadStatus(f)' # Nothing /\ ReadStatus(f)'.asOf >= ReadStatus(f).asOf

\* A session that waits, and did not fail to publish, is on the page from its
\* start to the time a slot is late by; one that is down that long is not.
RunningIsTold ==
  \A f \in Files:
    /\ sessions[f].phase = "waiting" /\ ~sessions[f].untold
       /\ clock - sessions[f].since < StaleAfter(f) => Running(f)
    /\ sessions[f].phase = "down" /\ clock - sessions[f].since >= StaleAfter(f) => ~Running(f)

\* While the market stands still, every position is priced and neither sleeve is
\* lost whole, the page's two sleeves are the agents' own and sum to the account,
\* what an open option makes or loses being in the first alone; and the fall it
\* shows is the one the Gate stops trading on.
SleevesAreTold ==
  LET own == OptionsAllocation + MarksOf(market.marks)
      residual == EquityAllocation + market.stock + market.closed
  IN own >= 0 /\ residual >= 0 =>
       /\ Files \subseteq current /\ ReadStatus("options").unpriced = {} =>
            OptionsSleeveView = own /\ EquitySleeveView = residual /\ own + residual = Account
       /\ "equity" \in current /\ sessions["equity"].phase = "waiting" =>
            ReadStatus("equity").fall = Fall(peak, residual)

\* A page never loses an agent it has told, tells one that runs and not one that
\* has stopped, and shows each sleeve's own worth and the fall that stops its
\* trading.
PagesAreTrue == [][ContactIsKept /\ RunningIsTold' /\ SleevesAreTold']_dvars
=============================================================================
