----------------------------- MODULE EquityPass -----------------------------
(***************************************************************************)
(* live/equity.py and live/equity_cli.py: the session that executes target *)
(* books, with the planner of equity/plan.py, the gate of                  *)
(* risk/equity_checks.py and the door of execution/equity.py.              *)
(*                                                                         *)
(* A book is what `aqr target-book` wrote: a session (asOf) and one of the *)
(* revisions it wrote for it.  Two books have two digests, so a book is    *)
(* its own digest.  Money is whole; a share is the smallest quantity a     *)
(* name trades in, and its price stands still.  Passes run one at a time.  *)
(* The broker, the exchange and the researcher are the environment.        *)
(***************************************************************************)
EXTENDS Integers, FiniteSetsExt, Functions

CONSTANTS
  Symbols,
  Books,        \* [asOf, rev]: what the researcher may write
  Want(_, _),   \* Want(b, s): the notional b wants of s, weight times equity
  Usable,       \* the books load_target_book accepts
  Price(_),     \* of a name
  LastDay,      \* days are 1..LastDay
  Inherited,    \* what the account may hold at the start, functions of Symbols
  Equity,       \* of the sleeve, at those prices
  BandPct, Floor, MaxPosition, MaxGross, MaxTurnover, MaxOrders, MaxBookAge,
                \* EquityPolicy, in money where it is a fraction of Equity
  MaxPasses,    \* bound: passes begun
  MaxCrashes,   \* bound: processes that die
  Modes,        \* how equity-run is started: "live", "dry"
  Faults,       \* what may go wrong; see AllFaults
  NoBook

AllFaults == {"crash", "timeout", "unknown", "refused", "blind", "untradeable", "drawdown"}

ASSUME EquityAssumption ==
  /\ Books \subseteq [asOf : Nat, rev : Nat] /\ Usable \subseteq Books /\ NoBook \notin Books
  /\ \A s \in Symbols : Price(s) \in Nat \ {0}
  /\ \A b \in Books, s \in Symbols : Want(b, s) \in Nat
  /\ LastDay \in Nat \ {0}
  /\ {Equity, BandPct, Floor, MaxPosition, MaxGross, MaxTurnover, MaxOrders,
      MaxBookAge, MaxPasses, MaxCrashes} \subseteq Nat
  /\ Inherited \subseteq [Symbols -> Nat]
  /\ Modes \subseteq {"live", "dry"} /\ Faults \subseteq AllFaults

VARIABLES
  day,       \* the trading day
  disk,      \* the files of the books directory: one book a session
  session,   \* equity-run: how it was started, or "off"
  pass,      \* run_equity_cycle in progress
  journal,   \* cycle id -> record, as Journal.read returns them
  archive,   \* journal/books: file name -> the book in it
  orders,    \* the broker's orders, by client_order_id
  wire,      \* place requests of a call that was given up
  shares,    \* what the account holds
  crashes

vars == <<day, disk, session, pass, journal, archive, orders, wire, shares, crashes>>

Days == 1..LastDay
Ids == Days \X (0..(MaxPasses - 1))
Sides == {"buy", "sell"}

\* A function with one more argument, or another value at it.
With(f, c, v) == [d \in DOMAIN f \union {c} |-> IF d = c THEN v ELSE f[d]]

(***************************************************************************)
(* Books                                                                   *)
(***************************************************************************)
\* find_latest_book: by file name, so by session and never by mtime.
FindLatestBook ==
  IF disk = {} THEN NoBook
  ELSE CHOOSE b \in disk : \A other \in disk : other.asOf <= b.asOf

\* load_target_book: the schema, the pin, the sealed run behind the strategy, and
\* weights that are long only.
LoadTargetBook(b) == b \in Usable

\* TargetBook.age_days against the policy.
Stale(b) == day - b.asOf > MaxBookAge

\* Mutant: the archive of a session is one file.
ArchivePathBySession(b) == b.asOf

\* archive_book: fingerprint, session and digest.
ArchivePath(b) == b

(***************************************************************************)
(* The plan: equity/plan.py                                                *)
(***************************************************************************)
Intent == [symbol : Symbols, side : Sides, shares : Nat \ {0}, held : Int]

Notional(i) == i.shares * Price(i.symbol)

Larger(x, y) == IF x >= y THEN x ELSE y
Lesser(x, y) == IF x <= y THEN x ELSE y
Magnitude(x) == IF x >= 0 THEN x ELSE -x

\* EquityPolicy.threshold, of the larger of what is wanted and what is held.
InsideBand(drift, target, held) ==
  \/ 100 * Magnitude(drift) < BandPct * Larger(target, Magnitude(held))
  \/ Magnitude(drift) < Floor

\* Mutant: a share more than the money buys.
SharesForRoundedUp(drift, s) == (Magnitude(drift) + Price(s) - 1) \div Price(s)

\* _shares_for: ROUND_DOWN, the safe direction on both sides.
SharesFor(drift, s) == Magnitude(drift) \div Price(s)

Drift(b, s, held) == Want(b, s) - held * Price(s)

\* _decide on a name with a usable mark: the shares to move, negative to sell
\* and never beyond what is held; zero is a skip.
Move(b, s, held) ==
  LET drift == Drift(b, s, held)
  IN  IF InsideBand(drift, Want(b, s), held * Price(s)) THEN 0
      ELSE IF drift > 0 THEN SharesFor(drift, s)
      ELSE -Lesser(SharesFor(drift, s), Larger(held, 0))

\* The book and what is held: the names a plan accounts for.
Universe(b, held) == {s \in Symbols : Want(b, s) > 0 \/ held[s] # 0}

\* plan_rebalance, over the names with a usable mark.
Plan(b, held, priced) ==
  {[symbol |-> s, side |-> IF Move(b, s, held[s]) > 0 THEN "buy" ELSE "sell",
    shares |-> Magnitude(Move(b, s, held[s])), held |-> held[s]] :
      s \in {t \in Universe(b, held) \intersect priced : Move(b, t, held[t]) # 0}}

\* RebalancePlan.is_blind: every name was skipped for want of a price.
IsBlind(b, held, unpriced) ==
  Universe(b, held) # {} /\ Universe(b, held) \subseteq unpriced

\* _sequenced: sells first, then the largest; of equals, either.
First(plan) ==
  {i \in plan : \A j \in plan :
     \/ i.side = "sell" /\ j.side = "buy"
     \/ i.side = j.side /\ Notional(i) >= Notional(j)}

(***************************************************************************)
(* The gate: risk/equity_checks.py                                         *)
(***************************************************************************)
Gross(held) == MapThenSumSet(LAMBDA s : held[s] * Price(s), Symbols)

\* The budgeted checks: what a sell is waived past.
WithinBudget(i, snap) ==
  LET side == IF i.side = "buy" THEN 1 ELSE -1
  IN  /\ Notional(i) >= Floor
      /\ (i.held + side * i.shares) * Price(i.symbol) <= MaxPosition
      /\ Gross(snap.held) + side * Notional(i) <= MaxGross
      /\ i.side = "buy" => Notional(i) <= snap.power
      /\ snap.turnover + Notional(i) <= MaxTurnover
      /\ snap.orders + 1 <= MaxOrders
      /\ ~snap.drawn

\* What is never waived.  The pin and the mark are the loader's and the planner's
\* again: an intent has both.
Unwaived(i, b) == ~Stale(b) /\ (i.side = "sell" => i.held >= i.shares)

\* evaluate_equity: the budget is waived for an order that reduces risk.
Approved(i, b, snap) == Unwaived(i, b) /\ (i.side = "sell" \/ WithinBudget(i, snap))

\* _advance: the snapshot as it will be once the order fills.
Advance(snap, i) ==
  LET bought == IF i.side = "buy" THEN i.shares ELSE -i.shares
  IN  [snap EXCEPT !.held[i.symbol] = @ + bought,
                   !.power = @ - bought * Price(i.symbol),
                   !.orders = @ + 1,
                   !.turnover = @ + Notional(i)]

(***************************************************************************)
(* The journal                                                             *)
(***************************************************************************)
OrderRecord ==
  [symbol : Symbols, side : Sides, shares : Nat \ {0},
   outcome : {"vetoed", "dry_run", "submitted", "halted"}]

Stages == {"no_book", "stale_book", "no_marks", "no_trades", "planned",
           "submitted", "vetoed", "halted"}

\* Mutant: a halted pass is to be looked at again.
DecidedUnlessHalted == {"submitted", "no_trades", "planned", "vetoed", "stale_book"}

DecidedStages == {"submitted", "no_trades", "planned", "vetoed", "halted", "stale_book"}

Record == [stage : Stages, book : Books \union {NoBook}, orders : SUBSET OrderRecord]

Today(d) == {id \in DOMAIN journal : id[1] = d}

AlreadyDecided(b) ==
  \E id \in Today(day) : journal[id].book = b /\ journal[id].stage \in DecidedStages

\* Mutant: a restarted process counts from the beginning.
FirstSequence == 0

\* _next_sequence: the first id of the day not in use.
Unused == {n \in 0..(MaxPasses - 1) : <<day, n>> \notin DOMAIN journal}
NextSequence == CHOOSE n \in Unused : \A m \in Unused : n <= m

Submitted(id) == {o \in journal[id].orders : o.outcome = "submitted"}

\* Mutant: a budget of its own for every pass.
FreshTotals == [orders |-> 0, turnover |-> 0]

\* today_totals: the orders of the day that have a submission.
OrdersToday == SumFunctionOnSet([id \in Today(day) |-> Cardinality(Submitted(id))], Today(day))

TodayTotals ==
  [orders |-> OrdersToday,
   turnover |-> MapThenSumSet(LAMBDA id : MapThenSumSet(Notional, Submitted(id)), Today(day))]

(***************************************************************************)
(* The broker                                                              *)
(***************************************************************************)
\* Mutant: the quantity is in the key, and a re-plan is a second order.
ClientOrderIdOfQuantity(b, i, d) ==
  [book |-> b.asOf, symbol |-> i.symbol, side |-> i.side, day |-> d, shares |-> i.shares]

\* equity_client_order_id of an intent or order record: neither the quantity nor
\* the digest is in it.
ClientOrderId(b, i, d) == [book |-> b.asOf, symbol |-> i.symbol, side |-> i.side, day |-> d]

Live(k) == orders[k].live
Working == {k \in DOMAIN orders : Live(k) /\ k.side = "buy"}

\* Account.buying_power: cash, less what working buys have reserved.
BuyingPower ==
  Equity - Gross(shares) - MapThenSumSet(LAMBDA k : orders[k].left * Price(k.symbol), Working)

\* What the broker takes: a key it has not seen, and a buy it can be paid for.
Takes(k, n) == k \notin DOMAIN orders /\ (k.side = "buy" => n * Price(k.symbol) <= BuyingPower)

Place(k, n) == orders' = With(orders, k, [shares |-> n, left |-> n, live |-> TRUE])

(***************************************************************************)
(* The state                                                               *)
(***************************************************************************)
NoSnapshot ==
  [held |-> [s \in Symbols |-> 0], power |-> 0, orders |-> 0, turnover |-> 0, drawn |-> FALSE]

NoPass ==
  [pc |-> "idle", by |-> "run", submit |-> FALSE, seq |-> 0, book |-> NoBook,
   plan |-> {}, done |-> {}, snap |-> NoSnapshot, stage |-> "no_book"]

Key == [book : Nat, symbol : Symbols, side : Sides, day : Days]

Init ==
  /\ day = 1
  /\ disk = {}
  /\ session = "off"
  /\ pass = NoPass
  /\ journal = [id \in {} |-> NoPass]
  /\ archive = [b \in {} |-> b]
  /\ orders = [k \in {} |-> k]
  /\ wire = {}
  /\ shares \in Inherited
  /\ crashes = 0

Broker == <<orders, wire, shares>>

(***************************************************************************)
(* The commands                                                            *)
(***************************************************************************)
\* equity-run at the start of its session, or when it is started again.
StartSession ==
  /\ session = "off" /\ pass.pc = "idle"
  /\ session' \in Modes
  /\ UNCHANGED <<day, disk, pass, journal, archive, crashes, Broker>>

\* cmd_equity_run past the close; the exchange has closed out day orders.
NextDay ==
  /\ day < LastDay /\ pass.pc = "idle"
  /\ wire = {} /\ \A k \in DOMAIN orders : ~Live(k)
  /\ day' = day + 1
  /\ session' = "off"
  /\ UNCHANGED <<disk, pass, journal, archive, crashes, Broker>>

\* _empty: a pass that read no further than the book, journalled at once.
GiveUp(stage, b) ==
  /\ journal' = With(journal, <<day, NextSequence>>, [stage |-> stage, book |-> b, orders |-> {}])
  /\ UNCHANGED pass

\* _book_awaiting_a_pass.
BookAwaitsAPass == FindLatestBook = NoBook \/ ~AlreadyDecided(FindLatestBook)

\* Who calls run_equity_cycle: the beat of a session, or a command typed by
\* hand, which does not ask whether the book is decided (_one_pass).
MayStart(by) ==
  /\ pass.pc = "idle" /\ Unused # {} /\ Cardinality(DOMAIN journal) + crashes < MaxPasses
  /\ by = "run" => session # "off" /\ BookAwaitsAPass

Submits(by) == by = "rebalance" \/ (by = "run" /\ session = "live")

\* run_equity_cycle to the archive of the book.
StartPass(by) ==
  /\ MayStart(by)
  /\ LET b == FindLatestBook
     IN  IF ~LoadTargetBook(b)
         THEN GiveUp("no_book", NoBook) /\ UNCHANGED archive
         ELSE /\ archive' = With(archive, ArchivePath(b), b)
              /\ IF Stale(b)
                 THEN GiveUp("stale_book", b)
                 ELSE /\ pass' = [NoPass EXCEPT !.pc = "reading", !.by = by, !.book = b,
                                                !.submit = Submits(by), !.seq = NextSequence]
                      /\ UNCHANGED journal
  /\ UNCHANGED <<day, disk, session, crashes, Broker>>

\* run_equity_cycle from the account to the plan.
ReadAccount(unpriced, untradeable, drawn) ==
  /\ pass.pc = "reading"
  /\ LET plan == Plan(pass.book, shares, Symbols \ (unpriced \union untradeable))
         snap == [held |-> shares, power |-> BuyingPower, orders |-> TodayTotals.orders,
                  turnover |-> TodayTotals.turnover, drawn |-> drawn]
     IN  pass' = [pass EXCEPT !.plan = plan, !.snap = snap,
                    !.pc = IF plan = {} THEN "recording" ELSE "placing",
                    !.stage = IF IsBlind(pass.book, shares, unpriced)
                              THEN "no_marks" ELSE "no_trades"]
  /\ UNCHANGED <<day, disk, session, journal, archive, crashes, Broker>>

(***************************************************************************)
(* Placing orders: _place                                                  *)
(***************************************************************************)
Outcome(i, what) == [symbol |-> i.symbol, side |-> i.side, shares |-> i.shares, outcome |-> what]

\* One intent is done with; the snapshot moves unless it was vetoed.
Done(i, what) ==
  pass' = [pass EXCEPT !.plan = @ \ {i}, !.done = @ \union {Outcome(i, what)},
                       !.snap = IF what = "vetoed" THEN @ ELSE Advance(@, i)]

KeyOf(i) == ClientOrderId(pass.book, i, day)

Judging(i) == pass.pc = "placing" /\ i \in First(pass.plan)
Sending(i) == Judging(i) /\ Approved(i, pass.book, pass.snap) /\ pass.submit

Veto(i) ==
  /\ Judging(i) /\ ~Approved(i, pass.book, pass.snap)
  /\ Done(i, "vetoed")
  /\ UNCHANGED <<day, disk, session, journal, archive, crashes, Broker>>

DryRun(i) ==
  /\ Judging(i) /\ Approved(i, pass.book, pass.snap) /\ ~pass.submit
  /\ Done(i, "dry_run")
  /\ UNCHANGED <<day, disk, session, journal, archive, crashes, Broker>>

\* submit_equity returns the order it placed, by its answer or by reading back.
Accepted(i) ==
  /\ Sending(i) /\ Takes(KeyOf(i), i.shares)
  /\ Place(KeyOf(i), i.shares)
  /\ Done(i, "submitted")
  /\ UNCHANGED <<day, disk, session, journal, archive, crashes, wire, shares>>

\* The call timed out, and there is an order under the key: of whatever pass.
ReadBackAnother(i) ==
  /\ "timeout" \in Faults
  /\ Sending(i) /\ KeyOf(i) \in DOMAIN orders
  /\ Done(i, "submitted")
  /\ UNCHANGED <<day, disk, session, journal, archive, crashes, Broker>>

\* An ExecutionError stops the pass.
Halt(i) ==
  pass' = [pass EXCEPT !.pc = "recording", !.stage = "halted",
                       !.done = @ \union {Outcome(i, "halted")}]

\* BrokerRefused: a key it has seen, a buy it cannot be paid for, or a reason
\* of its own.
Refused(i) ==
  /\ Sending(i)
  /\ "refused" \in Faults \/ ~Takes(KeyOf(i), i.shares)
  /\ Halt(i)
  /\ UNCHANGED <<day, disk, session, journal, archive, crashes, Broker>>

\* The request of one intent, given up on, may still arrive.
LeaveOnWire(i) == wire' = wire \union {[key |-> KeyOf(i), shares |-> i.shares]}

\* A timeout that reads nothing back, or dropped connections: the last attempt
\* drops as well, or is refused as the duplicate of one that had arrived.
LeftUnknown(i) ==
  /\ "unknown" \in Faults
  /\ Sending(i)
  /\ Halt(i)
  /\ LeaveOnWire(i)
  /\ UNCHANGED <<day, disk, session, journal, archive, crashes, orders, shares>>

\* How far the pass got.
Stage(p) ==
  IF p.pc = "recording" THEN p.stage
  ELSE IF \A o \in p.done : o.outcome = "vetoed" THEN "vetoed"
  ELSE IF p.submit THEN "submitted" ELSE "planned"

Journalled(p) == [stage |-> Stage(p), book |-> p.book, orders |-> p.done]

\* journal.append; a halted session returns 1.
RecordPass ==
  /\ pass.pc = "recording" \/ (pass.pc = "placing" /\ pass.plan = {})
  /\ journal' = With(journal, <<day, pass.seq>>, Journalled(pass))
  /\ session' = IF pass.by = "run" /\ Stage(pass) = "halted" THEN "off" ELSE session
  /\ pass' = NoPass
  /\ UNCHANGED <<day, disk, archive, crashes, Broker>>

\* The process with the pass dies, perhaps inside a call; nothing is journalled.
Crash ==
  /\ "crash" \in Faults /\ crashes < MaxCrashes /\ pass.pc # "idle"
  /\ crashes' = crashes + 1
  /\ session' = IF pass.by = "run" THEN "off" ELSE session
  /\ pass' = NoPass
  /\ \/ UNCHANGED wire
     \/ \E i \in pass.plan : Sending(i) /\ LeaveOnWire(i)
  /\ UNCHANGED <<day, disk, journal, archive, orders, shares>>

(***************************************************************************)
(* The environment                                                         *)
(***************************************************************************)
\* aqr target-book: a revision it has not written, of no later a session.  A
\* pass has its book in memory: what is written during it is seen by the next.
Publish(b) ==
  /\ pass.pc = "idle" /\ b.asOf <= day
  /\ \A other \in disk : other.asOf = b.asOf => other.rev < b.rev
  /\ disk' = {other \in disk : other.asOf # b.asOf} \union {b}
  /\ UNCHANGED <<day, session, pass, journal, archive, crashes, Broker>>

\* A request that was given up on reaches the broker, or never does.
Arrives(r) ==
  /\ r \in wire
  /\ wire' = wire \ {r}
  /\ IF Takes(r.key, r.shares) THEN Place(r.key, r.shares) ELSE UNCHANGED orders
  /\ UNCHANGED <<day, disk, session, pass, journal, archive, crashes, shares>>

Vanishes(r) ==
  /\ r \in wire
  /\ wire' = wire \ {r}
  /\ UNCHANGED <<day, disk, session, pass, journal, archive, crashes, orders, shares>>

\* A market order fills, whole or in part.
Fill(k, n) ==
  /\ Live(k) /\ n \in 1..orders[k].left
  /\ orders' = [orders EXCEPT ![k].left = @ - n, ![k].live = n < orders[k].left]
  /\ shares' = [shares EXCEPT ![k.symbol] = IF k.side = "buy" THEN @ + n ELSE @ - n]
  /\ UNCHANGED <<day, disk, session, pass, journal, archive, crashes, wire>>

\* ... or is rejected, cancelled or expired with what is left of it.
Expire(k) ==
  /\ Live(k)
  /\ orders' = [orders EXCEPT ![k].live = FALSE]
  /\ UNCHANGED <<day, disk, session, pass, journal, archive, crashes, wire, shares>>

Placing == \E i \in pass.plan :
  Veto(i) \/ DryRun(i) \/ Accepted(i) \/ ReadBackAnother(i) \/ Refused(i) \/ LeftUnknown(i)

Unread(fault) == IF fault \in Faults THEN SUBSET Symbols ELSE {{}}

Reading ==
  \E unpriced \in Unread("blind"), untradeable \in Unread("untradeable"),
     drawn \in {FALSE} \union {"drawdown" \in Faults} : ReadAccount(unpriced, untradeable, drawn)

Next ==
  \/ StartSession \/ NextDay
  \/ \E by \in {"run", "rebalance", "plan"} : StartPass(by)
  \/ Reading \/ Placing \/ RecordPass \/ Crash
  \/ \E b \in Books : Publish(b)
  \/ \E r \in wire : Arrives(r) \/ Vanishes(r)
  \/ \E k \in DOMAIN orders : (\E n \in 1..orders[k].left : Fill(k, n)) \/ Expire(k)

Spec == Init /\ [][Next]_vars
=============================================================================
