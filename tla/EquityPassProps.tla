-------------------------- MODULE EquityPassProps ---------------------------
(***************************************************************************)
(* What makes the equity session correct, stated over EquityPass.          *)
(***************************************************************************)
EXTENDS EquityPass

PassType ==
  [pc : {"idle", "reading", "placing", "recording"}, by : {"run", "rebalance", "plan"},
   submit : BOOLEAN, seq : Nat, book : Usable \union {NoBook}, plan : SUBSET Intent,
   done : SUBSET OrderRecord, snap : {pass.snap}, stage : Stages]

Order == [shares : Nat \ {0}, left : Nat, live : BOOLEAN]

\* Every variable keeps its type; a plan moves a positive number of shares, a
\* pass has a usable book, and no more of an order fills than was ordered
\* (plan.py, OrderIntent; find_latest_book).
TypeOK ==
  /\ day \in Days
  /\ disk \subseteq Books
  /\ session \in Modes \union {"off"}
  /\ pass \in PassType
  /\ pass.pc # "idle" => pass.book \in Usable
  /\ DOMAIN journal \subseteq Ids /\ \A id \in DOMAIN journal : journal[id] \in Record
  /\ DOMAIN archive \subseteq Usable
  /\ DOMAIN orders \subseteq Key
  /\ \A k \in DOMAIN orders : orders[k] \in Order /\ orders[k].left <= orders[k].shares
  /\ wire \subseteq [key : Key, shares : Nat \ {0}]
  /\ shares \in [Symbols -> Int]
  /\ crashes \in Nat

(***************************************************************************)
(* The journal                                                             *)
(***************************************************************************)
KeyIn(id, o) == ClientOrderId(journal[id].book, o, id[1])

\* A journalled submission is an order at the broker, under the key of its
\* book, name, side and day (today_totals counts on it; specs/09 D5).
JournalIsEvidence ==
  \A id \in DOMAIN journal : \A o \in Submitted(id) : KeyIn(id, o) \in DOMAIN orders

\* The book a pass was made on is kept, byte for byte, whatever is regenerated
\* for its session later (archive_book: "the journal line would name a digest
\* no file on disk had").
EvidenceIsKept ==
  \A id \in DOMAIN journal :
    journal[id].book # NoBook =>
      \E f \in DOMAIN archive : archive[f] = journal[id].book

\* What the journal says of a pass can be shown: its orders at the broker, its
\* book in the archive.
JournalIsBacked == JournalIsEvidence /\ EvidenceIsKept

\* A decision line of a day is never replaced by a later pass, after any crash
\* or restart (_next_sequence: "a duplicate collapses two decisions into one").
PassesAreKept ==
  [][\A id \in DOMAIN journal : id \in DOMAIN journal' /\ journal'[id] = journal[id]]_vars

(***************************************************************************)
(* Orders                                                                  *)
(***************************************************************************)
\* Places an order, or leaves one on the wire.
Sends == (DOMAIN orders' # DOMAIN orders \/ wire' # wire) /\ pass.pc = "placing" /\ pass' # pass

\* A session sends nothing for a book some pass of the day got as far as an
\* opinion of, in this process or the one before it, halted passes included
\* (already_decided: "What must not happen is the same instruction being executed
\* twice"; specs/09 D8 leaves two stages outside).
SessionNeverReplays ==
  [][Sends /\ pass.by = "run" =>
       \A id \in Today(day) :
         journal[id].book = pass.book => journal[id].stage \in {"no_book", "no_marks"}]_vars

\* The orders of the day that reached the broker and are known to the journal
\* or to the pass at work.
Known(k) ==
  \/ \E id \in Today(day) : \E o \in Submitted(id) : KeyIn(id, o) = k
  \/ \E o \in pass.done : o.outcome = "submitted" /\ KeyOf(o) = k

\* A buy is sent only inside the day's order cap, over every pass and restart
\* of the day, but for orders no journal line tells of (today_totals: "a restart
\* at 14:00 resumes with the caps it left at").
BudgetHolds ==
  [][\A k \in DOMAIN orders' \ DOMAIN orders :
       pass' # pass /\ k.side = "buy" =>
         Cardinality({m \in DOMAIN orders : m.day = day /\ Known(m)}) < MaxOrders]_vars

\* The account is short of a name only if the passes of two sessions' books
\* sold it on one day: no book, however revised and however often its pass is
\* repeated, sells what it no longer holds (specs/09 D6).
ShortsNeedTwoBooks ==
  \A s \in Symbols : shares[s] < 0 =>
    \E k, m \in DOMAIN orders :
      /\ k.symbol = s /\ m.symbol = s /\ k.side = "sell" /\ m.side = "sell"
      /\ k.book # m.book /\ k.day = m.day

\* An exit is never stopped by the gate: not by a budget, and not by the checks
\* that are never waived, which the planner has seen to (equity_checks.py,
\* UNWAIVABLE; specs/09 D5).
SellsAreNeverVetoed ==
  \A id \in DOMAIN journal : \A o \in journal[id].orders :
    o.side = "sell" => o.outcome # "vetoed"

(***************************************************************************)
(* The plan                                                                *)
(***************************************************************************)
After(i) == i.held + (IF i.side = "buy" THEN i.shares ELSE -i.shares)

\* A plan that is executed is finished: what an order leaves of its drift is
\* inside the band or less than a share, so that a pass over the same book
\* would neither trade the name again nor trade it back, and never past what
\* is held (plan.py, _shares_for against EquityPolicy.threshold).
PlansSettle ==
  \A i \in pass.plan : Move(pass.book, i.symbol, After(i)) = 0 /\ After(i) >= Lesser(i.held, 0)
=============================================================================
