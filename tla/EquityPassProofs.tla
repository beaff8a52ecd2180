-------------------------- MODULE EquityPassProofs --------------------------
(***************************************************************************)
(* Theorems about the equity session, for any books, names, prices, policy *)
(* and number of days, and any set of faults.                              *)
(*                                                                         *)
(* PassInv is what a pass at work may rely on: its id is free, its book is *)
(* fresh, archived and -- in a session -- undecided, and what it has done  *)
(* is borne out by the broker. JournalInv is the same of what is written   *)
(* down. Two invariants rest on them. ShortInv: what may yet be sold of a  *)
(* name, by an order that works or by a request that competes for its key, *)
(* is there to sell, unless two books of one day have sold it. BudgetInv:  *)
(* a pass that places counts the submissions of the day. That plans settle *)
(* is arithmetic: what is rounded down, on either side, leaves less than a *)
(* share.                                                                  *)
(***************************************************************************)
EXTENDS EquityPassProps, SumTheorems

USE EquityAssumption

\* A session's pass is on a book nobody had an opinion of today.
Undecided ==
  \A id \in DOMAIN journal :
    id[1] = day /\ journal[id].book = pass.book => journal[id].stage \in {"no_book", "no_marks"}

PassInv ==
  /\ pass.pc # "idle" =>
       /\ <<day, pass.seq>> \in Ids \ DOMAIN journal
       /\ ~Stale(pass.book)
       /\ pass.book \in DOMAIN archive
       /\ pass.by = "run" => Undecided
       /\ \A o \in pass.done :
            /\ o.outcome = "submitted" => KeyOf(o) \in DOMAIN orders
            /\ o.side = "sell" => o.outcome # "vetoed"
  /\ \A i \in pass.plan : i.side = "sell" => i.held >= i.shares

JournalInv ==
  /\ \A b \in DOMAIN archive : archive[b] = b
  /\ \A id \in DOMAIN journal : journal[id].book # NoBook => journal[id].book \in DOMAIN archive
  /\ JournalIsEvidence
  /\ SellsAreNeverVetoed

Inv == TypeOK /\ PassInv /\ JournalInv

-----------------------------------------------------------------------------
\* What a function is with one more argument.
LEMMA WithFacts ==
  ASSUME NEW f, NEW c, NEW v
  PROVE  /\ DOMAIN With(f, c, v) = DOMAIN f \union {c}
         /\ With(f, c, v)[c] = v
         /\ \A d \in DOMAIN f \ {c} : With(f, c, v)[d] = f[d]
BY DEF With

\* A sell is never of more than is held: plan.py, _decide's clamp.
LEMMA MoveIsCovered ==
  ASSUME NEW b \in Books, NEW s \in Symbols, NEW held \in Int
  PROVE  /\ Move(b, s, held) \in Int
         /\ Move(b, s, held) < 0 => -Move(b, s, held) <= held
<1> DEFINE drift == Drift(b, s, held)
           n == SharesFor(drift, s)
<1>1. drift \in Int
  BY DEF Drift
<1>2. n \in Int
  <2>1. Magnitude(drift) \in Int /\ Price(s) \in Nat \ {0}
    BY <1>1 DEF Magnitude
  <2> QED BY <2>1 DEF SharesFor
<1>3. drift > 0 => n >= 0
  <2>1. drift > 0 => Magnitude(drift) \in Nat /\ Price(s) \in Nat \ {0}
    BY <1>1 DEF Magnitude
  <2> QED BY <2>1 DEF SharesFor
<1>4. Lesser(n, Larger(held, 0)) \in Int
  BY <1>2 DEF Lesser, Larger
<1>5. -Lesser(n, Larger(held, 0)) < 0 => Lesser(n, Larger(held, 0)) <= held
  BY <1>2 DEF Lesser, Larger
<1> HIDE DEF n, drift
<1>6. Move(b, s, held) \in {0, -Lesser(n, Larger(held, 0))} \/ (drift > 0 /\ Move(b, s, held) = n)
  BY DEF Move, n, drift
<1> QED BY <1>1, <1>2, <1>3, <1>4, <1>5, <1>6

LEMMA PlanType ==
  ASSUME NEW b \in Books, NEW held \in [Symbols -> Int], NEW priced
  PROVE  /\ Plan(b, held, priced) \in SUBSET Intent
         /\ \A i \in Plan(b, held, priced) : i.side = "sell" => i.held >= i.shares
<1> SUFFICES ASSUME NEW i \in Plan(b, held, priced)
             PROVE  i \in Intent /\ (i.side = "sell" => i.held >= i.shares)
  OBVIOUS
<1>1. PICK s \in Symbols : 
        /\ Move(b, s, held[s]) # 0
        /\ i = [symbol |-> s, side |-> IF Move(b, s, held[s]) > 0 THEN "buy" ELSE "sell",
                shares |-> Magnitude(Move(b, s, held[s])), held |-> held[s]]
  BY DEF Plan, Universe
<1>2. held[s] \in Int
  OBVIOUS
<1>3. /\ Move(b, s, held[s]) \in Int
      /\ Move(b, s, held[s]) < 0 => -Move(b, s, held[s]) <= held[s]
  BY <1>2, MoveIsCovered
<1>4. Magnitude(Move(b, s, held[s])) \in Nat \ {0}
  BY <1>1, <1>3 DEF Magnitude
<1>5. i \in Intent
  BY <1>1, <1>2, <1>4 DEF Intent, Sides
<1>6. i.side = "sell" => Magnitude(Move(b, s, held[s])) <= held[s]
  BY <1>1, <1>3 DEF Magnitude
<1> QED BY <1>1, <1>5, <1>6

-----------------------------------------------------------------------------
LEMMA InvInit == Init => Inv
<1> SUFFICES ASSUME Init PROVE Inv
  OBVIOUS
<1> USE DEF Init
<1>1. pass \in PassType
  BY DEF PassType, NoPass, Stages
<1>2. TypeOK
  BY <1>1 DEF TypeOK, NoPass, Days
<1>3. PassInv /\ JournalInv
  BY DEF PassInv, JournalInv, NoPass, JournalIsEvidence, SellsAreNeverVetoed
<1> QED BY <1>2, <1>3 DEF Inv

\* What is read of the broker only grows: the journal's evidence stands.
LEMMA EvidenceStands ==
  ASSUME JournalInv, DOMAIN orders \subseteq DOMAIN orders', UNCHANGED <<journal, archive>>
  PROVE  JournalInv'
BY DEF JournalInv, JournalIsEvidence, SellsAreNeverVetoed, Submitted, KeyIn, ClientOrderId

\* ... and so does a pass that is left alone, on the same day.
LEMMA PassStands ==
  ASSUME PassInv, DOMAIN orders \subseteq DOMAIN orders', UNCHANGED <<day, pass, journal, archive>>
  PROVE  PassInv'
BY DEF PassInv, Undecided, Stale, KeyOf, ClientOrderId

LEMMA KeyType ==
  ASSUME TypeOK, pass.pc # "idle", NEW i, i.symbol \in Symbols, i.side \in Sides
  PROVE  KeyOf(i) \in Key
BY DEF TypeOK, KeyOf, ClientOrderId, Key

\* An order that is placed is new, whole and of its type.
LEMMA PlaceKeeps ==
  ASSUME TypeOK, NEW k \in Key, NEW n \in Nat \ {0}, Place(k, n)
  PROVE  /\ DOMAIN orders' = DOMAIN orders \union {k}
         /\ \A m \in DOMAIN orders' : orders'[m] \in Order /\ orders'[m].left <= orders'[m].shares
<1> DEFINE new == [shares |-> n, left |-> n, live |-> TRUE]
<1>1. new \in Order /\ new.left <= new.shares
  BY DEF Order
<1>2. orders' = With(orders, k, new)
  BY DEF Place
<1> HIDE DEF new
<1>3. DOMAIN orders' = DOMAIN orders \union {k} /\ orders'[k] = new
  BY <1>2 DEF With
<1>4. \A m \in DOMAIN orders \ {k} : orders'[m] = orders[m]
  BY <1>2 DEF With
<1>5. \A m \in DOMAIN orders : orders[m] \in Order /\ orders[m].left <= orders[m].shares
  BY DEF TypeOK
<1> QED BY <1>1, <1>3, <1>4, <1>5

LEMMA EnvironmentKeeps ==
  ASSUME Inv, \/ StartSession
              \/ NextDay
              \/ \E b \in Books : Publish(b)
              \/ \E r \in wire : Arrives(r) \/ Vanishes(r)
              \/ \E k \in DOMAIN orders : (\E n \in 1..orders[k].left : Fill(k, n)) \/ Expire(k)
  PROVE  Inv'
<1> USE DEF Inv
<1>1. CASE StartSession
  <2>1. TypeOK'
    BY <1>1 DEF StartSession, TypeOK, PassType, Broker
  <2> QED BY <1>1, <2>1, EvidenceStands, PassStands DEF StartSession, Broker
<1>2. CASE NextDay
  <2>1. TypeOK'
    BY <1>2 DEF NextDay, TypeOK, PassType, Broker, Days
  <2>2. PassInv'
    BY <1>2 DEF NextDay, PassInv
  <2> QED BY <1>2, <2>1, <2>2, EvidenceStands DEF NextDay, Broker
<1>3. CASE \E b \in Books : Publish(b)
  <2>1. TypeOK'
    BY <1>3 DEF Publish, TypeOK, PassType, Broker
  <2> QED BY <1>3, <2>1, EvidenceStands, PassStands DEF Publish, Broker
<1>4. ASSUME NEW r \in wire, Arrives(r)
      PROVE  Inv'
  <2>1. r.key \in Key /\ r.shares \in Nat \ {0}
    BY DEF TypeOK
  <2>2. /\ DOMAIN orders \subseteq DOMAIN orders' /\ DOMAIN orders' \subseteq Key
        /\ \A m \in DOMAIN orders' : orders'[m] \in Order /\ orders'[m].left <= orders'[m].shares
    <3>1. CASE Place(r.key, r.shares)
      BY <2>1, <3>1, PlaceKeeps DEF TypeOK
    <3>2. CASE UNCHANGED orders
      BY <3>2 DEF TypeOK
    <3> QED BY <1>4, <3>1, <3>2 DEF Arrives
  <2>3. TypeOK'
    BY <1>4, <2>2 DEF Arrives, TypeOK, PassType
  <2> QED BY <1>4, <2>2, <2>3, EvidenceStands, PassStands DEF Arrives
<1>5. ASSUME NEW r \in wire, Vanishes(r)
      PROVE  Inv'
  <2>1. TypeOK'
    BY <1>5 DEF Vanishes, TypeOK, PassType
  <2> QED BY <1>5, <2>1, EvidenceStands, PassStands DEF Vanishes
<1>6. ASSUME NEW k \in DOMAIN orders, NEW n \in 1..orders[k].left, Fill(k, n)
      PROVE  Inv'
  <2>1. k \in Key /\ orders[k] \in Order /\ orders[k].left <= orders[k].shares
    BY DEF TypeOK
  <2>2. /\ k.symbol \in Symbols /\ shares \in [Symbols -> Int] /\ shares[k.symbol] \in Int
        /\ n \in Nat /\ orders[k].left - n \in Nat /\ orders[k].left - n <= orders[k].shares
    BY <2>1 DEF Key, TypeOK, Order
  <2> DEFINE moved == IF k.side = "buy" THEN shares[k.symbol] + n ELSE shares[k.symbol] - n
             left == orders[k].left - n
             alive == n < orders[k].left
             filled == [orders[k] EXCEPT !.left = left, !.live = alive]
  <2>3. moved \in Int
    BY <2>2
  <2>4. shares' = [shares EXCEPT ![k.symbol] = moved]
    BY <1>6, Zenon DEF Fill
  <2>5. orders' = [orders EXCEPT ![k] = filled]
    BY <1>6 DEF Fill
  <2> HIDE DEF moved
  <2>6. shares' \in [Symbols -> Int]
    BY <2>2, <2>3, <2>4
  <2>7. filled \in Order /\ filled.left <= filled.shares
    <3>1. left \in Nat /\ left <= orders[k].shares /\ alive \in BOOLEAN
      BY <2>2
    <3> HIDE DEF left, alive
    <3> QED BY <2>1, <3>1 DEF Order
  <2> HIDE DEF filled
  <2>8. /\ DOMAIN orders' = DOMAIN orders
        /\ \A m \in DOMAIN orders : orders'[m] \in Order /\ orders'[m].left <= orders'[m].shares
    BY <2>5, <2>7 DEF TypeOK
  <2>9. TypeOK'
    BY <1>6, <2>6, <2>8 DEF Fill, TypeOK, PassType
  <2> QED BY <1>6, <2>8, <2>9, EvidenceStands, PassStands DEF Fill
<1>7. ASSUME NEW k \in DOMAIN orders, Expire(k)
      PROVE  Inv'
  <2> DEFINE expired == [orders[k] EXCEPT !.live = FALSE]
  <2>1. expired \in Order /\ expired.left <= expired.shares
    BY DEF TypeOK, Order
  <2>2. orders' = [orders EXCEPT ![k] = expired]
    BY <1>7 DEF Expire
  <2> HIDE DEF expired
  <2>3. /\ DOMAIN orders' = DOMAIN orders
        /\ \A m \in DOMAIN orders : orders'[m] \in Order /\ orders'[m].left <= orders'[m].shares
    BY <2>1, <2>2 DEF TypeOK
  <2>4. TypeOK'
    BY <1>7, <2>3 DEF Expire, TypeOK, PassType
  <2> QED BY <1>7, <2>3, <2>4, EvidenceStands, PassStands DEF Expire
<1> QED BY <1>1, <1>2, <1>3, <1>4, <1>5, <1>6, <1>7
-----------------------------------------------------------------------------
\* An id of the day that is not in use: equity_cli.py, _next_sequence.
LEMMA SequenceIsFree ==
  ASSUME TypeOK, Unused # {}
  PROVE  <<day, NextSequence>> \in Ids \ DOMAIN journal
<1>1. Unused \subseteq Nat
  BY DEF Unused
<1>2. \E n \in Unused : \A m \in Unused : n <= m
  <2>1. PICK n \in Unused : \A m \in Unused : <<m, n>> \notin OpToRel(<, Nat)
    BY <1>1, WFMin, NatLessThanWellFounded, Zenon
  <2>2. \A m \in Unused : ~(m < n)
    BY <1>1, <2>1, Zenon DEF OpToRel
  <2> QED BY <1>1, <2>2
<1>3. NextSequence \in Unused
  BY <1>2 DEF NextSequence
<1> QED BY <1>3 DEF Unused, Ids, TypeOK

\* A line at a free id, of a book that is archived and of orders the broker
\* bears out, keeps what is written down.
LEMMA JournalGrows ==
  ASSUME Inv, NEW id \in Ids \ DOMAIN journal, NEW line \in Record,
         journal' = With(journal, id, line), UNCHANGED orders,
         DOMAIN archive \subseteq DOMAIN archive', \A f \in DOMAIN archive' : archive'[f] = f,
         line.book # NoBook => line.book \in DOMAIN archive',
         \A o \in line.orders :
           /\ o.outcome = "submitted" => ClientOrderId(line.book, o, id[1]) \in DOMAIN orders
           /\ o.side = "sell" => o.outcome # "vetoed"
  PROVE  /\ JournalInv'
         /\ DOMAIN journal' \subseteq Ids
         /\ \A other \in DOMAIN journal' : journal'[other] \in Record
<1>1. /\ DOMAIN journal' = DOMAIN journal \union {id}
      /\ journal'[id] = line
      /\ \A other \in DOMAIN journal : journal'[other] = journal[other]
  BY DEF With
<1>2. JournalIsEvidence'
  BY <1>1 DEF Inv, JournalInv, JournalIsEvidence, Submitted, KeyIn, ClientOrderId
<1>3. SellsAreNeverVetoed'
  BY <1>1 DEF Inv, JournalInv, SellsAreNeverVetoed
<1>4. \A other \in DOMAIN journal' :
        journal'[other].book # NoBook => journal'[other].book \in DOMAIN archive'
  BY <1>1 DEF Inv, JournalInv
<1> QED BY <1>1, <1>2, <1>3, <1>4 DEF Inv, JournalInv, TypeOK

LEMMA StartPassKeeps ==
  ASSUME Inv, NEW by \in {"run", "rebalance", "plan"}, StartPass(by)
  PROVE  Inv'
<1> DEFINE b == FindLatestBook
           id == <<day, NextSequence>>
<1>1. id \in Ids \ DOMAIN journal /\ TypeOK /\ JournalInv
  BY SequenceIsFree DEF StartPass, MayStart, Inv
<1>2. pass.pc = "idle" /\ (by = "run" => b = NoBook \/ ~AlreadyDecided(b))
  BY DEF StartPass, MayStart, BookAwaitsAPass
<1>3. /\ UNCHANGED <<day, disk, session, crashes, orders, wire, shares>>
      /\ \/ b \notin Usable /\ GiveUp("no_book", NoBook) /\ UNCHANGED archive
         \/ b \in Usable /\ archive' = With(archive, ArchivePath(b), b) /\ Stale(b)
              /\ GiveUp("stale_book", b)
         \/ b \in Usable /\ archive' = With(archive, ArchivePath(b), b) /\ ~Stale(b)
              /\ UNCHANGED journal
              /\ pass' = [NoPass EXCEPT !.pc = "reading", !.by = by, !.book = b,
                                        !.submit = Submits(by), !.seq = NextSequence]
  BY DEF StartPass, Broker, LoadTargetBook
<1> HIDE DEF id, b
<1>4. b \in Usable /\ archive' = With(archive, ArchivePath(b), b) =>
        /\ DOMAIN archive' = DOMAIN archive \union {b}
        /\ \A f \in DOMAIN archive' : archive'[f] = f
  BY <1>1 DEF ArchivePath, With, JournalInv
<1>5. CASE b \notin Usable /\ GiveUp("no_book", NoBook) /\ UNCHANGED archive
  <2> DEFINE line == [stage |-> "no_book", book |-> NoBook, orders |-> {}]
  <2>1. line \in Record /\ line.book = NoBook /\ line.orders = {}
    BY DEF Record, Stages
  <2>2. journal' = With(journal, id, line) /\ UNCHANGED <<pass, archive>>
    BY <1>5 DEF GiveUp, id
  <2> HIDE DEF line
  <2>3. /\ JournalInv' /\ DOMAIN journal' \subseteq Ids
        /\ \A other \in DOMAIN journal' : journal'[other] \in Record
    BY <1>1, <1>3, <2>1, <2>2, JournalGrows DEF JournalInv
  <2>4. TypeOK'
    BY <1>1, <1>3, <2>2, <2>3 DEF TypeOK, PassType
  <2>5. PassInv'
    BY <1>2, <2>2 DEF Inv, PassInv
  <2> QED BY <2>3, <2>4, <2>5 DEF Inv
<1>6. CASE b \in Usable /\ archive' = With(archive, ArchivePath(b), b) /\ GiveUp("stale_book", b)
  <2> DEFINE line == [stage |-> "stale_book", book |-> b, orders |-> {}]
  <2>1. line \in Record /\ line.book = b /\ line.orders = {}
    BY <1>6 DEF Record, Stages
  <2>2. journal' = With(journal, id, line) /\ UNCHANGED pass
    BY <1>6 DEF GiveUp, id
  <2> HIDE DEF line
  <2>3. /\ JournalInv' /\ DOMAIN journal' \subseteq Ids
        /\ \A other \in DOMAIN journal' : journal'[other] \in Record
    BY <1>1, <1>3, <1>4, <1>6, <2>1, <2>2, JournalGrows
  <2>4. TypeOK'
    BY <1>1, <1>3, <1>4, <1>6, <2>2, <2>3 DEF TypeOK, PassType
  <2>5. PassInv'
    BY <1>2, <2>2 DEF Inv, PassInv
  <2> QED BY <2>3, <2>4, <2>5 DEF Inv
<1>7. CASE /\ b \in Usable /\ archive' = With(archive, ArchivePath(b), b) /\ ~Stale(b)
           /\ UNCHANGED journal
           /\ pass' = [NoPass EXCEPT !.pc = "reading", !.by = by, !.book = b,
                                     !.submit = Submits(by), !.seq = NextSequence]
  <2>1. Submits(by) \in BOOLEAN /\ NextSequence \in Nat
    BY <1>1 DEF Submits, Ids, id
  <2>2. /\ pass'.pc = "reading" /\ pass'.by = by /\ pass'.book = b /\ pass'.seq = NextSequence
        /\ pass'.plan = {} /\ pass'.done = {} /\ pass' \in PassType'
    BY <1>7, <2>1 DEF NoPass, PassType, Stages
  <2>3. TypeOK'
    BY <1>1, <1>3, <1>4, <1>7, <2>2 DEF TypeOK
  <2>4. JournalInv'
    BY <1>1, <1>3, <1>4, <1>7 DEF JournalInv, JournalIsEvidence, SellsAreNeverVetoed,
      Submitted, KeyIn, ClientOrderId
  <2>5. by = "run" => Undecided'
    <3> SUFFICES ASSUME by = "run", NEW other \in DOMAIN journal,
                        other[1] = day, journal[other].book = b
                 PROVE  journal[other].stage \in {"no_book", "no_marks"}
      BY <1>3, <1>7, <2>2 DEF Undecided
    <3>1. ~AlreadyDecided(b)
      BY <1>2, <1>7
    <3>2. journal[other].stage \notin DecidedStages
      BY <3>1 DEF AlreadyDecided, Today
    <3>3. journal[other].stage \in Stages
      BY <1>1 DEF TypeOK, Record
    <3> QED BY <3>2, <3>3 DEF Stages, DecidedStages
  <2>6. PassInv'
    BY <1>1, <1>3, <1>4, <1>7, <2>2, <2>5 DEF PassInv, Stale, id
  <2> QED BY <2>3, <2>4, <2>6 DEF Inv
<1> QED BY <1>3, <1>5, <1>6, <1>7
-----------------------------------------------------------------------------
LEMMA ReadAccountKeeps ==
  ASSUME Inv, NEW unpriced, NEW untradeable, NEW drawn,
         ReadAccount(unpriced, untradeable, drawn)
  PROVE  Inv'
<1> DEFINE plan == Plan(pass.book, shares, Symbols \ (unpriced \union untradeable))
<1>1. PICK snap : pass' = [pass EXCEPT !.plan = plan, !.snap = snap,
                             !.pc = IF plan = {} THEN "recording" ELSE "placing",
                             !.stage = IF IsBlind(pass.book, shares, unpriced)
                                       THEN "no_marks" ELSE "no_trades"]
  BY Zenon DEF ReadAccount
<1>2. /\ pass.pc = "reading"
      /\ UNCHANGED <<day, disk, session, journal, archive, crashes, orders, wire, shares>>
  BY DEF ReadAccount, Broker
<1>3. plan \in SUBSET Intent /\ \A i \in plan : i.side = "sell" => i.held >= i.shares
  BY <1>2, PlanType DEF Inv, TypeOK
<1> HIDE DEF plan
<1>4. /\ pass' \in PassType' /\ pass'.pc \in {"recording", "placing"} /\ pass'.plan = plan
      /\ pass'.by = pass.by /\ pass'.book = pass.book /\ pass'.seq = pass.seq
      /\ pass'.done = pass.done
  BY <1>1, <1>3 DEF Inv, TypeOK, PassType, Stages
<1>5. TypeOK'
  BY <1>2, <1>4 DEF Inv, TypeOK
<1>6. PassInv'
  BY <1>2, <1>3, <1>4 DEF Inv, PassInv, Undecided, Stale, KeyOf, ClientOrderId
<1> QED BY <1>2, <1>5, <1>6, EvidenceStands DEF Inv

\* One intent is done with, and what is said of it is so.
LEMMA DoneKeeps ==
  ASSUME Inv, pass.pc = "placing", NEW i \in pass.plan,
         NEW what \in {"vetoed", "dry_run", "submitted"}, Done(i, what),
         DOMAIN orders \subseteq DOMAIN orders', UNCHANGED <<day, journal, archive>>,
         what = "submitted" => KeyOf(i) \in DOMAIN orders',
         i.side = "sell" => what # "vetoed"
  PROVE  pass' \in PassType' /\ pass'.book \in Usable /\ PassInv' /\ JournalInv'
<1> DEFINE line == Outcome(i, what)
<1>1. PICK snap : pass' = [pass EXCEPT !.plan = pass.plan \ {i},
                                       !.done = pass.done \union {line}, !.snap = snap]
  BY DEF Done
<1>2. i \in Intent
  BY DEF Inv, TypeOK, PassType
<1>3. /\ line \in OrderRecord /\ line.outcome = what /\ line.side = i.side
      /\ KeyOf(line) = KeyOf(i)
  BY <1>2 DEF Outcome, OrderRecord, Intent, KeyOf, ClientOrderId
<1> HIDE DEF line
<1>4. /\ pass' \in PassType' /\ pass'.pc = pass.pc /\ pass'.plan = pass.plan \ {i}
      /\ pass'.by = pass.by /\ pass'.book = pass.book /\ pass'.seq = pass.seq
      /\ pass'.done = pass.done \union {line}
  BY <1>1, <1>3 DEF Inv, TypeOK, PassType
<1>5. \A o \in pass'.done : /\ o.outcome = "submitted" => KeyOf(o)' \in DOMAIN orders'
                            /\ o.side = "sell" => o.outcome # "vetoed"
  BY <1>3, <1>4 DEF Inv, PassInv, KeyOf, ClientOrderId
<1>6. PassInv'
  BY <1>4, <1>5 DEF Inv, PassInv, Undecided, Stale
<1> QED BY <1>4, <1>6, EvidenceStands DEF Inv, TypeOK

\* ... or the pass stops at it.
LEMMA HaltKeeps ==
  ASSUME Inv, pass.pc = "placing", NEW i \in pass.plan, Halt(i),
         UNCHANGED <<day, journal, archive, orders>>
  PROVE  pass' \in PassType' /\ pass'.book \in Usable /\ PassInv' /\ JournalInv'
<1> DEFINE line == Outcome(i, "halted")
<1>1. i \in Intent
  BY DEF Inv, TypeOK, PassType
<1>2. line \in OrderRecord /\ line.outcome = "halted"
  BY <1>1 DEF Outcome, OrderRecord, Intent
<1>3. pass' = [pass EXCEPT !.pc = "recording", !.stage = "halted",
                           !.done = pass.done \union {line}]
  BY DEF Halt
<1> HIDE DEF line
<1>4. /\ pass' \in PassType' /\ pass'.pc = "recording" /\ pass'.plan = pass.plan
      /\ pass'.by = pass.by /\ pass'.book = pass.book /\ pass'.seq = pass.seq
      /\ pass'.done = pass.done \union {line}
  BY <1>2, <1>3 DEF Inv, TypeOK, PassType, Stages
<1>5. PassInv'
  BY <1>2, <1>4 DEF Inv, PassInv, Undecided, Stale, KeyOf, ClientOrderId
<1> QED BY <1>4, <1>5, EvidenceStands DEF Inv, TypeOK

\* A request that is left on the wire has the type of one.
LEMMA WireType ==
  ASSUME Inv, pass.pc # "idle", NEW i \in pass.plan, LeaveOnWire(i)
  PROVE  wire' \subseteq [key : Key, shares : Nat \ {0}]
<1>1. i \in Intent
  BY DEF Inv, TypeOK, PassType
<1>2. KeyOf(i) \in Key
  BY <1>1, KeyType DEF Inv, Intent
<1> QED BY <1>1, <1>2 DEF LeaveOnWire, Inv, TypeOK, Intent

LEMMA PlacingKeeps ==
  ASSUME Inv, NEW i \in pass.plan,
         \/ Veto(i) \/ DryRun(i) \/ Accepted(i) \/ ReadBackAnother(i) \/ Refused(i)
         \/ LeftUnknown(i)
  PROVE  Inv'
<1>1. i \in Intent /\ TypeOK /\ pass.pc = "placing"
  BY DEF Inv, TypeOK, PassType, Veto, DryRun, Accepted, ReadBackAnother, Refused, LeftUnknown,
    Sending, Judging
<1>2. CASE Veto(i)
  <2>1. i.side # "sell"
    <3>1. ~Stale(pass.book) /\ (i.side = "sell" => i.held >= i.shares)
      BY <1>1 DEF Inv, PassInv
    <3> QED BY <1>2, <3>1 DEF Veto, Approved, Unwaived
  <2>2. pass' \in PassType' /\ pass'.book \in Usable /\ PassInv' /\ JournalInv'
    BY <1>1, <1>2, <2>1, DoneKeeps DEF Veto, Broker
  <2>3. TypeOK'
    BY <1>1, <1>2, <2>2 DEF Veto, Broker, TypeOK
  <2> QED BY <2>2, <2>3 DEF Inv
<1>3. CASE DryRun(i)
  <2>1. pass' \in PassType' /\ pass'.book \in Usable /\ PassInv' /\ JournalInv'
    BY <1>1, <1>3, DoneKeeps DEF DryRun, Broker
  <2>2. TypeOK'
    BY <1>1, <1>3, <2>1 DEF DryRun, Broker, TypeOK
  <2> QED BY <2>1, <2>2 DEF Inv
<1>4. CASE Accepted(i)
  <2>1. KeyOf(i) \in Key /\ i.shares \in Nat \ {0}
    BY <1>1, KeyType DEF Intent
  <2>2. /\ DOMAIN orders' = DOMAIN orders \union {KeyOf(i)}
        /\ \A m \in DOMAIN orders' : orders'[m] \in Order /\ orders'[m].left <= orders'[m].shares
    BY <1>1, <1>4, <2>1, PlaceKeeps DEF Accepted
  <2>3. pass' \in PassType' /\ pass'.book \in Usable /\ PassInv' /\ JournalInv'
    BY <1>1, <1>4, <2>2, DoneKeeps DEF Accepted
  <2>4. TypeOK'
    BY <1>1, <1>4, <2>1, <2>2, <2>3 DEF Accepted, TypeOK
  <2> QED BY <2>3, <2>4 DEF Inv
<1>5. CASE ReadBackAnother(i)
  <2>1. pass' \in PassType' /\ pass'.book \in Usable /\ PassInv' /\ JournalInv'
    BY <1>1, <1>5, DoneKeeps DEF ReadBackAnother, Broker
  <2>2. TypeOK'
    BY <1>1, <1>5, <2>1 DEF ReadBackAnother, Broker, TypeOK
  <2> QED BY <2>1, <2>2 DEF Inv
<1>6. CASE Refused(i)
  <2>1. pass' \in PassType' /\ pass'.book \in Usable /\ PassInv' /\ JournalInv'
    BY <1>1, <1>6, HaltKeeps DEF Refused, Broker
  <2>2. TypeOK'
    BY <1>1, <1>6, <2>1 DEF Refused, Broker, TypeOK
  <2> QED BY <2>1, <2>2 DEF Inv
<1>7. CASE LeftUnknown(i)
  <2>1. pass' \in PassType' /\ pass'.book \in Usable /\ PassInv' /\ JournalInv'
    BY <1>1, <1>7, HaltKeeps DEF LeftUnknown
  <2>2. TypeOK'
    BY <1>1, <1>7, <2>1, WireType DEF LeftUnknown, TypeOK
  <2> QED BY <2>1, <2>2 DEF Inv
<1> QED BY <1>2, <1>3, <1>4, <1>5, <1>6, <1>7

-----------------------------------------------------------------------------
LEMMA RecordPassKeeps ==
  ASSUME Inv, RecordPass
  PROVE  /\ Inv'
         /\ DOMAIN journal' = DOMAIN journal \union {<<day, pass.seq>>}
         /\ <<day, pass.seq>> \notin DOMAIN journal
         /\ \A id \in DOMAIN journal : journal'[id] = journal[id]
<1> DEFINE line == Journalled(pass)
           id == <<day, pass.seq>>
<1>1. /\ pass.pc \in {"recording", "placing"} /\ journal' = With(journal, id, line)
      /\ session' \in {"off", session} /\ pass' = NoPass
      /\ UNCHANGED <<day, disk, archive, crashes, orders, wire, shares>>
  BY DEF RecordPass, Broker
<1>2. id \in Ids \ DOMAIN journal
  BY <1>1 DEF Inv, PassInv
<1>3. line.book = pass.book /\ line.orders = pass.done /\ pass.book \in Books \ {NoBook}
  BY <1>1 DEF Journalled, Inv, TypeOK
<1>4. line \in Record
  <2>1. Stage(pass) \in Stages
    BY DEF Stage, Stages, Inv, TypeOK, PassType
  <2> QED BY <1>3, <2>1 DEF Journalled, Record, Inv, TypeOK, PassType
<1>5. \A o \in line.orders : /\ o.outcome = "submitted" =>
                                  ClientOrderId(line.book, o, id[1]) \in DOMAIN orders
                             /\ o.side = "sell" => o.outcome # "vetoed"
  BY <1>1, <1>3 DEF Inv, PassInv, KeyOf
<1>6. line.book \in DOMAIN archive /\ \A f \in DOMAIN archive : archive[f] = f
  BY <1>1, <1>3 DEF Inv, PassInv, JournalInv
<1> HIDE DEF id, line
<1>7. /\ JournalInv' /\ DOMAIN journal' \subseteq Ids
      /\ \A other \in DOMAIN journal' : journal'[other] \in Record
  BY <1>1, <1>2, <1>4, <1>5, <1>6, JournalGrows
<1>8. TypeOK'
  <2>1. pass' \in PassType' /\ pass'.pc = "idle"
    BY <1>1 DEF NoPass, PassType, Stages
  <2> QED BY <1>1, <1>7, <2>1 DEF Inv, TypeOK
<1>9. PassInv'
  BY <1>1 DEF NoPass, PassInv
<1>10. Inv'
  BY <1>7, <1>8, <1>9 DEF Inv
<1>11. /\ DOMAIN journal' = DOMAIN journal \union {id}
       /\ \A other \in DOMAIN journal : journal'[other] = journal[other]
  BY <1>1, <1>2 DEF With
<1> QED BY <1>2, <1>10, <1>11 DEF id

LEMMA CrashKeeps ==
  ASSUME Inv, Crash
  PROVE  Inv'
<1>1. /\ pass.pc # "idle" /\ crashes' = crashes + 1 /\ session' \in {"off", session}
      /\ pass' = NoPass
      /\ UNCHANGED <<day, disk, journal, archive, orders, shares>>
  BY DEF Crash
<1>2. wire' \subseteq [key : Key, shares : Nat \ {0}]
  <2>1. CASE UNCHANGED wire
    BY <2>1 DEF Inv, TypeOK
  <2>2. CASE \E i \in pass.plan : Sending(i) /\ LeaveOnWire(i)
    BY <1>1, <2>2, WireType
  <2> QED BY <2>1, <2>2 DEF Crash
<1>3. pass' \in PassType' /\ pass'.pc = "idle"
  BY <1>1 DEF NoPass, PassType, Stages
<1>4. TypeOK'
  BY <1>1, <1>2, <1>3 DEF Inv, TypeOK
<1>5. PassInv'
  BY <1>1 DEF NoPass, PassInv
<1> QED BY <1>1, <1>4, <1>5, EvidenceStands DEF Inv

LEMMA InvNext == Inv /\ [Next]_vars => Inv'
<1> SUFFICES ASSUME Inv, [Next]_vars PROVE Inv'
  OBVIOUS
<1>1. ASSUME NEW by \in {"run", "rebalance", "plan"}, StartPass(by) PROVE Inv'
  BY <1>1, StartPassKeeps
<1>2. CASE Reading
  BY <1>2, ReadAccountKeeps DEF Reading
<1>3. CASE Placing
  BY <1>3, PlacingKeeps DEF Placing
<1>4. CASE RecordPass
  BY <1>4, RecordPassKeeps
<1>5. CASE Crash
  BY <1>5, CrashKeeps
<1>6. CASE UNCHANGED vars
  <2>1. TypeOK'
    BY <1>6 DEF vars, Broker, Inv, TypeOK, PassType
  <2> QED BY <1>6, <2>1, EvidenceStands, PassStands DEF vars, Broker, Inv
<1>7. CASE \/ StartSession
           \/ NextDay
           \/ \E b \in Books : Publish(b)
           \/ \E r \in wire : Arrives(r) \/ Vanishes(r)
           \/ \E k \in DOMAIN orders : (\E n \in 1..orders[k].left : Fill(k, n)) \/ Expire(k)
  BY <1>7, EnvironmentKeeps
<1> QED BY <1>1, <1>2, <1>3, <1>4, <1>5, <1>6, <1>7 DEF Next

LEMMA InvInvariant == Spec => []Inv
BY InvInit, InvNext, PTL DEF Spec

-----------------------------------------------------------------------------
\* Every variable keeps its type: a plan moves whole positive quantities, a
\* pass at work has a usable book, no order fills beyond its size.
THEOREM EquityTypeCorrect == Spec => []TypeOK
BY InvInvariant, PTL DEF Inv

\* What the journal calls submitted, the broker has, after any crash, timeout
\* or late request, and the book behind every line of the journal is kept,
\* however often its session is regenerated.
THEOREM EquityJournalIsBacked == Spec => []JournalIsBacked
<1>1. Inv => EvidenceIsKept
  BY DEF Inv, JournalInv, EvidenceIsKept
<1>2. Inv => JournalIsBacked
  BY <1>1 DEF Inv, JournalInv, JournalIsBacked
<1> QED BY <1>2, InvInvariant, PTL

\* No exit is stopped at the gate: the plan never sells more than is held, and
\* the budgets are waived.
THEOREM EquitySellsAreNeverVetoed == Spec => []SellsAreNeverVetoed
BY InvInvariant, PTL DEF Inv, JournalInv

\* No pass writes over the line of another, in whatever process.
THEOREM EquityPassesAreKept == Spec => PassesAreKept
<1> DEFINE Kept == \A id \in DOMAIN journal : id \in DOMAIN journal' /\ journal'[id] = journal[id]
<1>1. Inv /\ [Next]_vars => [Kept]_vars
  <2> SUFFICES ASSUME Inv, Next PROVE Kept
    OBVIOUS
  <2>1. CASE RecordPass
    BY <2>1, RecordPassKeeps
  <2>2. ASSUME NEW by \in {"run", "rebalance", "plan"}, StartPass(by) PROVE Kept
    <3>1. CASE UNCHANGED journal
      BY <3>1
    <3>2. CASE \E line : journal' = With(journal, <<day, NextSequence>>, line)
      <4>1. <<day, NextSequence>> \notin DOMAIN journal
        BY <2>2, SequenceIsFree DEF StartPass, MayStart, Inv
      <4> QED BY <3>2, <4>1 DEF With
    <3> QED BY <2>2, <3>1, <3>2 DEF StartPass, GiveUp
  <2>3. CASE UNCHANGED journal
    BY <2>3
  <2>4. Next => \/ RecordPass
                \/ \E by \in {"run", "rebalance", "plan"} : StartPass(by)
                \/ UNCHANGED journal
    BY DEF Next, StartSession, NextDay, Reading, ReadAccount, Placing, Veto, DryRun, Accepted,
      ReadBackAnother, Refused, LeftUnknown, Crash, Publish, Arrives, Vanishes, Fill, Expire
  <2> QED BY <2>1, <2>2, <2>3, <2>4
<1> QED BY <1>1, InvInvariant, PTL DEF Spec, PassesAreKept

\* A session's pass sends nothing for a book that a pass of the day decided.
THEOREM EquitySessionNeverReplays == Spec => SessionNeverReplays
<1> DEFINE New == Sends /\ pass.by = "run" =>
              \A id \in Today(day) :
                journal[id].book = pass.book => journal[id].stage \in {"no_book", "no_marks"}
<1>1. Inv => New
  BY DEF Inv, PassInv, Undecided, Sends, Today
<1>2. Inv /\ [Next]_vars => [New]_vars
  BY <1>1
<1> QED BY <1>2, InvInvariant, PTL DEF Spec, SessionNeverReplays

-----------------------------------------------------------------------------
(***************************************************************************)
(* Selling short takes two books                                           *)
(***************************************************************************)
SellsOf(s) == {k \in DOMAIN orders : k.symbol = s /\ k.side = "sell"}
SoldToday(s) == \E k \in SellsOf(s) : k.day = day
TwoBooks(s) == \E k, m \in SellsOf(s) : k.book # m.book /\ k.day = m.day

IsSell(i, s) == i.symbol = s /\ i.side = "sell"

\* What is sold or may yet be sold of a name is there to sell: the order that
\* works, or, before the first of the day, each of the requests that compete
\* for its key.
Covered(s) ==
  /\ shares[s] >= 0
  /\ \A k \in SellsOf(s) : Live(k) => orders[k].left <= shares[s]
  /\ SoldToday(s) \/ /\ \A r \in wire : IsSell(r.key, s) => r.shares <= shares[s]
                     /\ \A i \in pass.plan : IsSell(i, s) => i.shares <= shares[s]

DayInv ==
  /\ pass.pc = "idle" => pass.plan = {}
  /\ \A r \in wire : r.key.day = day
  /\ \A k \in DOMAIN orders : Live(k) => k.day = day

ShortInv == DayInv /\ \A s \in Symbols : TwoBooks(s) \/ Covered(s)

LEMMA ShortInit == Init => ShortInv
BY DEF Init, NoPass, ShortInv, DayInv, Covered, SellsOf

\* A step that leaves broker and account alone, and adds to the wire at most a
\* request of the pass.
LEMMA QuietKeeps ==
  ASSUME Inv, ShortInv, UNCHANGED <<day, orders, shares>>, pass'.plan \subseteq pass.plan,
         pass'.pc = "idle" => pass'.plan = {},
         \A r \in wire' \ wire : \E i \in pass.plan : r.key = KeyOf(i) /\ r.shares = i.shares
  PROVE  ShortInv'
<1>1. \A i : KeyOf(i).day = day /\ KeyOf(i).symbol = i.symbol /\ KeyOf(i).side = i.side
  BY DEF KeyOf, ClientOrderId
<1>2. DayInv'
  BY <1>1 DEF ShortInv, DayInv, Live
<1>3. ASSUME NEW s \in Symbols, Covered(s) PROVE Covered(s)'
  <2>1. SellsOf(s)' = SellsOf(s) /\ (SoldToday(s)' <=> SoldToday(s))
    BY DEF SellsOf, SoldToday
  <2>2. SoldToday(s) \/ \A r \in wire' : IsSell(r.key, s) => r.shares <= shares[s]
    BY <1>1, <1>3 DEF Covered, IsSell
  <2> QED BY <1>3, <2>1, <2>2 DEF Covered, Live, IsSell
<1>4. \A s \in Symbols : TwoBooks(s) => TwoBooks(s)'
  BY DEF TwoBooks, SellsOf
<1> QED BY <1>2, <1>3, <1>4 DEF ShortInv

\* An order that is placed: the first of the day is covered, a second has
\* another book.
LEMMA PlaceCovered ==
  ASSUME Inv, ShortInv, NEW k \in Key, NEW n \in Nat \ {0}, Place(k, n), k \notin DOMAIN orders,
         k.day = day, UNCHANGED <<day, shares>>, wire' \subseteq wire, pass'.plan \subseteq pass.plan,
         pass'.pc = "idle" => pass'.plan = {},
         k.side = "sell" => SoldToday(k.symbol) \/ TwoBooks(k.symbol) \/ n <= shares[k.symbol]
  PROVE  ShortInv'
<1>1. /\ DOMAIN orders' = DOMAIN orders \union {k} /\ orders'[k].left = n
      /\ \A m \in DOMAIN orders : orders'[m] = orders[m]
  BY DEF Place, With
<1>2. DayInv'
  BY <1>1 DEF ShortInv, DayInv, Live
<1>3. \A s \in Symbols : SellsOf(s)' = SellsOf(s) \union (IF IsSell(k, s) THEN {k} ELSE {})
  BY <1>1 DEF SellsOf, IsSell
<1>4. \A s \in Symbols : TwoBooks(s) => TwoBooks(s)'
  BY <1>3 DEF TwoBooks
<1>5. ASSUME NEW s \in Symbols, Covered(s), ~IsSell(k, s) PROVE Covered(s)'
  <2>1. SellsOf(s)' = SellsOf(s) /\ (SoldToday(s)' <=> SoldToday(s))
    BY <1>3, <1>5 DEF SoldToday
  <2> QED BY <1>1, <1>5, <2>1 DEF Covered, Live, SellsOf
<1>6. ASSUME NEW s \in Symbols, Covered(s), IsSell(k, s), SoldToday(s) PROVE TwoBooks(s)'
  <2>1. PICK m \in SellsOf(s) : m.day = day
    BY <1>6 DEF SoldToday
  <2>2. m \in Key /\ m.symbol = k.symbol /\ m.side = k.side /\ m.day = k.day
    BY <1>6, <2>1 DEF SellsOf, IsSell, Inv, TypeOK
  <2>3. m.book # k.book
    BY <2>1, <2>2 DEF SellsOf, Key
  <2> QED BY <1>3, <1>6, <2>1, <2>2, <2>3 DEF TwoBooks
<1>7. ASSUME NEW s \in Symbols, Covered(s), IsSell(k, s), ~SoldToday(s), ~TwoBooks(s)
      PROVE  Covered(s)'
  <2>1. n <= shares[s]
    BY <1>7 DEF IsSell
  <2>2. SoldToday(s)'
    BY <1>3, <1>7 DEF SoldToday
  <2>3. \A m \in SellsOf(s) : ~Live(m)
    BY <1>7 DEF SoldToday, SellsOf, ShortInv, DayInv
  <2>4. \A m \in SellsOf(s)' : Live(m)' => m = k
    BY <1>1, <1>3, <2>3 DEF Live, SellsOf
  <2> QED BY <1>1, <1>7, <2>1, <2>2, <2>4 DEF Covered
<1> QED BY <1>2, <1>4, <1>5, <1>6, <1>7 DEF ShortInv

\* What fills was covered, and nothing else works.
LEMMA FillKeeps ==
  ASSUME Inv, ShortInv, NEW k \in DOMAIN orders, NEW n \in 1..orders[k].left, Fill(k, n)
  PROVE  ShortInv'
<1>1. /\ k \in Key /\ k.symbol \in Symbols /\ Live(k) /\ n \in Nat /\ n >= 1 /\ n <= orders[k].left
      /\ UNCHANGED <<day, pass, wire>> /\ orders[k] \in Order /\ orders[k].left \in Nat
  BY DEF Fill, Inv, TypeOK, Key, Order
<1>2. /\ DOMAIN orders' = DOMAIN orders /\ \A m \in DOMAIN orders \ {k} : orders'[m] = orders[m]
      /\ orders'[k].left = orders[k].left - n
  <2>1. orders' = [orders EXCEPT ![k].left = @ - n, ![k].live = n < orders[k].left]
    BY DEF Fill
  <2>2. orders'[k] = [orders[k] EXCEPT !.left = @ - n, !.live = n < orders[k].left]
    BY <2>1
  <2> QED BY <1>1, <2>1, <2>2 DEF Order
<1>3. /\ \A s \in Symbols : shares[s] \in Int
      /\ \A s \in Symbols \ {k.symbol} : shares'[s] = shares[s]
      /\ k.side = "buy" => shares'[k.symbol] = shares[k.symbol] + n
      /\ k.side # "buy" => shares'[k.symbol] = shares[k.symbol] - n
  BY <1>1 DEF Fill, Inv, TypeOK
<1>4. \A s \in Symbols : /\ SellsOf(s)' = SellsOf(s) /\ (SoldToday(s)' <=> SoldToday(s))
                         /\ (TwoBooks(s)' <=> TwoBooks(s))
  BY <1>1, <1>2 DEF SellsOf, SoldToday, TwoBooks
<1>5. DayInv'
  BY <1>1, <1>2 DEF ShortInv, DayInv, Live
<1>6. ASSUME NEW s \in Symbols, Covered(s), ~IsSell(k, s) PROVE Covered(s)'
  <2>1. shares'[s] >= shares[s]
    BY <1>1, <1>3, <1>6 DEF IsSell, Key, Sides
  <2>2. \A m \in SellsOf(s) : orders'[m] = orders[m] /\ orders[m].left \in Nat
    BY <1>2, <1>6 DEF SellsOf, IsSell, Inv, TypeOK, Order
  <2>3. \A r \in wire : r.shares \in Nat
    BY DEF Inv, TypeOK
  <2>4. \A i \in pass.plan : i.shares \in Nat
    BY DEF Inv, TypeOK, PassType, Intent
  <2>5. shares'[s] \in Int /\ shares[s] \in Int
    BY <1>1, <1>3
  <2> HIDE DEF Inv
  <2> QED BY <1>1, <1>4, <1>6, <2>1, <2>2, <2>3, <2>4, <2>5 DEF Covered, Live
<1>7. ASSUME NEW s \in Symbols, Covered(s), IsSell(k, s), ~TwoBooks(s) PROVE Covered(s)'
  <2>1. k \in SellsOf(s) /\ k.day = day /\ SoldToday(s)
    BY <1>1, <1>7 DEF SellsOf, IsSell, SoldToday, ShortInv, DayInv
  <2>2. ASSUME NEW m \in SellsOf(s), Live(m) PROVE m = k
    <3>1. m.day = day /\ m \in Key
      BY <2>2 DEF ShortInv, DayInv, SellsOf, Inv, TypeOK
    <3>2. m.book = k.book
      BY <1>7, <2>1, <2>2, <3>1 DEF TwoBooks
    <3> QED BY <1>1, <1>7, <2>1, <2>2, <3>1, <3>2 DEF SellsOf, IsSell, Key
  <2>3. orders[k].left <= shares[s]
    BY <1>1, <1>7, <2>1 DEF Covered
  <2>4. k.side # "buy" /\ k.symbol = s
    BY <1>7 DEF IsSell
  <2>5. shares'[s] >= 0 /\ orders'[k].left <= shares'[s]
    BY <1>1, <1>2, <1>3, <2>3, <2>4
  <2>6. \A m \in SellsOf(s) : Live(m)' => m = k
    BY <1>2, <2>2 DEF Live, SellsOf
  <2> QED BY <1>4, <2>1, <2>5, <2>6 DEF Covered
<1> QED BY <1>4, <1>5, <1>6, <1>7 DEF ShortInv

LEMMA ExpireKeeps ==
  ASSUME Inv, ShortInv, NEW k \in DOMAIN orders, Expire(k)
  PROVE  ShortInv'
<1>1. UNCHANGED <<day, pass, wire, shares>> /\ orders[k] \in Order
  BY DEF Expire, Inv, TypeOK
<1>2. /\ DOMAIN orders' = DOMAIN orders /\ \A m \in DOMAIN orders \ {k} : orders'[m] = orders[m]
      /\ ~orders'[k].live
  BY <1>1 DEF Expire, Order
<1>3. \A s \in Symbols : /\ SellsOf(s)' = SellsOf(s) /\ (SoldToday(s)' <=> SoldToday(s))
                         /\ (TwoBooks(s)' <=> TwoBooks(s))
  BY <1>1, <1>2 DEF SellsOf, SoldToday, TwoBooks
<1>4. DayInv'
  BY <1>1, <1>2 DEF ShortInv, DayInv, Live
<1>5. ASSUME NEW s \in Symbols, Covered(s) PROVE Covered(s)'
  BY <1>1, <1>2, <1>3, <1>5 DEF Covered, Live, SellsOf
<1> QED BY <1>3, <1>4, <1>5 DEF ShortInv

\* A plan is made of what is held.
LEMMA PlanIsOfHoldings ==
  ASSUME NEW b, NEW held, NEW priced, NEW i \in Plan(b, held, priced)
  PROVE  /\ i.symbol \in Symbols /\ i.held = held[i.symbol] /\ Move(b, i.symbol, i.held) # 0
         /\ i.side = (IF Move(b, i.symbol, i.held) > 0 THEN "buy" ELSE "sell")
         /\ i.shares = Magnitude(Move(b, i.symbol, i.held))
BY DEF Plan, Universe

LEMMA ReadCovered ==
  ASSUME Inv, ShortInv, NEW unpriced, NEW untradeable, NEW drawn,
         ReadAccount(unpriced, untradeable, drawn)
  PROVE  ShortInv'
<1> DEFINE plan == Plan(pass.book, shares, Symbols \ (unpriced \union untradeable))
<1>1. PICK snap, stage : pass' = [pass EXCEPT !.plan = plan, !.snap = snap,
                             !.pc = IF plan = {} THEN "recording" ELSE "placing", !.stage = stage]
  BY Zenon DEF ReadAccount
<1>2. pass.pc = "reading" /\ UNCHANGED <<day, orders, wire, shares>>
  BY DEF ReadAccount, Broker
<1>3. pass.book \in Books /\ shares \in [Symbols -> Int]
  BY <1>2 DEF Inv, TypeOK
<1>4. \A i \in plan : IsSell(i, i.symbol) => i.shares <= shares[i.symbol]
  BY <1>3, PlanType, PlanIsOfHoldings DEF IsSell
<1> HIDE DEF plan
<1>5. pass'.plan = plan /\ pass'.pc # "idle"
  BY <1>1 DEF Inv, TypeOK, PassType
<1>6. DayInv'
  BY <1>2, <1>5 DEF ShortInv, DayInv, Live
<1>7. ASSUME NEW s \in Symbols, Covered(s) PROVE Covered(s)'
  <2>1. SellsOf(s)' = SellsOf(s) /\ (SoldToday(s)' <=> SoldToday(s))
    BY <1>2 DEF SellsOf, SoldToday
  <2>2. \A i \in plan : IsSell(i, s) => i.shares <= shares[s]
    BY <1>4 DEF IsSell
  <2> QED BY <1>2, <1>5, <1>7, <2>1, <2>2 DEF Covered, Live
<1>8. \A s \in Symbols : TwoBooks(s) => TwoBooks(s)'
  BY <1>2 DEF TwoBooks, SellsOf
<1> QED BY <1>6, <1>7, <1>8 DEF ShortInv

LEMMA NextDayKeeps == ASSUME Inv, ShortInv, NextDay PROVE ShortInv'
<1>1. /\ pass' = pass /\ pass.pc = "idle" /\ wire = {} /\ wire' = {} /\ UNCHANGED <<orders, shares>>
      /\ \A k \in DOMAIN orders : ~Live(k)
  BY DEF NextDay, Broker
<1>2. DayInv'
  BY <1>1 DEF ShortInv, DayInv, Live
<1>3. ASSUME NEW s \in Symbols, Covered(s) PROVE Covered(s)'
  BY <1>1, <1>3 DEF Covered, SellsOf, Live, ShortInv, DayInv
<1>4. \A s \in Symbols : TwoBooks(s) => TwoBooks(s)'
  BY <1>1 DEF TwoBooks, SellsOf
<1> QED BY <1>2, <1>3, <1>4 DEF ShortInv

\* A pass that gets on, sends, stops, is written down or dies.
LEMMA PassCovered ==
  ASSUME Inv, ShortInv, Placing \/ RecordPass \/ Crash \/ \E by : StartPass(by)
  PROVE  ShortInv'
<1>1. ASSUME NEW i \in pass.plan, NEW what, Done(i, what) \/ Halt(i), pass.pc = "placing"
      PROVE  pass'.plan \subseteq pass.plan /\ pass'.pc # "idle"
  <2>1. CASE Done(i, what)
    <3>1. PICK done, snap : pass' = [pass EXCEPT !.plan = pass.plan \ {i}, !.done = done, !.snap = snap]
      BY <2>1 DEF Done
    <3> QED BY <1>1, <3>1 DEF Inv, TypeOK, PassType
  <2>2. CASE Halt(i)
    <3>1. PICK done : pass' = [pass EXCEPT !.pc = "recording", !.stage = "halted", !.done = done]
      BY <2>2 DEF Halt
    <3> QED BY <3>1 DEF Inv, TypeOK, PassType
  <2> QED BY <1>1, <2>1, <2>2
<1>2. NoPass.plan = {}
  BY DEF NoPass
<1>3. CASE \E by : StartPass(by)
  <2>1. UNCHANGED <<day, orders, wire, shares>>
    BY <1>3 DEF StartPass, Broker
  <2>2. CASE UNCHANGED pass
    BY <2>1, <2>2, QuietKeeps DEF ShortInv, DayInv
  <2>3. CASE ~UNCHANGED pass
    <3>1. pass'.plan = {}
      BY <1>3, <2>3 DEF StartPass, GiveUp, NoPass
    <3> QED BY <2>1, <3>1, QuietKeeps
  <2> QED BY <2>2, <2>3
<1>4. CASE RecordPass \/ Crash
  <2>1. pass' = NoPass /\ UNCHANGED <<day, orders, shares>>
    BY <1>4 DEF RecordPass, Crash, Broker
  <2>2. \A r \in wire' \ wire : \E i \in pass.plan : r.key = KeyOf(i) /\ r.shares = i.shares
    BY <1>4 DEF RecordPass, Crash, LeaveOnWire, Broker
  <2> QED BY <1>2, <2>1, <2>2, QuietKeeps
<1>5. ASSUME NEW i \in pass.plan, Veto(i) \/ DryRun(i) \/ ReadBackAnother(i) \/ Refused(i)
      PROVE  ShortInv'
  <2>1. UNCHANGED <<day, orders, wire, shares>>
    BY <1>5 DEF Veto, DryRun, ReadBackAnother, Refused, Broker
  <2>2. pass'.plan \subseteq pass.plan /\ pass'.pc # "idle"
    BY <1>1, <1>5 DEF Veto, DryRun, ReadBackAnother, Refused, Sending, Judging
  <2> QED BY <2>1, <2>2, QuietKeeps
<1>6. ASSUME NEW i \in pass.plan, LeftUnknown(i) PROVE ShortInv'
  <2>1. UNCHANGED <<day, orders, shares>>
    BY <1>6 DEF LeftUnknown
  <2>2. pass'.plan \subseteq pass.plan /\ pass'.pc # "idle"
    BY <1>1, <1>6 DEF LeftUnknown, Sending, Judging
  <2>3. \A r \in wire' \ wire : \E j \in pass.plan : r.key = KeyOf(j) /\ r.shares = j.shares
    BY <1>6 DEF LeftUnknown, LeaveOnWire
  <2> QED BY <2>1, <2>2, <2>3, QuietKeeps
<1>7. ASSUME NEW i \in pass.plan, Accepted(i) PROVE ShortInv'
  <2>1. i \in Intent /\ pass.pc = "placing"
    BY <1>7 DEF Inv, TypeOK, PassType, Accepted, Sending, Judging
  <2>2. KeyOf(i) \in Key /\ i.shares \in Nat \ {0} /\ KeyOf(i) \notin DOMAIN orders
    BY <1>7, <2>1, KeyType DEF Inv, Intent, Accepted, Takes
  <2>3. KeyOf(i).day = day /\ KeyOf(i).symbol = i.symbol /\ KeyOf(i).side = i.side
    BY DEF KeyOf, ClientOrderId
  <2>4. Place(KeyOf(i), i.shares) /\ UNCHANGED <<day, wire, shares>>
    BY <1>7 DEF Accepted
  <2>5. pass'.plan \subseteq pass.plan /\ pass'.pc # "idle"
    BY <1>1, <1>7, <2>1 DEF Accepted
  <2>6. i.side = "sell" => SoldToday(i.symbol) \/ TwoBooks(i.symbol) \/ i.shares <= shares[i.symbol]
    BY <2>1 DEF ShortInv, Covered, IsSell, Intent
  <2> QED BY <2>2, <2>3, <2>4, <2>5, <2>6, PlaceCovered
<1> QED BY <1>3, <1>4, <1>5, <1>6, <1>7 DEF Placing

LEMMA ShortNext == Inv /\ ShortInv /\ [Next]_vars => ShortInv'
<1> SUFFICES ASSUME Inv, ShortInv, [Next]_vars PROVE ShortInv'
  OBVIOUS
<1>1. CASE Placing \/ RecordPass \/ Crash \/ \E by \in {"run", "rebalance", "plan"} : StartPass(by)
  BY <1>1, PassCovered
<1>2. CASE Reading
  BY <1>2, ReadCovered DEF Reading
<1>3. CASE NextDay
  BY <1>3, NextDayKeeps
<1>4. CASE StartSession \/ UNCHANGED vars \/ \E b \in Books : Publish(b)
  <2>1. UNCHANGED <<day, pass, orders, wire, shares>>
    BY <1>4 DEF StartSession, Publish, vars, Broker
  <2> QED BY <2>1, QuietKeeps DEF ShortInv, DayInv
<1>5. ASSUME NEW r \in wire, Arrives(r) PROVE ShortInv'
  <2>1. UNCHANGED <<day, pass, shares>> /\ wire' \subseteq wire
    BY <1>5 DEF Arrives
  <2>2. r.key \in Key /\ r.shares \in Nat \ {0} /\ r.key.day = day /\ r.key.symbol \in Symbols
    BY DEF Inv, TypeOK, ShortInv, DayInv, Key
  <2>3. CASE Takes(r.key, r.shares)
    <3>1. Place(r.key, r.shares) /\ r.key \notin DOMAIN orders
      BY <1>5, <2>3 DEF Arrives, Takes
    <3>2. r.key.side = "sell" =>
            SoldToday(r.key.symbol) \/ TwoBooks(r.key.symbol) \/ r.shares <= shares[r.key.symbol]
      BY <2>2 DEF ShortInv, Covered, IsSell
    <3> QED BY <2>1, <2>2, <3>1, <3>2, PlaceCovered DEF ShortInv, DayInv
  <2>4. CASE ~Takes(r.key, r.shares)
    <3>1. orders' = orders
      BY <1>5, <2>4 DEF Arrives
    <3> QED BY <2>1, <3>1, QuietKeeps DEF ShortInv, DayInv
  <2> QED BY <2>3, <2>4
<1>6. ASSUME NEW r \in wire, Vanishes(r) PROVE ShortInv'
  BY <1>6, QuietKeeps DEF Vanishes, ShortInv, DayInv
<1>7. CASE \E k \in DOMAIN orders : (\E n \in 1..orders[k].left : Fill(k, n)) \/ Expire(k)
  BY <1>7, FillKeeps, ExpireKeeps
<1> QED BY <1>1, <1>2, <1>3, <1>4, <1>5, <1>6, <1>7 DEF Next

\* No book, however revised and however often its pass is repeated, restarted
\* or given up on, sells what the account no longer holds.
THEOREM EquityShortsNeedTwoBooks == Spec => []ShortsNeedTwoBooks
<1>1. Inv /\ ShortInv => ShortsNeedTwoBooks
  <2> SUFFICES ASSUME Inv, ShortInv, NEW s \in Symbols, shares[s] < 0
               PROVE  \E k, m \in DOMAIN orders :
                        /\ k.symbol = s /\ m.symbol = s /\ k.side = "sell" /\ m.side = "sell"
                        /\ k.book # m.book /\ k.day = m.day
    BY DEF ShortsNeedTwoBooks
  <2>1. shares[s] \in Int
    BY DEF Inv, TypeOK
  <2>2. TwoBooks(s)
    BY <2>1 DEF ShortInv, Covered
  <2> QED BY <2>2 DEF TwoBooks, SellsOf
<1> QED BY <1>1, ShortInit, ShortNext, InvInvariant, PTL DEF Spec

-----------------------------------------------------------------------------
(***************************************************************************)
(* A plan that is executed is finished                                     *)
(***************************************************************************)
LEMMA Division ==
  ASSUME NEW d \in Nat, NEW p \in Nat \ {0}
  PROVE  /\ d \div p \in Nat
         /\ (d \div p) * p <= d /\ d < (d \div p) * p + p
         /\ d < p => d \div p = 0
<1>1. d \div p \in Nat
  OBVIOUS
<1>2. (d \div p) * p <= d
  BY SMTT(30)
<1>3. d < (d \div p) * p + p
  BY SMTT(30)
<1> DEFINE q == d \div p
<1>4. q \in Nat /\ q * p <= d
  BY <1>1, <1>2
<1> HIDE DEF q
<1>5. q # 0 => q * p >= p
  BY <1>4
<1>6. d < p => q = 0
  BY <1>4, <1>5
<1> QED BY <1>1, <1>2, <1>3, <1>6 DEF q

\* Less than a share of drift moves nothing, on either side.
LEMMA SmallDriftStays ==
  ASSUME NEW b \in Books, NEW s \in Symbols, NEW held \in Int,
         Magnitude(Drift(b, s, held)) < Price(s)
  PROVE  Move(b, s, held) = 0
<1>1. Drift(b, s, held) \in Int /\ Price(s) \in Nat \ {0}
  BY DEF Drift
<1>2. Magnitude(Drift(b, s, held)) \in Nat
  BY <1>1 DEF Magnitude
<1>3. SharesFor(Drift(b, s, held), s) = 0
  BY <1>1, <1>2, Division DEF SharesFor
<1>4. Lesser(0, Larger(held, 0)) = 0
  BY DEF Lesser, Larger
<1> QED BY <1>3, <1>4 DEF Move

\* Round down on both sides, and one pass is enough.
LEMMA MoveSettles ==
  ASSUME NEW b \in Books, NEW s \in Symbols, NEW held \in Int, Move(b, s, held) # 0
  PROVE  /\ Move(b, s, held + Move(b, s, held)) = 0
         /\ held + Move(b, s, held) >= Lesser(held, 0)
<1> DEFINE w == Want(b, s)
           p == Price(s)
           d == Drift(b, s, held)
           n == SharesFor(d, s)
           m == Move(b, s, held)
<1>1. /\ w \in Nat /\ p \in Nat \ {0} /\ held * p \in Int
      /\ d = w - held * p /\ d \in Int /\ Magnitude(d) \in Nat
  BY DEF Drift, Magnitude
<1>2. n \in Nat /\ n * p \in Nat /\ n * p <= Magnitude(d) /\ Magnitude(d) < n * p + p
  <2>1. n = Magnitude(d) \div p
    BY DEF SharesFor
  <2> HIDE DEF n, d, p
  <2> QED BY <1>1, <2>1, Division
<1>3. d > 0 => m = n
  BY DEF Move
<1>4. ~(d > 0) => m = -Lesser(n, Larger(held, 0))
  BY DEF Move
<1> HIDE DEF w, p, d, n, m
<1>5. CASE d > 0
  <2>1. m = n /\ Magnitude(d) = d
    BY <1>1, <1>3, <1>5 DEF Magnitude
  <2>2. Drift(b, s, held + m) = d - n * p
    <3>1. (held + n) * p = held * p + n * p
      BY <1>1, <1>2
    <3> QED BY <1>1, <1>2, <2>1, <3>1 DEF Drift, w, p
  <2>3. Magnitude(Drift(b, s, held + m)) < p
    BY <1>1, <1>2, <2>1, <2>2 DEF Magnitude
  <2>4. held + m \in Int /\ held + m >= Lesser(held, 0)
    BY <1>2, <2>1 DEF Lesser
  <2>5. Move(b, s, held + m) = 0
    BY <2>3, <2>4, SmallDriftStays DEF p
  <2> QED BY <2>4, <2>5 DEF m
<1>6. CASE ~(d > 0)
  <2>1. Magnitude(d) = -d
    BY <1>1, <1>6 DEF Magnitude
  <2>2. held > 0
    BY <1>2, <1>4, <1>6 DEF Lesser, Larger, m
  <2>3. n <= held
    <3>1. n * p <= held * p
      BY <1>1, <1>2, <2>1
    <3>2. n > held => n * p >= held * p + p
      <4>1. n > held => \E k \in Nat : n = held + 1 + k
        <5>1. n > held => n - held - 1 \in Nat /\ n = held + 1 + (n - held - 1)
          BY <1>2
        <5> QED BY <5>1
      <4>2. \A k \in Nat : (held + 1 + k) * p = held * p + p + k * p /\ k * p \in Nat
        BY <1>1
      <4> QED BY <1>1, <4>1, <4>2
    <3> QED BY <1>1, <1>2, <3>1, <3>2
  <2>4. m = -n
    BY <1>2, <1>4, <1>6, <2>2, <2>3 DEF Lesser, Larger
  <2>5. Drift(b, s, held + m) = d + n * p
    <3>1. (held - n) * p = held * p - n * p
      BY <1>1, <1>2
    <3>2. held + m = held - n
      BY <1>2, <2>4
    <3> QED BY <1>1, <1>2, <3>1, <3>2 DEF Drift, w, p
  <2>6. Magnitude(Drift(b, s, held + m)) < p
    BY <1>1, <1>2, <2>1, <2>5 DEF Magnitude
  <2>7. held + m \in Int /\ held + m >= Lesser(held, 0)
    BY <1>2, <2>2, <2>3, <2>4 DEF Lesser
  <2>8. Move(b, s, held + m) = 0
    BY <2>6, <2>7, SmallDriftStays DEF p
  <2> QED BY <2>7, <2>8 DEF m
<1> QED BY <1>5, <1>6

\* The plan a pass works through was made for its book.
LEMMA SettleNext == Inv /\ PlansSettle /\ [Next]_vars => PlansSettle'
<1> SUFFICES ASSUME Inv, PlansSettle, [Next]_vars PROVE PlansSettle'
  OBVIOUS
<1>1. ASSUME pass'.plan \subseteq pass.plan, pass'.book = pass.book PROVE PlansSettle'
  BY <1>1 DEF PlansSettle, After
<1>2. ASSUME pass'.plan = {} PROVE PlansSettle'
  BY <1>2 DEF PlansSettle
<1>3. CASE Reading
  <2>1. PICK unpriced, untradeable, drawn : ReadAccount(unpriced, untradeable, drawn)
    BY <1>3 DEF Reading
  <2> DEFINE plan == Plan(pass.book, shares, Symbols \ (unpriced \union untradeable))
  <2>2. PICK snap, pc, stage : pass' = [pass EXCEPT !.plan = plan, !.snap = snap, !.pc = pc, !.stage = stage]
    BY <2>1, Zenon DEF ReadAccount
  <2>3. pass.book \in Books /\ shares \in [Symbols -> Int]
    BY <2>1 DEF ReadAccount, Inv, TypeOK
  <2>4. ASSUME NEW i \in plan
        PROVE  Move(pass.book, i.symbol, After(i)) = 0 /\ After(i) >= Lesser(i.held, 0)
    <3>1. /\ i.symbol \in Symbols /\ i.held = shares[i.symbol] /\ Move(pass.book, i.symbol, i.held) # 0
          /\ i.side = (IF Move(pass.book, i.symbol, i.held) > 0 THEN "buy" ELSE "sell")
          /\ i.shares = Magnitude(Move(pass.book, i.symbol, i.held))
      BY PlanIsOfHoldings
    <3>2. i.held \in Int /\ Move(pass.book, i.symbol, i.held) \in Int
      BY <2>3, <3>1, MoveIsCovered
    <3>3. After(i) = i.held + Move(pass.book, i.symbol, i.held)
      BY <3>1, <3>2 DEF After, Magnitude
    <3> QED BY <2>3, <3>1, <3>2, <3>3, MoveSettles
  <2> HIDE DEF plan
  <2>5. pass'.plan = plan /\ pass'.book = pass.book
    BY <2>2 DEF Inv, TypeOK, PassType
  <2>6. \A i : After(i)' = After(i)
    BY DEF After
  <2> QED BY <2>4, <2>5, <2>6 DEF PlansSettle
<1>4. CASE RecordPass \/ Crash
  BY <1>2, <1>4 DEF RecordPass, Crash, NoPass
<1>5. ASSUME NEW by, StartPass(by) PROVE PlansSettle'
  <2>1. CASE pass' = pass
    BY <1>1, <2>1
  <2>2. CASE pass' # pass
    <3>1. pass'.plan = {}
      BY <1>5, <2>2 DEF StartPass, GiveUp, NoPass
    <3> QED BY <1>2, <3>1
  <2> QED BY <2>1, <2>2
<1>6. CASE Placing
  <2>1. PICK i \in pass.plan : Halt(i) \/ \E what : Done(i, what)
    BY <1>6 DEF Placing, Veto, DryRun, Accepted, ReadBackAnother, Refused, LeftUnknown
  <2>2. CASE Halt(i)
    <3>1. PICK done : pass' = [pass EXCEPT !.pc = "recording", !.stage = "halted", !.done = done]
      BY <2>2 DEF Halt
    <3> QED BY <1>1, <3>1 DEF Inv, TypeOK, PassType
  <2>3. ASSUME NEW what, Done(i, what) PROVE PlansSettle'
    <3>1. PICK done, snap : pass' = [pass EXCEPT !.plan = pass.plan \ {i}, !.done = done, !.snap = snap]
      BY <2>3 DEF Done
    <3> QED BY <1>1, <3>1 DEF Inv, TypeOK, PassType
  <2> QED BY <2>1, <2>2, <2>3
<1>7. CASE \/ StartSession \/ NextDay \/ UNCHANGED vars \/ \E b \in Books : Publish(b)
           \/ \E r \in wire : Arrives(r) \/ Vanishes(r)
           \/ \E k \in DOMAIN orders : (\E n \in 1..orders[k].left : Fill(k, n)) \/ Expire(k)
  <2>1. pass' = pass
    BY <1>7 DEF StartSession, NextDay, vars, Publish, Arrives, Vanishes, Fill, Expire
  <2> QED BY <1>1, <2>1
<1> QED BY <1>3, <1>4, <1>5, <1>6, <1>7 DEF Next

\* What a plan orders leaves every name inside the band or less than a share
\* from its target, and never past what is held: the pass need not be repeated.
THEOREM EquityPlansSettle == Spec => []PlansSettle
<1>1. Init => PlansSettle
  BY DEF Init, NoPass, PlansSettle
<1> QED BY <1>1, SettleNext, InvInvariant, PTL DEF Spec

-----------------------------------------------------------------------------
(***************************************************************************)
(* The order cap of the day.  While a pass places, its snapshot counts at  *)
(* least the submissions the journal tells of and those of the pass.       *)
(***************************************************************************)
SubmittedNow == {o \in pass.done : o.outcome = "submitted"}

BudgetInv ==
  /\ \A id \in DOMAIN journal : IsFiniteSet(journal[id].orders)
  /\ IsFiniteSet(pass.done)
  /\ pass.pc = "reading" => pass.done = {}
  /\ pass.pc = "placing" =>
       /\ "orders" \in DOMAIN pass.snap /\ pass.snap.orders \in Nat
       /\ OrdersToday + Cardinality(SubmittedNow) <= pass.snap.orders

LEMMA TodayIsFinite ==
  ASSUME Inv, BudgetInv
  PROVE  /\ IsFiniteSet(Today(day)) /\ OrdersToday \in Nat
         /\ \A id \in Today(day) : IsFiniteSet(Submitted(id)) /\ Cardinality(Submitted(id)) \in Nat
         /\ IsFiniteSet(SubmittedNow) /\ Cardinality(SubmittedNow) \in Nat
<1>1. IsFiniteSet(Ids)
  <2>1. LastDay \in Int /\ MaxPasses - 1 \in Int
    BY DEF Days
  <2>2. IsFiniteSet(Days) /\ IsFiniteSet(0..(MaxPasses - 1))
    BY <2>1, FS_Interval DEF Days
  <2> QED BY <2>2, FS_Product DEF Ids
<1>2. IsFiniteSet(Today(day))
  <2>1. Today(day) \subseteq Ids
    BY DEF Today, Inv, TypeOK
  <2> QED BY <1>1, <2>1, FS_Subset
<1>3. \A id \in Today(day) : IsFiniteSet(Submitted(id)) /\ Cardinality(Submitted(id)) \in Nat
  <2> SUFFICES ASSUME NEW id \in Today(day)
               PROVE  IsFiniteSet(Submitted(id)) /\ Cardinality(Submitted(id)) \in Nat
    OBVIOUS
  <2>1. IsFiniteSet(journal[id].orders) /\ Submitted(id) \subseteq journal[id].orders
    BY DEF Today, BudgetInv, Submitted
  <2> QED BY <2>1, FS_Subset, FS_CardinalityType
<1>4. OrdersToday \in Nat
  <2> DEFINE f == [id \in Today(day) |-> Cardinality(Submitted(id))]
  <2>1. \A id \in Today(day) : f[id] \in Nat
    BY <1>3
  <2> HIDE DEF f
  <2>2. SumFunctionOnSet(f, Today(day)) \in Nat
    BY <1>2, <2>1, SumIsNatural
  <2> QED BY <2>2 DEF OrdersToday, f
<1>5. IsFiniteSet(SubmittedNow)
  BY FS_Subset DEF BudgetInv, SubmittedNow
<1> QED BY <1>2, <1>3, <1>4, <1>5, FS_CardinalityType

\* The orders of the day the journal or the pass knows are no more than their
\* submissions.
LEMMA KnownAreSubmitted ==
  ASSUME Inv, BudgetInv
  PROVE  LET known == {m \in DOMAIN orders : m.day = day /\ Known(m)} IN
         /\ IsFiniteSet(known) /\ Cardinality(known) \in Nat
         /\ Cardinality(known) <= OrdersToday + Cardinality(SubmittedNow)
<1> DEFINE known == {m \in DOMAIN orders : m.day = day /\ Known(m)}
           T == Today(day)
           key == [o \in SubmittedNow |-> KeyOf(o)]
           now == {key[o] : o \in SubmittedNow}
           of(id) == [o \in Submitted(id) |-> KeyIn(id, o)]
           F == [id \in T |-> {of(id)[o] : o \in Submitted(id)}]
           f == [id \in T |-> Cardinality(Submitted(id))]
           g == [id \in T |-> Cardinality(F[id])]
           before == UNION {F[id] : id \in T}
<1>1. /\ IsFiniteSet(T) /\ \A id \in T : IsFiniteSet(Submitted(id)) /\ Cardinality(Submitted(id)) \in Nat
      /\ IsFiniteSet(SubmittedNow) /\ Cardinality(SubmittedNow) \in Nat
      /\ OrdersToday \in Nat
  BY TodayIsFinite
<1>2. known \subseteq before \union now
  <2> SUFFICES ASSUME NEW m \in known  PROVE m \in before \/ m \in now
    OBVIOUS
  <2>1. CASE \E id \in T : \E o \in Submitted(id) : KeyIn(id, o) = m
    <3>1. PICK id \in T : \E o \in Submitted(id) : KeyIn(id, o) = m
      BY <2>1
    <3>2. m \in F[id]
      BY <3>1
    <3> QED BY <3>2
  <2>2. CASE \E o \in pass.done : o.outcome = "submitted" /\ KeyOf(o) = m
    BY <2>2 DEF SubmittedNow
  <2> QED BY <2>1, <2>2 DEF Known
<1>3. \A id \in T : IsFiniteSet(F[id]) /\ Cardinality(F[id]) <= Cardinality(Submitted(id))
  <2> SUFFICES ASSUME NEW id \in T
               PROVE  IsFiniteSet(F[id]) /\ Cardinality(F[id]) <= Cardinality(Submitted(id))
    OBVIOUS
  <2> DEFINE h == of(id)
  <2>1. F[id] = {h[o] : o \in Submitted(id)}
    OBVIOUS
  <2> HIDE DEF h, F
  <2>2. IsFiniteSet(Submitted(id))
    BY <1>1
  <2>3. /\ IsFiniteSet({h[o] : o \in Submitted(id)})
        /\ Cardinality({h[o] : o \in Submitted(id)}) <= Cardinality(Submitted(id))
    BY <2>2, ImageIsNoMore
  <2> QED BY <2>1, <2>3
<1>4. IsFiniteSet(now) /\ Cardinality(now) <= Cardinality(SubmittedNow)
  <2> HIDE DEF key
  <2> QED BY <1>1, ImageIsNoMore
<1>5. OrdersToday = SumFunctionOnSet(f, T)
  BY DEF OrdersToday
<1>6. \A id \in T : f[id] = Cardinality(Submitted(id))
  OBVIOUS
<1>7. \A id \in T : g[id] = Cardinality(F[id])
  OBVIOUS
<1>8. g = [id \in T |-> Cardinality(F[id])] /\ before = UNION {F[id] : id \in T}
  OBVIOUS
<1> HIDE DEF F, f, g, before, now, known
<1>9. IsFiniteSet(before) /\ Cardinality(before) <= SumFunctionOnSet(g, T)
  <2>1. \A id \in T : IsFiniteSet(F[id])
    BY <1>3
  <2> HIDE DEF T
  <2> QED BY <1>1, <1>8, <2>1, UnionIsNoMore
<1>10. SumFunctionOnSet(g, T) <= SumFunctionOnSet(f, T) /\ SumFunctionOnSet(g, T) \in Nat
  <2>1. \A id \in T : f[id] \in Nat /\ g[id] \in Nat /\ g[id] <= f[id]
    BY <1>1, <1>3, <1>6, <1>7, FS_CardinalityType
  <2>2. \A id \in T : f[id] \in Int /\ g[id] \in Int /\ g[id] <= f[id]
    BY <2>1
  <2> HIDE DEF T
  <2>3. SumFunctionOnSet(g, T) <= SumFunctionOnSet(f, T)
    BY <1>1, <2>2, SumIsMonotone
  <2>4. SumFunctionOnSet(g, T) \in Nat
    BY <1>1, <2>1, SumIsNatural
  <2> QED BY <2>3, <2>4
<1>11. /\ IsFiniteSet(before \union now)
       /\ Cardinality(before \union now) <= Cardinality(before) + Cardinality(now)
  <2>1. /\ IsFiniteSet(before \union now) /\ IsFiniteSet(before \intersect now)
        /\ Cardinality(before \union now) =
             Cardinality(before) + Cardinality(now) - Cardinality(before \intersect now)
    BY <1>4, <1>9, FS_Union, FS_Intersection
  <2>2. /\ Cardinality(before) \in Nat /\ Cardinality(now) \in Nat
        /\ Cardinality(before \intersect now) \in Nat
    BY <1>4, <1>9, <2>1, FS_CardinalityType
  <2> QED BY <2>1, <2>2
<1>12. IsFiniteSet(known) /\ Cardinality(known) <= Cardinality(before \union now)
  BY <1>2, <1>11, FS_Subset
<1>13. /\ Cardinality(known) \in Nat /\ Cardinality(before) \in Nat /\ Cardinality(now) \in Nat
       /\ Cardinality(before \union now) \in Nat
  BY <1>4, <1>9, <1>11, <1>12, FS_CardinalityType
<1>14. Cardinality(known) <= OrdersToday + Cardinality(SubmittedNow)
  BY <1>1, <1>4, <1>5, <1>9, <1>10, <1>11, <1>12, <1>13
<1> QED BY <1>12, <1>13, <1>14 DEF known

LEMMA BudgetInit == Init => BudgetInv
<1> SUFFICES ASSUME Init  PROVE BudgetInv
  OBVIOUS
<1>1. DOMAIN journal = {} /\ pass.pc = "idle" /\ pass.done = {}
  BY DEF Init, NoPass
<1> QED BY <1>1, FS_EmptySet DEF BudgetInv

\* A pass that does not place leaves nothing to count.
LEMMA BudgetStands ==
  ASSUME BudgetInv, UNCHANGED <<journal, pass>>, day' = day \/ pass.pc # "placing"
  PROVE  BudgetInv'
BY DEF BudgetInv, OrdersToday, Today, Submitted, SubmittedNow

LEMMA BudgetStartsOver ==
  ASSUME BudgetInv, pass' = NoPass \/ (pass'.pc = "reading" /\ pass'.done = {}),
         \A id \in DOMAIN journal' : IsFiniteSet(journal'[id].orders)
  PROVE  BudgetInv'
<1>1. pass'.pc \in {"idle", "reading"} /\ pass'.done = {}
  BY DEF NoPass
<1> QED BY <1>1, FS_EmptySet DEF BudgetInv

LEMMA BudgetDone ==
  ASSUME Inv, BudgetInv, pass.pc = "placing", NEW i \in pass.plan, NEW what, Done(i, what),
         UNCHANGED <<day, journal>>
  PROVE  BudgetInv'
<1> DEFINE line == Outcome(i, what)
           snap == IF what = "vetoed" THEN pass.snap ELSE Advance(pass.snap, i)
<1>1. pass' = [pass EXCEPT !.plan = pass.plan \ {i}, !.done = pass.done \union {line}, !.snap = snap]
  BY DEF Done
<1>2. line.outcome = what
  BY DEF Outcome
<1>3. /\ "orders" \in DOMAIN pass.snap /\ pass.snap.orders \in Nat
      /\ OrdersToday + Cardinality(SubmittedNow) <= pass.snap.orders
  BY DEF BudgetInv
<1>4. /\ "orders" \in DOMAIN snap
      /\ snap.orders = IF what = "vetoed" THEN pass.snap.orders ELSE pass.snap.orders + 1
  BY <1>3 DEF Advance
<1> HIDE DEF line, snap
<1>5. pass'.pc = "placing" /\ pass'.done = pass.done \union {line} /\ pass'.snap = snap
  BY <1>1 DEF Inv, TypeOK, PassType
<1>6. OrdersToday' = OrdersToday
  BY DEF OrdersToday, Today, Submitted
<1>7. SubmittedNow' = IF what = "submitted" THEN SubmittedNow \union {line} ELSE SubmittedNow
  BY <1>2, <1>5 DEF SubmittedNow
<1>8. /\ IsFiniteSet(SubmittedNow) /\ Cardinality(SubmittedNow) \in Nat /\ OrdersToday \in Nat
  BY TodayIsFinite
<1>9. Cardinality(SubmittedNow') <= Cardinality(SubmittedNow) + 1 /\ Cardinality(SubmittedNow') \in Nat
  <2>1. /\ IsFiniteSet(SubmittedNow \union {line})
        /\ Cardinality(SubmittedNow \union {line}) \in {Cardinality(SubmittedNow), Cardinality(SubmittedNow) + 1}
    BY <1>8, FS_AddElement
  <2> QED BY <1>7, <1>8, <2>1
<1>10. what # "submitted" => SubmittedNow' = SubmittedNow
  BY <1>7
<1>11. OrdersToday + Cardinality(SubmittedNow') <= snap.orders /\ snap.orders \in Nat
  BY <1>3, <1>4, <1>8, <1>9, <1>10
<1>12. IsFiniteSet(pass'.done)
  <2>1. IsFiniteSet(pass.done)
    BY DEF BudgetInv
  <2>2. IsFiniteSet(pass.done \union {line})
    BY <2>1, FS_AddElement
  <2> QED BY <1>5, <2>2
<1>13. \A id \in DOMAIN journal' : IsFiniteSet(journal'[id].orders)
  BY DEF BudgetInv
<1> QED BY <1>4, <1>5, <1>6, <1>11, <1>12, <1>13 DEF BudgetInv

LEMMA BudgetHalts ==
  ASSUME Inv, BudgetInv, NEW i, Halt(i), UNCHANGED journal
  PROVE  BudgetInv'
<1> DEFINE line == Outcome(i, "halted")
<1>1. pass' = [pass EXCEPT !.pc = "recording", !.stage = "halted", !.done = pass.done \union {line}]
  BY DEF Halt
<1> HIDE DEF line
<1>2. pass'.pc = "recording" /\ pass'.done = pass.done \union {line}
  BY <1>1 DEF Inv, TypeOK, PassType
<1>3. IsFiniteSet(pass'.done)
  BY <1>2, FS_AddElement DEF BudgetInv
<1> QED BY <1>2, <1>3 DEF BudgetInv

LEMMA BudgetReads ==
  ASSUME Inv, BudgetInv, NEW unpriced, NEW untradeable, NEW drawn,
         ReadAccount(unpriced, untradeable, drawn)
  PROVE  BudgetInv'
<1> DEFINE plan == Plan(pass.book, shares, Symbols \ (unpriced \union untradeable))
<1>1. PICK power, turnover :
        pass' = [pass EXCEPT !.plan = plan,
                   !.snap = [held |-> shares, power |-> power, orders |-> OrdersToday,
                             turnover |-> turnover, drawn |-> drawn],
                   !.pc = IF plan = {} THEN "recording" ELSE "placing",
                   !.stage = IF IsBlind(pass.book, shares, unpriced) THEN "no_marks" ELSE "no_trades"]
  <2>1. TodayTotals.orders = OrdersToday
    BY DEF TodayTotals
  <2> QED BY <2>1, Zenon DEF ReadAccount
<1>2. pass.pc = "reading" /\ pass.done = {} /\ UNCHANGED <<day, journal>>
  BY DEF ReadAccount, BudgetInv
<1> HIDE DEF plan
<1>3. /\ pass'.snap = [held |-> shares, power |-> power, orders |-> OrdersToday,
                       turnover |-> turnover, drawn |-> drawn]
      /\ pass'.pc \in {"recording", "placing"} /\ pass'.done = {}
  BY <1>1, <1>2 DEF Inv, TypeOK, PassType
<1>4. "orders" \in DOMAIN pass'.snap /\ pass'.snap.orders = OrdersToday
  BY <1>3
<1>5. OrdersToday' = OrdersToday /\ OrdersToday \in Nat
  BY <1>2, TodayIsFinite DEF OrdersToday, Today, Submitted
<1>6. SubmittedNow' = {}
  BY <1>3 DEF SubmittedNow
<1>7. IsFiniteSet({}) /\ Cardinality({}) = 0
  BY FS_EmptySet
<1>8. \A id \in DOMAIN journal' : IsFiniteSet(journal'[id].orders)
  BY <1>2 DEF BudgetInv
<1> QED BY <1>3, <1>4, <1>5, <1>6, <1>7, <1>8 DEF BudgetInv

\* A line is written of a pass whose orders can be counted.
LEMMA LinesAreFinite ==
  ASSUME BudgetInv, NEW id, NEW line, IsFiniteSet(line.orders), journal' = With(journal, id, line)
  PROVE  \A other \in DOMAIN journal' : IsFiniteSet(journal'[other].orders)
BY DEF With, BudgetInv

LEMMA BudgetNext == Inv /\ BudgetInv /\ [Next]_vars => BudgetInv'
<1> SUFFICES ASSUME Inv, BudgetInv, [Next]_vars  PROVE BudgetInv'
  OBVIOUS
<1>f. \A id \in DOMAIN journal : IsFiniteSet(journal[id].orders)
  BY DEF BudgetInv
<1>1. ASSUME NEW by \in {"run", "rebalance", "plan"}, StartPass(by)  PROVE BudgetInv'
  <2>0. pass.pc = "idle" /\ day' = day
    BY <1>1 DEF StartPass, MayStart
  <2>1. CASE \E stage, b : GiveUp(stage, b)
    <3>1. PICK stage, b : GiveUp(stage, b)
      BY <2>1
    <3> DEFINE line == [stage |-> stage, book |-> b, orders |-> {}]
               id == <<day, NextSequence>>
    <3>2. journal' = With(journal, id, line) /\ line.orders = {} /\ UNCHANGED pass
      BY <3>1 DEF GiveUp
    <3> HIDE DEF line, id
    <3>3. IsFiniteSet(line.orders)
      BY <3>2, FS_EmptySet
    <3>4. \A other \in DOMAIN journal' : IsFiniteSet(journal'[other].orders)
      BY <3>2, <3>3, LinesAreFinite
    <3> QED BY <2>0, <3>2, <3>4 DEF BudgetInv
  <2>2. CASE /\ UNCHANGED journal
             /\ \E b, submit, seq :
                  pass' = [NoPass EXCEPT !.pc = "reading", !.by = by, !.book = b,
                                         !.submit = submit, !.seq = seq]
    <3>1. pass'.pc = "reading" /\ pass'.done = {}
      BY <2>2 DEF NoPass
    <3> QED BY <1>f, <2>2, <3>1, BudgetStartsOver
  <2> QED BY <1>1, <2>1, <2>2, Zenon DEF StartPass
<1>2. CASE Reading
  BY <1>2, BudgetReads DEF Reading
<1>3. CASE Placing
  <2>1. PICK i \in pass.plan :
          Veto(i) \/ DryRun(i) \/ Accepted(i) \/ ReadBackAnother(i) \/ Refused(i) \/ LeftUnknown(i)
    BY <1>3 DEF Placing
  <2>2. pass.pc = "placing" /\ UNCHANGED <<day, journal>>
    BY <2>1 DEF Veto, DryRun, Accepted, ReadBackAnother, Refused, LeftUnknown, Sending, Judging
  <2>3. CASE \E what : Done(i, what)
    BY <2>2, <2>3, BudgetDone
  <2>4. CASE Halt(i)
    BY <2>2, <2>4, BudgetHalts
  <2> QED BY <2>1, <2>3, <2>4 DEF Veto, DryRun, Accepted, ReadBackAnother, Refused, LeftUnknown
<1>4. CASE RecordPass
  <2>1. journal' = With(journal, <<day, pass.seq>>, Journalled(pass)) /\ pass' = NoPass
    BY <1>4 DEF RecordPass
  <2>2. IsFiniteSet(Journalled(pass).orders)
    BY DEF Journalled, BudgetInv
  <2>3. \A other \in DOMAIN journal' : IsFiniteSet(journal'[other].orders)
    BY <2>1, <2>2, LinesAreFinite
  <2> QED BY <2>1, <2>3, BudgetStartsOver
<1>5. CASE Crash
  BY <1>5, <1>f, BudgetStartsOver DEF Crash
<1>6. CASE UNCHANGED vars
  BY <1>6, BudgetStands DEF vars
<1>7. CASE NextDay
  BY <1>7, BudgetStands DEF NextDay
<1>8. CASE \/ StartSession
           \/ \E b \in Books : Publish(b)
           \/ \E r \in wire : Arrives(r) \/ Vanishes(r)
           \/ \E k \in DOMAIN orders : (\E n \in 1..orders[k].left : Fill(k, n)) \/ Expire(k)
  BY <1>8, BudgetStands DEF StartSession, Publish, Arrives, Vanishes, Fill, Expire
<1> QED BY <1>1, <1>2, <1>3, <1>4, <1>5, <1>6, <1>7, <1>8 DEF Next

\* No buy is sent beyond the day's cap, over every pass and restart of the day.
THEOREM EquityBudgetHolds == Spec => BudgetHolds
<1> DEFINE Within ==
      \A k \in DOMAIN orders' \ DOMAIN orders :
        pass' # pass /\ k.side = "buy" =>
          Cardinality({m \in DOMAIN orders : m.day = day /\ Known(m)}) < MaxOrders
<1>1. Inv /\ BudgetInv /\ [Next]_vars => [Within]_vars
  <2> SUFFICES ASSUME Inv, BudgetInv, Next, NEW k \in DOMAIN orders' \ DOMAIN orders,
                      pass' # pass, k.side = "buy"
               PROVE  Cardinality({m \in DOMAIN orders : m.day = day /\ Known(m)}) < MaxOrders
    OBVIOUS
  <2>1. PICK i \in pass.plan : Accepted(i)
    <3>1. CASE Placing
      BY <3>1 DEF Placing, Veto, DryRun, ReadBackAnother, Refused, LeftUnknown, Broker
    <3>2. CASE \E r \in wire : Arrives(r)
      BY <3>2 DEF Arrives
    <3>3. CASE \E j \in DOMAIN orders : (\E n \in 1..orders[j].left : Fill(j, n)) \/ Expire(j)
      BY <3>3 DEF Fill, Expire
    <3>4. CASE \/ StartSession \/ NextDay \/ Reading \/ RecordPass \/ Crash
               \/ \E by \in {"run", "rebalance", "plan"} : StartPass(by)
               \/ \E b \in Books : Publish(b)
               \/ \E r \in wire : Vanishes(r)
      BY <3>4 DEF StartSession, NextDay, Reading, ReadAccount, RecordPass, Crash, StartPass, Publish,
                  Vanishes, Broker
    <3> QED BY <3>1, <3>2, <3>3, <3>4 DEF Next
  <2>2. k = KeyOf(i) /\ pass.pc = "placing" /\ Approved(i, pass.book, pass.snap)
    BY <2>1 DEF Accepted, Sending, Judging, Place, With
  <2>3. i.side = "buy"
    BY <2>2 DEF KeyOf, ClientOrderId
  <2>4. pass.snap.orders + 1 <= MaxOrders
    BY <2>2, <2>3 DEF Approved, WithinBudget
  <2>5. pass.snap.orders \in Nat /\ OrdersToday + Cardinality(SubmittedNow) <= pass.snap.orders
    BY <2>2 DEF BudgetInv
  <2> DEFINE known == {m \in DOMAIN orders : m.day = day /\ Known(m)}
  <2>6. Cardinality(known) \in Nat /\ Cardinality(known) <= OrdersToday + Cardinality(SubmittedNow)
    BY KnownAreSubmitted
  <2>7. OrdersToday \in Nat /\ Cardinality(SubmittedNow) \in Nat
    BY TodayIsFinite
  <2> HIDE DEF known
  <2>8. Cardinality(known) < MaxOrders
    BY <2>4, <2>5, <2>6, <2>7
  <2> QED BY <2>8 DEF known
<1>2. Spec => []BudgetInv
  BY BudgetInit, BudgetNext, InvInvariant, PTL DEF Spec
<1>3. Spec => [][Within]_vars
  <2> HIDE DEF Within
  <2> QED BY <1>1, <1>2, InvInvariant, PTL DEF Spec
<1> QED BY <1>3 DEF BudgetHolds
=============================================================================
