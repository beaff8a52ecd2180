----------------------------- MODULE DeskProofs -----------------------------
(***************************************************************************)
(* Theorems about what the options agent decides by: its limits, for any   *)
(* calendar and chain; the swings and breaks of a series of bars, the      *)
(* phase of a trend and the rank of a volatility, for any bars, votes and  *)
(* tables.  Each is its module's own specification's.                      *)
(***************************************************************************)
EXTENDS OptionsEntryProps, TrendLadder, Volatility, MarketStructure, SequenceTheorems, SumTheorems

(***************************************************************************)
(* The limits. PeakInv says where the highest equity ever read is kept,    *)
(* MenuInv what a menu was cut by, and HeatInv why a snapshot that counts  *)
(* neither an order at work nor a fill nobody was told of is good enough:  *)
(* in a slot that may open nothing was entered today, what was entered     *)
(* before either filled or is dead, and since the slot gathered positions  *)
(* can only have gone.                                                     *)
(***************************************************************************)
Unders == {q.under : q \in Quoted}

BookEntry ==
  [of : Quoted, quantity : Nat, day : Nat, mark : Int,
   at : {"working", "held", "closing", "closed", "dead", "stuck"},
   told : BOOLEAN, sent : Nat, cleared : BOOLEAN]

Deciding == agent.pc \in {"gathered", "choosing"}

InputsOK ==
  /\ inputs.equity \in Nat /\ inputs.peak \in Nat /\ inputs.risk \in Nat /\ inputs.open \in Nat
  /\ inputs.delta \in Int /\ inputs.fills \in Nat /\ inputs.block \in BOOLEAN
  /\ inputs.menu \subseteq Quoted
  /\ Deciding => clock > 0 /\ \A u \in Unders : inputs.on[u] \in Nat

TypeOK ==
  /\ clock \in Nat /\ state \in Nat /\ top \in Nat /\ days \subseteq Nat
  /\ agent \in [pc : {"waiting", "gathered", "choosing", "down"}, peak : Nat, restarts : Nat]
  /\ book \in Seq(BookEntry)
  /\ \A i \in DOMAIN book : book[i].of.delta \in Int
  /\ InputsOK

PeakInv ==
  /\ state = top
  /\ agent.pc # "down" => agent.peak = top
  /\ Deciding => /\ inputs.equity > 0
                 /\ top = IF inputs.equity > inputs.peak THEN inputs.equity ELSE inputs.peak

MenuInv ==
  \A q \in inputs.menu :
    /\ q.age <= MaxAge /\ DteLow <= q.dte /\ q.dte <= DteHigh
    /\ \/ q.delta = NoGreeks
       \/ InBand(inputs.delta + q.delta * SizeFor(q, inputs.equity), inputs.equity)

\* What is known now is no more than the snapshot counts.
Counted ==
  /\ LossOf(Known) <= inputs.risk
  /\ \A u \in Unders : LossOf(On(Known, u)) <= inputs.on[u]
  /\ Cardinality(Known) <= inputs.open

HeatInv ==
  /\ \A i \in DOMAIN book : book[i].at = "working" => book[i].day = Day(clock) /\ ~book[i].told
  /\ Deciding /\ ~inputs.block =>
       (\A i \in DOMAIN book : book[i].day # Day(clock)) /\ Counted

-----------------------------------------------------------------------------
(***************************************************************************)
(* What the book sums to.                                                  *)
(***************************************************************************)
LEMMA BookIsFinite ==
  ASSUME TypeOK, NEW S, S \subseteq DOMAIN book
  PROVE  IsFiniteSet(S) /\ Cardinality(S) \in Nat
<1>1. DOMAIN book = 1 .. Len(book) /\ Len(book) \in Nat
  BY DEF TypeOK
<1>2. IsFiniteSet(DOMAIN book)
  BY <1>1, FS_Interval
<1> QED BY <1>2, FS_Subset, FS_CardinalityType

LEMMA EntriesAreEntries ==
  ASSUME TypeOK, NEW i \in DOMAIN book
  PROVE  /\ book[i] \in BookEntry /\ book[i].of \in Quoted
         /\ book[i].of.loss \in Nat \ {0} /\ book[i].of.delta \in Int /\ book[i].of.profit \in Nat
         /\ book[i].quantity \in Nat /\ book[i].mark \in Int
         /\ book[i].of.loss * book[i].quantity \in Nat
         /\ book[i].of.delta * book[i].quantity \in Int
         /\ book[i].mark * book[i].quantity \in Int
<1>1. book[i] \in BookEntry /\ book[i].of.delta \in Int
  BY DEF TypeOK
<1>2. /\ book[i].of \in Quoted /\ book[i].quantity \in Nat /\ book[i].mark \in Int
  BY <1>1 DEF BookEntry
<1>3. book[i].of.loss \in Nat \ {0} /\ book[i].of.profit \in Nat
  BY <1>2, EntryAssumption
<1> QED BY <1>1, <1>2, <1>3

LEMMA BookSums ==
  ASSUME TypeOK, NEW S, S \subseteq DOMAIN book
  PROVE  LossOf(S) \in Nat /\ DeltaOf(S) \in Int /\ WorthOf(S) \in Int
<1>1. IsFiniteSet(S)
  BY BookIsFinite
<1>2. LossOf(S) \in Nat
  <2> DEFINE f == [i \in S |-> book[i].of.loss * book[i].quantity]
  <2>1. \A i \in S : f[i] \in Nat
    BY EntriesAreEntries
  <2> HIDE DEF f
  <2>2. SumFunctionOnSet(f, S) \in Nat
    BY <1>1, <2>1, SumIsNatural
  <2> QED BY <2>2 DEF LossOf, f
<1>3. DeltaOf(S) \in Int
  <2> DEFINE f == [i \in S |-> book[i].of.delta * book[i].quantity]
  <2>1. \A i \in S : f[i] \in Int
    BY EntriesAreEntries
  <2> HIDE DEF f
  <2>2. SumFunctionOnSet(f, S) \in Int
    BY <1>1, <2>1, SumIsInteger
  <2> QED BY <2>2 DEF DeltaOf, f
<1>4. WorthOf(S) \in Int
  <2> DEFINE f == [i \in S |-> book[i].mark * book[i].quantity]
  <2>1. \A i \in S : f[i] \in Int
    BY EntriesAreEntries
  <2> HIDE DEF f
  <2>2. SumFunctionOnSet(f, S) \in Int
    BY <1>1, <2>1, SumIsInteger
  <2> QED BY <2>2 DEF WorthOf, f
<1> QED BY <1>2, <1>3, <1>4

\* What a slot reads is of its type.
LEMMA ReadingsAreNumbers ==
  ASSUME TypeOK, NEW thisDay
  PROVE  /\ Equity \in Nat /\ LossOf(Known) \in Nat /\ DeltaOf(Known) \in Int
         /\ \A u \in Unders : LossOf(On(Known, u)) \in Nat
         /\ Cardinality(Known) \in Nat /\ FillsOn(thisDay) \in Nat
<1>1. Known \subseteq DOMAIN book /\ \A u : On(Known, u) \subseteq DOMAIN book
  BY DEF Known, On
<1>2. WorthOf({i \in DOMAIN book : AtBroker(book[i])}) \in Int
  BY BookSums
<1>3. Equity \in Nat
  BY <1>2, EntryAssumption DEF Equity, RealisedPl
<1>4. FillsOn(thisDay) \in Nat
  <2>1. /\ Cardinality({i \in DOMAIN book : book[i].told /\ book[i].day = thisDay}) \in Nat
        /\ Cardinality({i \in DOMAIN book : book[i].cleared /\ book[i].sent = thisDay}) \in Nat
    BY BookIsFinite
  <2> QED BY <2>1 DEF FillsOn
<1> QED BY <1>1, <1>3, <1>4, BookSums, BookIsFinite

\* A size rounded down is within the budget.
LEMMA SizesAreWithinBudget ==
  ASSUME NEW q \in Quoted, NEW equity \in Nat
  PROVE  SizeFor(q, equity) \in Nat /\ 100 * q.loss * SizeFor(q, equity) <= TradePct * equity
<1> DEFINE d == TradePct * equity
           p == 100 * q.loss
<1>1. d \in Nat /\ p \in Nat \ {0}
  BY EntryAssumption
<1> HIDE DEF d, p
<1>2. d \div p \in Nat
  BY <1>1
<1>3. (d \div p) * p <= d
  BY <1>1, SMTT(30)
<1>4. (d \div p) * p = p * (d \div p)
  BY <1>1, <1>2
<1> QED BY <1>2, <1>3, <1>4 DEF SizeFor, d, p

\* The day of a slot that came.
LEMMA DaysAreNumbers ==
  ASSUME NEW c \in Nat
  PROVE  Day(c + 1) \in Nat
<1>1. (c + 1) - 1 = c
  OBVIOUS
<1>2. c \div SlotsPerDay \in Nat
  BY EntryAssumption
<1> QED BY <1>1, <1>2 DEF Day

-----------------------------------------------------------------------------
(***************************************************************************)
(* Types.                                                                  *)
(***************************************************************************)
\* A book whose entries are changed one by one is a book.
LEMMA ChangedBook ==
  ASSUME TypeOK, DOMAIN book' = DOMAIN book,
         \E f : book' = [i \in DOMAIN book |-> f[i]],
         \A i \in DOMAIN book : book'[i] \in BookEntry /\ book'[i].of = book[i].of
  PROVE  book' \in Seq(BookEntry) /\ \A i \in DOMAIN book' : book'[i].of.delta \in Int
<1>1. DOMAIN book = 1 .. Len(book) /\ Len(book) \in Nat
  BY DEF TypeOK
<1>2. book' \in [1 .. Len(book) -> BookEntry]
  BY <1>1
<1>3. book' \in Seq(BookEntry)
  BY <1>1, <1>2
<1> QED BY <1>3 DEF TypeOK

NothingRead ==
  /\ Nothing.equity \in Nat /\ Nothing.peak \in Nat /\ Nothing.risk \in Nat /\ Nothing.open \in Nat
  /\ Nothing.delta \in Int /\ Nothing.fills \in Nat /\ Nothing.block \in BOOLEAN
  /\ Nothing.menu \subseteq Quoted

LEMMA NothingIsRead == NothingRead
BY DEF NothingRead, Nothing

LEMMA NothingIsHeld ==
  ASSUME inputs' = Nothing, agent'.pc \notin {"gathered", "choosing"}
  PROVE  InputsOK'
BY NothingIsRead DEF NothingRead, InputsOK, Deciding

\* What a step does to an entry leaves it one.
Places == {"working", "held", "closing", "closed", "dead", "stuck"}

LEMMA EntriesChange ==
  ASSUME NEW e \in BookEntry
  PROVE  /\ \A a \in Places : [e EXCEPT !.at = a] \in BookEntry /\ [e EXCEPT !.at = a].of = e.of
         /\ \A a \in Places, d \in Nat :
              [e EXCEPT !.at = a, !.sent = d] \in BookEntry /\ [e EXCEPT !.at = a, !.sent = d].of = e.of
         /\ \A t, c \in BOOLEAN :
              /\ [e EXCEPT !.told = t, !.cleared = c] \in BookEntry
              /\ [e EXCEPT !.told = t, !.cleared = c].of = e.of
         /\ \A m \in Int : [e EXCEPT !.mark = m] \in BookEntry /\ [e EXCEPT !.mark = m].of = e.of
BY DEF BookEntry, Places

THEOREM TypeCorrect == Spec => []TypeOK
<1>1. Init => TypeOK
  <2> SUFFICES ASSUME Init  PROVE TypeOK
    OBVIOUS
  <2>1. inputs = Nothing /\ agent.pc = "waiting"
    BY DEF Init
  <2>2. InputsOK
    BY <2>1, NothingIsRead DEF NothingRead, InputsOK, Deciding
  <2>3. <<>> \in Seq(BookEntry) /\ DOMAIN <<>> = {}
    OBVIOUS
  <2> QED BY <2>2, <2>3 DEF Init, TypeOK
<1>2. TypeOK /\ [Next]_vars => TypeOK'
  <2> SUFFICES ASSUME TypeOK, [Next]_vars  PROVE TypeOK'
    OBVIOUS
  <2>t. /\ clock \in Nat /\ state \in Nat /\ top \in Nat /\ days \subseteq Nat
        /\ agent \in [pc : {"waiting", "gathered", "choosing", "down"}, peak : Nat, restarts : Nat]
        /\ book \in Seq(BookEntry) /\ InputsOK /\ agent.peak \in Nat
        /\ \A i \in DOMAIN book : book[i].of.delta \in Int
    BY DEF TypeOK
  <2>e. \A i \in DOMAIN book : book[i] \in BookEntry
    BY EntriesAreEntries
  <2>d. clock > 0 => Day(clock) \in Nat
    <3>1. clock > 0 => clock - 1 \in Nat /\ (clock - 1) + 1 = clock
      BY <2>t
    <3> QED BY <3>1, DaysAreNumbers
  <2>1. CASE GatherFails
    BY <2>1, <2>t DEF GatherFails, Comes, TypeOK, InputsOK, Deciding
  <2>2. CASE Gather
    <3> DEFINE thisDay == Day(clock + 1)
    <3>1. PICK priced \in SUBSET Known : Exits(priced, thisDay)
      BY <2>2 DEF Gather
    <3>2. /\ Comes /\ Observe(Equity) /\ top' = (IF Equity > top THEN Equity ELSE top)
          /\ inputs' = Inputs(thisDay) /\ Equity \in Nat
      BY <2>2, ReadingsAreNumbers DEF Gather
    <3>3. thisDay \in Nat /\ clock' = clock + 1
      BY <2>t, <3>2, DaysAreNumbers DEF Comes
    <3>4. /\ agent' \in [pc : {"waiting", "gathered", "choosing", "down"}, peak : Nat, restarts : Nat]
          /\ state' \in Nat /\ top' \in Nat
      BY <2>t, <3>2 DEF Observe
    <3> HIDE DEF thisDay
    <3>5. InputsOK'
      <4> DEFINE x == Inputs(thisDay)
      <4>1. /\ x.equity = Equity /\ x.peak = agent.peak /\ x.risk = LossOf(Known)
            /\ x.on = [u \in Unders |-> LossOf(On(Known, u))]
            /\ x.open = Cardinality(Known) /\ x.delta = DeltaOf(Known) /\ x.fills = FillsOn(thisDay)
            /\ x.menu \subseteq Quoted /\ x.block = EntryBlock(thisDay)
        BY DEF Inputs, Unders
      <4>2. x.block \in BOOLEAN /\ agent'.pc = "gathered"
        BY <4>1, <3>2, <2>t DEF EntryBlock, Observe
      <4>3. agent.peak \in Nat
        BY <2>t
      <4>4. inputs' = x
        BY <3>2
      <4> HIDE DEF x
      <4>5. /\ x.risk \in Nat /\ x.open \in Nat /\ x.delta \in Int /\ x.fills \in Nat
            /\ \A u \in Unders : x.on[u] \in Nat
        BY <4>1, ReadingsAreNumbers
      <4>6. /\ inputs'.equity \in Nat /\ inputs'.peak \in Nat /\ inputs'.risk \in Nat
            /\ inputs'.open \in Nat /\ inputs'.delta \in Int /\ inputs'.fills \in Nat
            /\ inputs'.menu \subseteq Quoted
        BY <4>1, <4>3, <4>4, <4>5, <3>2
      <4>7. inputs'.block \in BOOLEAN
        BY <4>2, <4>4, Zenon
      <4>8. clock' > 0 /\ \A u \in Unders : inputs'.on[u] \in Nat
        BY <4>4, <4>5, <3>3, <2>t
      <4> QED BY <4>6, <4>7, <4>8, Zenon DEF InputsOK
    <3>6. \A i \in DOMAIN book : book'[i] \in BookEntry /\ book'[i].of = book[i].of
      BY <3>1, <3>3, <2>e, EntriesChange DEF Exits, Places
    <3>7. book' \in Seq(BookEntry) /\ \A i \in DOMAIN book' : book'[i].of.delta \in Int
      <4>1. DOMAIN book' = DOMAIN book /\ \E f : book' = [i \in DOMAIN book |-> f[i]]
        <5> DEFINE f == [i \in DOMAIN book |-> book'[i]]
        <5>1. book' = [i \in DOMAIN book |-> f[i]]
          BY <3>1 DEF Exits
        <5> QED BY <5>1
      <4> QED BY <4>1, <3>6, ChangedBook
    <3>8. days' \subseteq Nat
      BY <3>1, <3>3, <2>t DEF Exits
    <3> QED BY <3>3, <3>4, <3>5, <3>7, <3>8, <2>t DEF TypeOK
  <2>3. CASE Reconcile
    <3>1. \A i \in DOMAIN book : book'[i] \in BookEntry /\ book'[i].of = book[i].of
      <4> SUFFICES ASSUME NEW i \in DOMAIN book
                   PROVE  book'[i] \in BookEntry /\ book'[i].of = book[i].of
        OBVIOUS
      <4>1. book[i] \in BookEntry /\ book[i].told \in BOOLEAN /\ book[i].cleared \in BOOLEAN
        BY <2>e DEF BookEntry
      <4>2. PICK t \in BOOLEAN, c \in BOOLEAN : book'[i] = [book[i] EXCEPT !.told = t, !.cleared = c]
        BY <4>1, <2>3 DEF Reconcile
      <4>3. /\ [book[i] EXCEPT !.told = t, !.cleared = c] \in BookEntry
            /\ [book[i] EXCEPT !.told = t, !.cleared = c].of = book[i].of
        BY <4>1, EntriesChange, Zenon
      <4> QED BY <4>2, <4>3, Zenon
    <3>2. book' \in Seq(BookEntry) /\ \A i \in DOMAIN book' : book'[i].of.delta \in Int
      <4>1. DOMAIN book' = DOMAIN book /\ \E f : book' = [i \in DOMAIN book |-> f[i]]
        <5> DEFINE f == [i \in DOMAIN book |-> book'[i]]
        <5>1. book' = [i \in DOMAIN book |-> f[i]]
          BY <2>3 DEF Reconcile
        <5> QED BY <5>1
      <4> QED BY <4>1, <3>1, ChangedBook
    <3>3. agent' \in [pc : {"waiting", "gathered", "choosing", "down"}, peak : Nat, restarts : Nat]
      BY <2>3, <2>t DEF Reconcile
    <3>4. InputsOK'
      <4>1. CASE MayOpen(clock)
        BY <4>1, <2>3, <2>t DEF Reconcile, InputsOK, Deciding
      <4>2. CASE ~MayOpen(clock)
        BY <4>2, <2>3, <2>t, NothingIsHeld DEF Reconcile
      <4> QED BY <4>1, <4>2
    <3> QED BY <3>2, <3>3, <3>4, <2>3, <2>t DEF Reconcile, TypeOK
  <2>4. CASE StandAside
    <3>1. agent' \in [pc : {"waiting", "gathered", "choosing", "down"}, peak : Nat, restarts : Nat]
      BY <2>4, <2>t DEF StandAside, Settle
    <3>2. agent'.pc = "waiting" /\ inputs' = Nothing
      BY <2>4, <2>t DEF StandAside, Settle
    <3>3. days' \subseteq Nat
      BY <2>4, <2>t, <2>d DEF StandAside, Settle, InputsOK, Deciding
    <3> QED BY <3>1, <3>2, <3>3, <2>4, <2>t, NothingIsHeld DEF StandAside, Settle, TypeOK
  <2>5. CASE Choose
    <3>1. PICK q \in inputs.menu, late \in 0 .. Thinking, filled \in BOOLEAN : Submit(q, late, filled)
      BY <2>5 DEF Choose
    <3>2. agent' \in [pc : {"waiting", "gathered", "choosing", "down"}, peak : Nat, restarts : Nat]
      BY <3>1, <2>t DEF Submit, Settle
    <3>3. agent'.pc = "waiting" /\ inputs' = Nothing /\ UNCHANGED <<clock, state, top>>
      BY <3>1, <2>t DEF Submit, Settle
    <3>4. Day(clock) \in Nat /\ days' \subseteq Nat
      BY <3>1, <2>t, <2>d DEF Submit, Settle, InputsOK, Deciding
    <3>5. q \in Quoted /\ inputs.equity \in Nat
      BY <2>t DEF InputsOK
    <3>6. q.delta \in Int
      <4>1. "known_greeks" \notin OrderFails(q, SizeFor(q, inputs.equity), Elapsed(late))
        BY <3>1 DEF Submit, Approved, Fails
      <4>2. q.delta # NoGreeks
        BY <4>1 DEF OrderFails
      <4> QED BY <3>5, <4>2, EntryAssumption
    <3>7. PICK new : /\ book' = Append(book, new)
                     /\ new = [of |-> q, quantity |-> SizeFor(q, inputs.equity), day |-> Day(clock),
                               mark |-> 0, at |-> IF filled THEN "held" ELSE "working",
                               told |-> filled, sent |-> 0, cleared |-> FALSE]
      BY <3>1 DEF Submit
    <3>8. new \in BookEntry /\ new.of.delta \in Int
      <4>1. SizeFor(q, inputs.equity) \in Nat /\ 0 \in Nat /\ 0 \in Int
        BY <3>5, SizesAreWithinBudget
      <4>2. (IF filled THEN "held" ELSE "working")
              \in {"working", "held", "closing", "closed", "dead", "stuck"}
        OBVIOUS
      <4>3. new \in BookEntry
        BY <3>4, <3>5, <3>7, <4>1, <4>2, Zenon DEF BookEntry
      <4> QED BY <3>6, <3>7, <4>3
    <3>9. book' \in Seq(BookEntry) /\ \A i \in DOMAIN book' : book'[i].of.delta \in Int
      BY <3>7, <3>8, <2>t
    <3> QED BY <3>2, <3>3, <3>4, <3>9, <2>t, NothingIsHeld DEF TypeOK
  <2>6. CASE Market
    <3>1. PICK i \in DOMAIN book : Fill(i) \/ Marks(i)
      BY <2>6 DEF Market
    <3>2. UNCHANGED <<clock, agent, state, inputs, days, top>>
      BY <3>1 DEF Fill, Marks
    <3>3. \E e \in BookEntry : e.of = book[i].of /\ book' = [book EXCEPT ![i] = e]
      <4>1. CASE Fill(i)
        <5> DEFINE e == [book[i] EXCEPT !.at = IF book[i].at = "working" THEN "held" ELSE "closed"]
        <5>1. e \in BookEntry /\ e.of = book[i].of
          BY <2>e, EntriesChange, ZenonT(30) DEF Places
        <5>2. book' = [book EXCEPT ![i] = e]
          BY <4>1 DEF Fill
        <5> QED BY <5>1, <5>2
      <4>2. CASE Marks(i)
        <5>1. PICK m \in {-book[i].of.loss, 0, book[i].of.profit} : book' = [book EXCEPT ![i].mark = m]
          BY <4>2 DEF Marks
        <5> DEFINE e == [book[i] EXCEPT !.mark = m]
        <5>2. m \in Int
          BY EntriesAreEntries
        <5>3. e \in BookEntry /\ e.of = book[i].of
          BY <2>e, <5>2, EntriesChange
        <5>4. book' = [book EXCEPT ![i] = e]
          BY <5>1
        <5> QED BY <5>3, <5>4
      <4> QED BY <3>1, <4>1, <4>2
    <3>4. book' \in Seq(BookEntry) /\ \A j \in DOMAIN book' : book'[j].of.delta \in Int
      BY <3>3, <2>t
    <3> QED BY <3>2, <3>4, <2>t DEF TypeOK, InputsOK, Deciding
  <2>7. CASE Expires
    <3>1. UNCHANGED <<clock, agent, state, inputs, days, top>>
      BY <2>7 DEF Expires
    <3>2. \A i \in DOMAIN book : book'[i] \in BookEntry /\ book'[i].of = book[i].of
      BY <2>7, <2>e, EntriesChange DEF Expires, Places
    <3>3. book' \in Seq(BookEntry) /\ \A i \in DOMAIN book' : book'[i].of.delta \in Int
      <4>1. DOMAIN book' = DOMAIN book /\ \E f : book' = [i \in DOMAIN book |-> f[i]]
        <5> DEFINE f == [i \in DOMAIN book |-> book'[i]]
        <5>1. book' = [i \in DOMAIN book |-> f[i]]
          BY <2>7 DEF Expires
        <5> QED BY <5>1
      <4> QED BY <4>1, <3>2, ChangedBook
    <3> QED BY <3>1, <3>3, <2>t DEF TypeOK, InputsOK, Deciding
  <2>8. CASE Dies
    BY <2>8, <2>t, NothingIsHeld DEF Dies, TypeOK
  <2>9. CASE Load
    BY <2>9, <2>t DEF Load, TypeOK, InputsOK, Deciding
  <2>10. CASE UNCHANGED vars
    BY <2>10, <2>t DEF vars, TypeOK, InputsOK, Deciding
  <2> QED BY <2>1, <2>2, <2>3, <2>4, <2>5, <2>6, <2>7, <2>8, <2>9, <2>10 DEF Next
<1> QED BY <1>1, <1>2, PTL DEF Spec

-----------------------------------------------------------------------------
(***************************************************************************)
(* The peak and the menu.                                                  *)
(***************************************************************************)
\* What the inputs of a slot are when they are read, and when they are gone.
LEMMA InputsAreRead ==
  ASSUME TypeOK, Gather
  PROVE  /\ inputs'.equity = Equity /\ inputs'.peak = agent.peak
         /\ inputs'.risk = LossOf(Known) /\ inputs'.delta = DeltaOf(Known)
         /\ \A u \in Unders : inputs'.on[u] = LossOf(On(Known, u))
         /\ inputs'.open = Cardinality(Known)
         /\ inputs'.menu = {q \in Quoted : OnMenu(q, Equity)}
         /\ inputs'.block = EntryBlock(Day(clock + 1))
BY DEF Gather, Inputs, Unders

LEMMA PeakIsKept == TypeOK /\ PeakInv /\ [Next]_vars => PeakInv'
<1> SUFFICES ASSUME TypeOK, PeakInv, [Next]_vars  PROVE PeakInv'
  OBVIOUS
<1>t. /\ agent \in [pc : {"waiting", "gathered", "choosing", "down"}, peak : Nat, restarts : Nat]
      /\ top \in Nat /\ state \in Nat
  BY DEF TypeOK
<1>1. CASE Gather
  <2>1. Equity \in Nat /\ Equity > 0 /\ inputs'.equity = Equity /\ inputs'.peak = agent.peak
    BY <1>1, ReadingsAreNumbers, InputsAreRead DEF Gather
  <2>2. /\ Observe(Equity) /\ top' = (IF Equity > top THEN Equity ELSE top)
        /\ agent.pc = "waiting"
    BY <1>1 DEF Gather, Comes
  <2>3. agent.peak = top /\ state = top
    BY <2>2 DEF PeakInv
  <2> QED BY <1>t, <2>1, <2>2, <2>3 DEF PeakInv, Observe, Deciding
<1>2. CASE Reconcile
  <2>1. inputs' = inputs \/ agent'.pc = "waiting"
    BY <1>2, <1>t DEF Reconcile
  <2> QED BY <1>2, <1>t, <2>1 DEF Reconcile, PeakInv, Deciding
<1>3. CASE StandAside \/ Choose
  <2>1. Settle
    BY <1>3 DEF StandAside, Choose, Submit
  <2> QED BY <1>t, <2>1 DEF Settle, PeakInv, Deciding
<1>4. CASE GatherFails \/ Market \/ Expires \/ UNCHANGED vars
  BY <1>4 DEF GatherFails, Market, Fill, Marks, Expires, vars, PeakInv, Deciding
<1>5. CASE Dies
  BY <1>5 DEF Dies, PeakInv, Deciding
<1>6. CASE Load
  <2>1. agent'.pc = "waiting" /\ agent'.peak = state /\ UNCHANGED <<state, top>>
    BY <1>6, <1>t DEF Load
  <2> QED BY <2>1 DEF PeakInv, Deciding
<1> QED BY <1>1, <1>2, <1>3, <1>4, <1>5, <1>6 DEF Next

LEMMA MenuIsKept == TypeOK /\ MenuInv /\ [Next]_vars => MenuInv'
<1> SUFFICES ASSUME TypeOK, MenuInv, [Next]_vars  PROVE MenuInv'
  OBVIOUS
<1>1. CASE Gather
  <2> SUFFICES ASSUME NEW q \in inputs'.menu
               PROVE  /\ q.age <= MaxAge /\ DteLow <= q.dte /\ q.dte <= DteHigh
                      /\ \/ q.delta = NoGreeks
                         \/ InBand(inputs'.delta + q.delta * SizeFor(q, inputs'.equity), inputs'.equity)
    BY DEF MenuInv, InBand, SizeFor
  <2>1. OnMenu(q, Equity) /\ inputs'.delta = DeltaOf(Known) /\ inputs'.equity = Equity
    BY <1>1, InputsAreRead
  <2> QED BY <2>1 DEF OnMenu
<1>2. CASE inputs' = inputs
  BY <1>2 DEF MenuInv, InBand, SizeFor
<1>3. CASE inputs' = Nothing
  BY <1>3 DEF MenuInv, Nothing
<1> QED BY <1>1, <1>2, <1>3
     DEF Next, GatherFails, Reconcile, StandAside, Settle, Choose, Submit, Market, Fill, Marks,
         Expires, Dies, Load, vars

LEMMA ReadingsAreKept == Spec => [](TypeOK /\ PeakInv /\ MenuInv)
<1>1. Init => PeakInv /\ MenuInv
  BY DEF Init, PeakInv, MenuInv, Nothing, Deciding
<1> QED BY <1>1, PeakIsKept, MenuIsKept, TypeCorrect, PTL DEF Spec

\* The menu and the Gate, which read the same snapshot, do not disagree.
THEOREM MenusAgree == Spec => []MenuAgreesWithGate
<1>1. TypeOK /\ MenuInv => MenuAgreesWithGate
  <2> SUFFICES ASSUME TypeOK, MenuInv, NEW q \in inputs.menu
               PROVE  LET failed == Fails(q, SizeFor(q, inputs.equity), Elapsed(0)) IN
                      /\ failed \intersect {"fresh_quotes", "per_trade_loss", "expiry_window"} = {}
                      /\ "net_delta_budget" \in failed => q.delta = NoGreeks
    BY DEF MenuAgreesWithGate
  <2> DEFINE n == SizeFor(q, inputs.equity)
  <2>1. q \in Quoted /\ inputs.equity \in Nat /\ q.age \in Nat /\ q.loss \in Nat /\ MaxAge \in Nat
        /\ TradePct \in Nat
    BY EntryAssumption DEF TypeOK, InputsOK
  <2>2. n \in Nat /\ 100 * q.loss * n <= TradePct * inputs.equity
    BY <2>1, SizesAreWithinBudget
  <2>3. /\ q.age <= MaxAge /\ DteLow <= q.dte /\ q.dte <= DteHigh
        /\ q.delta = NoGreeks \/ InBand(inputs.delta + q.delta * n, inputs.equity)
    BY DEF MenuInv
  <2> HIDE DEF n
  <2>4. "fresh_quotes" \notin Fails(q, n, Elapsed(0))
    BY <2>1, <2>3 DEF Fails, OrderFails, BookFails, DayFails, Elapsed
  <2>5. "per_trade_loss" \notin Fails(q, n, Elapsed(0))
    <3>1. ~(100 * q.loss * n > TradePct * inputs.equity)
      BY <2>1, <2>2
    <3> QED BY <3>1 DEF Fails, OrderFails, BookFails, DayFails
  <2>6. "expiry_window" \notin Fails(q, n, Elapsed(0))
    BY <2>3 DEF Fails, OrderFails, BookFails, DayFails
  <2>7. "net_delta_budget" \in Fails(q, n, Elapsed(0)) => q.delta = NoGreeks
    BY <2>3 DEF Fails, OrderFails, BookFails, DayFails
  <2> QED BY <2>4, <2>5, <2>6, <2>7 DEF n
<1> QED BY <1>1, ReadingsAreKept, PTL

\* An order is only ever appended by a slot that chose it.
LEMMA OpensOnlyBySubmit ==
  ASSUME TypeOK, TypeOK', [Next]_vars, Opens
  PROVE  Choose
<1>t. book \in Seq(BookEntry) /\ DOMAIN book = 1 .. Len(book) /\ Len(book) \in Nat
  BY DEF TypeOK
<1>o. Len(book') > Len(book)
  BY DEF Opens
<1>1. ASSUME DOMAIN book' = DOMAIN book  PROVE FALSE
  <2>1. book' \in Seq(BookEntry)
    BY DEF TypeOK
  <2>2. DOMAIN book' = 1 .. Len(book') /\ Len(book') \in Nat
    BY <2>1
  <2>3. Len(book') \in 1 .. Len(book')
    BY <2>2, <1>o, <1>t
  <2>4. Len(book') \in 1 .. Len(book)
    BY <1>1, <1>t, <2>2, <2>3
  <2> QED BY <2>4, <1>o, <1>t
<1>2. CASE GatherFails \/ StandAside \/ Dies \/ Load \/ UNCHANGED vars
  BY <1>2, <1>1 DEF GatherFails, StandAside, Dies, Load, vars
<1>3. CASE Gather
  BY <1>3, <1>1 DEF Gather, Exits
<1>4. CASE Reconcile
  BY <1>4, <1>1 DEF Reconcile
<1>5. CASE Market \/ Expires
  BY <1>5, <1>1 DEF Market, Fill, Marks, Expires
<1> QED BY <1>2, <1>3, <1>4, <1>5 DEF Next

\* The drawdown is measured from the highest equity any process has read.
THEOREM DrawdownsAreRemembered == Spec => DrawdownRemembersPeak
<1> DEFINE Measured == Opens => 100 * (top - inputs.equity) < DrawdownPct * top
<1>1. TypeOK /\ TypeOK' /\ PeakInv /\ [Next]_vars => [Measured]_vars
  <2> SUFFICES ASSUME TypeOK, TypeOK', PeakInv, [Next]_vars, Opens
               PROVE  100 * (top - inputs.equity) < DrawdownPct * top
    OBVIOUS
  <2>1. Choose
    BY OpensOnlyBySubmit
  <2>2. PICK q, late, n : Approved(q, n, late) /\ agent.pc = "choosing"
    BY <2>1 DEF Choose, Submit, Settle
  <2>3. ~InDrawdown
    <3>1. "drawdown_killswitch" \notin DayFails(q)
      BY <2>2 DEF Approved, Fails
    <3> QED BY <3>1 DEF DayFails
  <2>4. /\ inputs.equity > 0 /\ inputs.equity \in Nat /\ inputs.peak \in Nat
        /\ top = IF inputs.equity > inputs.peak THEN inputs.equity ELSE inputs.peak
    BY <2>2 DEF PeakInv, Deciding, TypeOK, InputsOK
  <2>5. DrawdownPct \in Nat \ {0}
    BY EntryAssumption
  <2>6. CASE inputs.equity >= inputs.peak
    <3>1. top = inputs.equity
      BY <2>4, <2>6
    <3>2. DrawdownPct * top > 0
      BY <2>4, <2>5, <3>1
    <3> QED BY <2>4, <3>1, <3>2
  <2>7. CASE inputs.equity < inputs.peak
    BY <2>3, <2>4, <2>5, <2>7 DEF InDrawdown
  <2> QED BY <2>4, <2>6, <2>7
<1>2. Spec => [][Measured]_vars
  <2> HIDE DEF Measured
  <2> QED BY <1>1, ReadingsAreKept, PTL DEF Spec
<1> QED BY <1>2 DEF DrawdownRemembersPeak

-----------------------------------------------------------------------------
(***************************************************************************)
(* The heat.                                                               *)
(***************************************************************************)
\* Fewer of the same orders lose no more.
LEMMA LossShrinks ==
  ASSUME TypeOK, NEW S, S \subseteq DOMAIN book, NEW T, T \subseteq S,
         \A i \in T : book'[i].of = book[i].of /\ book'[i].quantity = book[i].quantity
  PROVE  /\ SumFunctionOnSet([i \in T |-> book'[i].of.loss * book'[i].quantity], T) \in Nat
         /\ SumFunctionOnSet([i \in T |-> book'[i].of.loss * book'[i].quantity], T) <= LossOf(S)
<1> DEFINE f == [i \in T |-> book'[i].of.loss * book'[i].quantity]
           g == [i \in S |-> book[i].of.loss * book[i].quantity]
<1>1. IsFiniteSet(S) /\ IsFiniteSet(T)
  BY BookIsFinite
<1>2. \A i \in S : g[i] \in Nat
  BY EntriesAreEntries
<1>3. \A i \in T : f[i] = g[i]
  OBVIOUS
<1>4. LossOf(S) = SumFunctionOnSet(g, S)
  BY DEF LossOf
<1> HIDE DEF f, g
<1>5. \A i \in T : f[i] \in Int /\ f[i] = g[i]
  BY <1>2, <1>3
<1>6. SumFunctionOnSet(f, T) = SumFunctionOnSet(g, T)
  BY <1>1, <1>5, SumIsOfValues
<1>7. SumFunctionOnSet(g, T) <= SumFunctionOnSet(g, S)
  BY <1>1, <1>2, SumGrowsWithItsSet
<1>8. SumFunctionOnSet(f, T) \in Nat
  <2>1. \A i \in T : f[i] \in Nat
    BY <1>2, <1>3, <1>5
  <2> QED BY <1>1, <2>1, SumIsNatural
<1> QED BY <1>4, <1>6, <1>7, <1>8 DEF f

LEMMA KnownShrinks ==
  ASSUME TypeOK, TypeOK', Deciding', Known' \subseteq Known,
         \A i \in Known' : book'[i].of = book[i].of /\ book'[i].quantity = book[i].quantity,
         LossOf(Known) <= inputs'.risk, Cardinality(Known) <= inputs'.open,
         \A u \in Unders : LossOf(On(Known, u)) <= inputs'.on[u]
  PROVE  Counted'
<1>1. Known \subseteq DOMAIN book /\ \A u : On(Known, u) \subseteq DOMAIN book
  BY DEF Known, On
<1>2. /\ inputs'.risk \in Nat /\ inputs'.open \in Nat
      /\ \A u \in Unders : inputs'.on[u] \in Nat
  BY DEF TypeOK, InputsOK
<1>4. LossOf(Known)' <= inputs'.risk
  <2>1. LossOf(Known)' <= LossOf(Known) /\ LossOf(Known)' \in Nat
    BY <1>1, LossShrinks DEF LossOf
  <2>2. LossOf(Known) \in Nat
    BY <1>1, BookSums
  <2> QED BY <2>1, <2>2, <1>2
<1>5. ASSUME NEW u \in Unders  PROVE LossOf(On(Known, u))' <= inputs'.on[u]
  <2> DEFINE T == On(Known, u)'
  <2>1. T = {i \in Known' : book'[i].of.under = u}
    BY DEF On
  <2>2. T \subseteq On(Known, u) /\ T \subseteq Known'
    BY <2>1 DEF On
  <2> HIDE DEF T
  <2>3. /\ SumFunctionOnSet([i \in T |-> book'[i].of.loss * book'[i].quantity], T) \in Nat
        /\ SumFunctionOnSet([i \in T |-> book'[i].of.loss * book'[i].quantity], T) <= LossOf(On(Known, u))
    BY <1>1, <2>2, LossShrinks
  <2>4. LossOf(On(Known, u))' = SumFunctionOnSet([i \in T |-> book'[i].of.loss * book'[i].quantity], T)
    BY DEF LossOf, T
  <2>5. LossOf(On(Known, u)) \in Nat
    BY <1>1, BookSums
  <2> QED BY <2>3, <2>4, <2>5, <1>2
<1>6. Cardinality(Known)' <= inputs'.open
  <2>1. IsFiniteSet(Known) /\ Cardinality(Known) \in Nat
    BY <1>1, BookIsFinite
  <2>2. Cardinality(Known') <= Cardinality(Known) /\ Cardinality(Known') \in Nat
    BY <2>1, FS_Subset, FS_CardinalityType
  <2> QED BY <2>1, <2>2, <1>2
<1> QED BY <1>4, <1>5, <1>6 DEF Counted

\* What no action but a reconciliation and a choice does to the entries:
\* none is new, none changes its day or is told of, and what comes to be at
\* the broker was at work.
OnlyLeaves ==
  /\ DOMAIN book' = DOMAIN book
  /\ \A i \in DOMAIN book :
       /\ book'[i].of = book[i].of /\ book'[i].quantity = book[i].quantity
       /\ book'[i].day = book[i].day /\ book'[i].told = book[i].told
       /\ book'[i].at = "working" => book[i].at = "working"
       /\ AtBroker(book'[i]) => AtBroker(book[i]) \/ book[i].at = "working"

\* So less is known after it.
LEMMA LeavingShrinks ==
  ASSUME OnlyLeaves, \A i \in DOMAIN book : book[i].at = "working" => ~book[i].told
  PROVE  /\ Known' \subseteq Known
         /\ \A i \in Known' : book'[i].of = book[i].of /\ book'[i].quantity = book[i].quantity
BY DEF OnlyLeaves, Known, AtBroker

\* An exit, a fill, a mark and the end of a day leave.
LEMMA ExitsLeave ==
  ASSUME TypeOK, NEW priced, NEW thisDay, Exits(priced, thisDay)
  PROVE  OnlyLeaves
<1>1. \A i \in DOMAIN book : book[i] \in BookEntry
  BY EntriesAreEntries
<1>2. DOMAIN book' = DOMAIN book
  BY DEF Exits
<1>3. ASSUME NEW i \in DOMAIN book
      PROVE  /\ book'[i].of = book[i].of /\ book'[i].quantity = book[i].quantity
             /\ book'[i].day = book[i].day /\ book'[i].told = book[i].told
             /\ book'[i].at = book[i].at \/ (book'[i].at = "closing" /\ book[i].at = "held")
  <2> DEFINE gone == [book[i] EXCEPT !.at = "closing", !.sent = thisDay]
  <2>1. book'[i] = book[i] \/ (book'[i] = gone /\ book[i].at = "held")
    <3>1. book'[i] = IF i \in priced /\ book[i].at = "held" /\ Due(book[i], thisDay)
                     THEN gone ELSE book[i]
      BY DEF Exits
    <3> HIDE DEF gone
    <3> QED BY <3>1
  <2>2. /\ gone.of = book[i].of /\ gone.quantity = book[i].quantity /\ gone.day = book[i].day
        /\ gone.told = book[i].told /\ gone.at = "closing"
    BY <1>1 DEF BookEntry
  <2> HIDE DEF gone
  <2> QED BY <2>1, <2>2
<1> QED BY <1>2, <1>3 DEF OnlyLeaves, AtBroker

LEMMA MarketLeaves ==
  ASSUME TypeOK, Market
  PROVE  OnlyLeaves
<1>1. \A i \in DOMAIN book : book[i] \in BookEntry
  BY EntriesAreEntries
<1>2. PICK k \in DOMAIN book : Fill(k) \/ Marks(k)
  BY DEF Market
<1>3. book \in Seq(BookEntry)
  BY DEF TypeOK
<1>4. CASE Fill(k)
  <2>1. /\ book[k].at \in {"working", "closing"}
        /\ book' = [book EXCEPT ![k].at = IF @ = "working" THEN "held" ELSE "closed"]
    BY <1>4 DEF Fill, Working
  <2> QED BY <1>1, <1>3, <2>1 DEF OnlyLeaves, AtBroker, BookEntry
<1>5. CASE Marks(k)
  <2>1. PICK m : book' = [book EXCEPT ![k].mark = m]
    BY <1>5 DEF Marks
  <2> QED BY <1>1, <1>3, <2>1 DEF OnlyLeaves, AtBroker, BookEntry
<1> QED BY <1>2, <1>4, <1>5

LEMMA ExpiryLeaves ==
  ASSUME TypeOK, Expires
  PROVE  OnlyLeaves /\ \A i \in DOMAIN book' : book'[i].at # "working"
<1>1. \A i \in DOMAIN book : book[i] \in BookEntry
  BY EntriesAreEntries
<1>2. DOMAIN book' = DOMAIN book
  BY DEF Expires
<1>3. \A i \in DOMAIN book :
        \/ book[i].at = "working" /\ book'[i] = [book[i] EXCEPT !.at = "dead"]
        \/ book[i].at = "closing" /\ book'[i] = [book[i] EXCEPT !.at = "stuck"]
        \/ book[i].at \notin {"working", "closing"} /\ book'[i] = book[i]
  BY DEF Expires
<1> QED BY <1>1, <1>2, <1>3 DEF OnlyLeaves, AtBroker, BookEntry

\* A slot that may open comes on a day nothing was entered on.
LEMMA ADayOfItsOwn ==
  ASSUME TypeOK, Spacing >= 1, NEW thisDay \in Nat, ~EntryBlock(thisDay)
  PROVE  \A i \in DOMAIN book : book[i].day # thisDay
<1>1. CASE EntryDays = {}
  BY <1>1 DEF EntryDays
<1>2. CASE EntryDays # {}
  <2> DEFINE lately == {d \in days : d <= thisDay /\ \A e \in EntryDays : e < d}
  <2>1. ~(Cardinality(lately) < Spacing)
    BY <1>2 DEF EntryBlock
  <2>2. lately # {}
    <3>1. Cardinality({}) = 0
      BY FS_EmptySet
    <3> HIDE DEF lately
    <3>2. SUFFICES ASSUME lately = {}  PROVE FALSE
      OBVIOUS
    <3>3. ~(0 < Spacing)
      BY <2>1, <3>1, <3>2
    <3> QED BY <3>3, EntryAssumption
  <2>3. PICK d \in days : d <= thisDay /\ \A e \in EntryDays : e < d
    BY <2>2
  <2>4. d \in Nat
    BY DEF TypeOK
  <2>5. SUFFICES ASSUME NEW i \in DOMAIN book, book[i].day = thisDay  PROVE FALSE
    OBVIOUS
  <2>6. thisDay \in EntryDays
    BY <2>5 DEF EntryDays
  <2> QED BY <2>3, <2>4, <2>6
<1> QED BY <1>1, <1>2

LEMMA HeatIsKept ==
  ASSUME Spacing >= 1, TypeOK, TypeOK', HeatInv, [Next]_vars
  PROVE  HeatInv'
<1>t. /\ clock \in Nat /\ agent \in [pc : {"waiting", "gathered", "choosing", "down"}, peak : Nat, restarts : Nat]
      /\ book \in Seq(BookEntry) /\ DOMAIN book = 1 .. Len(book)
  BY DEF TypeOK
<1>w. \A i \in DOMAIN book : book[i].at = "working" => book[i].day = Day(clock) /\ ~book[i].told
  BY DEF HeatInv
<1>1. ASSUME OnlyLeaves, Day(clock') = Day(clock) \/ \A i \in DOMAIN book : book[i].at # "working"
      PROVE  \A i \in DOMAIN book' : book'[i].at = "working" => book'[i].day = Day(clock)' /\ ~book'[i].told
  BY <1>1, <1>w DEF OnlyLeaves, Day
<1>2. CASE GatherFails
  <2>1. clock' = clock + 1 /\ UNCHANGED <<agent, inputs, book>> /\ agent.pc = "waiting"
    BY <1>2 DEF GatherFails, Comes
  <2>2. OnlyLeaves
    BY <2>1 DEF OnlyLeaves
  <2>3. Day(clock') = Day(clock) \/ \A i \in DOMAIN book : book[i].at # "working"
    BY <1>2, <2>1 DEF GatherFails, Comes, Overnight, Working
  <2> QED BY <1>1, <2>1, <2>2, <2>3 DEF HeatInv, Deciding
<1>3. CASE Gather
  <2> DEFINE thisDay == Day(clock + 1)
  <2>1. PICK priced \in SUBSET Known : Exits(priced, thisDay)
    BY <1>3 DEF Gather
  <2>2. clock' = clock + 1 /\ agent'.pc = "gathered"
    BY <1>3, <1>t DEF Gather, Comes, Observe
  <2>3. OnlyLeaves
    BY <2>1, ExitsLeave
  <2>4. Day(clock') = Day(clock) \/ \A i \in DOMAIN book : book[i].at # "working"
    BY <1>3, <2>2 DEF Gather, Comes, Overnight, Working
  <2>5. \A i \in DOMAIN book' : book'[i].at = "working" => book'[i].day = Day(clock)' /\ ~book'[i].told
    BY <1>1, <2>3, <2>4
  <2>6. ASSUME ~inputs'.block
        PROVE  (\A i \in DOMAIN book' : book'[i].day # Day(clock)') /\ Counted'
    <3>1. ~EntryBlock(thisDay)
      BY <1>3, <2>6, InputsAreRead
    <3>2. \A i \in DOMAIN book : book[i].day # thisDay
      BY <3>1, <1>t, DaysAreNumbers, ADayOfItsOwn
    <3>3. \A i \in DOMAIN book' : book'[i].day # Day(clock)'
      BY <3>2, <2>2, <2>3 DEF OnlyLeaves, Day
    <3>4. /\ Known' \subseteq Known
          /\ \A i \in Known' : book'[i].of = book[i].of /\ book'[i].quantity = book[i].quantity
      BY <2>3, <1>w, LeavingShrinks
    <3>5. /\ LossOf(Known) \in Nat /\ Cardinality(Known) \in Nat
          /\ \A u \in Unders : LossOf(On(Known, u)) \in Nat
      BY ReadingsAreNumbers
    <3>6. /\ LossOf(Known) <= inputs'.risk /\ Cardinality(Known) <= inputs'.open
          /\ \A u \in Unders : LossOf(On(Known, u)) <= inputs'.on[u]
      BY <1>3, <3>5, InputsAreRead
    <3>7. Deciding'
      BY <2>2 DEF Deciding
    <3> QED BY <3>3, <3>4, <3>6, <3>7, KnownShrinks
  <2> QED BY <2>5, <2>6 DEF HeatInv
<1>4. CASE Reconcile
  <2>1. /\ DOMAIN book' = DOMAIN book /\ clock' = clock
        /\ \A i \in DOMAIN book :
             /\ book'[i].of = book[i].of /\ book'[i].quantity = book[i].quantity
             /\ book'[i].day = book[i].day /\ book'[i].at = book[i].at
             /\ book[i].at = "working" \/ book[i].day # Day(clock) => book'[i].told = book[i].told
    <3>1. \A i \in DOMAIN book : book[i] \in BookEntry
      BY EntriesAreEntries
    <3>2. /\ DOMAIN book' = DOMAIN book /\ clock' = clock
          /\ \A i \in DOMAIN book :
               book'[i] = [book[i] EXCEPT
                   !.told = @ \/ (book[i].day = Day(clock)
                                   /\ book[i].at \in {"held", "closing", "closed"}),
                   !.cleared = @ \/ (book[i].sent = Day(clock) /\ book[i].at = "closed")]
      BY <1>4 DEF Reconcile
    <3>3. \A i \in DOMAIN book :
             /\ book'[i].of = book[i].of /\ book'[i].quantity = book[i].quantity
             /\ book'[i].day = book[i].day /\ book'[i].at = book[i].at
             /\ book'[i].told = (book[i].told \/ (book[i].day = Day(clock)
                                   /\ book[i].at \in {"held", "closing", "closed"}))
      BY <3>1, <3>2, ZenonT(30) DEF BookEntry
    <3>4. \A i \in DOMAIN book : book[i].told \in BOOLEAN
      BY <3>1 DEF BookEntry
    <3> QED BY <3>2, <3>3, <3>4, Zenon
  <2>2. \A i \in DOMAIN book' : book'[i].at = "working" => book'[i].day = Day(clock)' /\ ~book'[i].told
    BY <2>1, <1>w DEF Day
  <2>3. ASSUME Deciding', ~inputs'.block
        PROVE  (\A i \in DOMAIN book' : book'[i].day # Day(clock)') /\ Counted'
    <3>1. MayOpen(clock) /\ inputs' = inputs /\ Deciding
      BY <1>4, <2>3, <1>t DEF Reconcile, Deciding
    <3>2. (\A i \in DOMAIN book : book[i].day # Day(clock)) /\ Counted
      BY <3>1, <2>3 DEF HeatInv
    <3>3. /\ Known' \subseteq Known
          /\ \A i \in Known' : book'[i].of = book[i].of /\ book'[i].quantity = book[i].quantity
      BY <2>1, <3>2 DEF Known, AtBroker
    <3>4. /\ LossOf(Known) <= inputs'.risk /\ Cardinality(Known) <= inputs'.open
          /\ \A u \in Unders : LossOf(On(Known, u)) <= inputs'.on[u]
      BY <3>1, <3>2 DEF Counted
    <3>5. Counted'
      BY <2>3, <3>3, <3>4, KnownShrinks
    <3> QED BY <2>1, <3>2, <3>5 DEF Day
  <2> QED BY <2>2, <2>3 DEF HeatInv
<1>5. CASE StandAside
  <2>1. UNCHANGED <<clock, book>> /\ agent'.pc = "waiting"
    BY <1>5, <1>t DEF StandAside, Settle
  <2> QED BY <1>w, <2>1 DEF HeatInv, Deciding, Day
<1>6. CASE Choose
  <2>1. PICK q \in inputs.menu, late \in 0 .. Thinking, filled \in BOOLEAN : Submit(q, late, filled)
    BY <1>6 DEF Choose
  <2>2. UNCHANGED clock /\ agent'.pc = "waiting"
    BY <2>1, <1>t DEF Submit, Settle
  <2>3. PICK new : /\ book' = Append(book, new)
                   /\ new.at = (IF filled THEN "held" ELSE "working")
                   /\ new.told = filled /\ new.day = Day(clock)
    BY <2>1 DEF Submit
  <2>4. \A i \in DOMAIN book' : (i \in DOMAIN book /\ book'[i] = book[i]) \/ book'[i] = new
    BY <2>3, <1>t
  <2> QED BY <1>w, <2>2, <2>3, <2>4 DEF HeatInv, Deciding, Day
<1>7. CASE Market
  <2>1. UNCHANGED <<clock, agent, inputs>> /\ OnlyLeaves
    BY <1>7, MarketLeaves DEF Market, Fill, Marks
  <2>2. \A i \in DOMAIN book' : book'[i].at = "working" => book'[i].day = Day(clock)' /\ ~book'[i].told
    BY <1>1, <2>1
  <2>3. ASSUME Deciding', ~inputs'.block
        PROVE  (\A i \in DOMAIN book' : book'[i].day # Day(clock)') /\ Counted'
    <3>1. (\A i \in DOMAIN book : book[i].day # Day(clock)) /\ Counted
      BY <2>1, <2>3 DEF HeatInv, Deciding
    <3>2. /\ Known' \subseteq Known
          /\ \A i \in Known' : book'[i].of = book[i].of /\ book'[i].quantity = book[i].quantity
      BY <2>1, <1>w, LeavingShrinks
    <3>3. /\ LossOf(Known) <= inputs'.risk /\ Cardinality(Known) <= inputs'.open
          /\ \A u \in Unders : LossOf(On(Known, u)) <= inputs'.on[u]
      BY <2>1, <3>1 DEF Counted
    <3>4. Counted'
      BY <2>3, <3>2, <3>3, KnownShrinks
    <3> QED BY <2>1, <3>1, <3>4 DEF OnlyLeaves, Day
  <2> QED BY <2>2, <2>3 DEF HeatInv
<1>8. CASE Expires
  <2>1. ~Deciding'
    BY <1>8 DEF Expires, Deciding
  <2> QED BY <1>8, <2>1, ExpiryLeaves DEF HeatInv
<1>9. CASE Dies \/ Load
  <2>1. UNCHANGED <<clock, book>> /\ agent'.pc \in {"down", "waiting"}
    <3>1. CASE Dies
      BY <3>1 DEF Dies
    <3>2. CASE Load
      <4>1. agent'.pc = "waiting" /\ UNCHANGED <<clock, book>>
        BY <3>2, <1>t DEF Load
      <4> QED BY <4>1
    <3> QED BY <1>9, <3>1, <3>2
  <2>2. ~Deciding'
    BY <2>1 DEF Deciding
  <2> QED BY <1>w, <2>1, <2>2 DEF HeatInv, Day
<1>10. CASE UNCHANGED vars
  BY <1>10 DEF vars, HeatInv, Deciding, Counted, Known, On, LossOf, AtBroker, Day
<1> QED BY <1>2, <1>3, <1>4, <1>5, <1>6, <1>7, <1>8, <1>9, <1>10 DEF Next

LEMMA HeatIsCounted == ASSUME Spacing >= 1  PROVE Spec => []HeatInv
<1>1. Init => HeatInv
  <2>1. Init => book = <<>> /\ ~Deciding
    BY DEF Init, Deciding
  <2>2. DOMAIN <<>> = {}
    OBVIOUS
  <2> QED BY <2>1, <2>2 DEF HeatInv
<1>2. TypeOK /\ TypeOK' /\ HeatInv /\ [Next]_vars => HeatInv'
  BY HeatIsKept
<1> QED BY <1>1, <1>2, TypeCorrect, PTL DEF Spec

\* What a set of orders loses with one more that is new.
LEMMA OneMoreOrder ==
  ASSUME TypeOK, NEW S, S \subseteq DOMAIN book, \A i \in S : book'[i] = book[i],
         NEW N, N \notin DOMAIN book, book'[N].of.loss * book'[N].quantity \in Nat,
         NEW T, T = S \union {N}
  PROVE  SumFunctionOnSet([i \in T |-> book'[i].of.loss * book'[i].quantity], T)
           = LossOf(S) + book'[N].of.loss * book'[N].quantity
<1> DEFINE f == [i \in T |-> book'[i].of.loss * book'[i].quantity]
           g == [i \in S |-> book[i].of.loss * book[i].quantity]
<1>1. IsFiniteSet(S) /\ N \notin S
  BY BookIsFinite
<1>2. \A i \in S : g[i] \in Int
  BY EntriesAreEntries
<1>3. \A i \in S : f[i] = g[i]
  OBVIOUS
<1>4. f[N] = book'[N].of.loss * book'[N].quantity
  OBVIOUS
<1>5. LossOf(S) = SumFunctionOnSet(g, S)
  BY DEF LossOf
<1> HIDE DEF f, g
<1>6. \A i \in S : f[i] \in Int /\ f[i] = g[i]
  BY <1>2, <1>3
<1>7. \A i \in S \union {N} : f[i] \in Int
  BY <1>4, <1>6
<1>8. SumFunctionOnSet(f, T) = SumFunctionOnSet(f, S) + f[N]
  BY <1>1, <1>7, SumOfOneMore
<1>9. SumFunctionOnSet(f, S) = SumFunctionOnSet(g, S)
  BY <1>1, <1>6, SumIsOfValues
<1> QED BY <1>4, <1>5, <1>8, <1>9 DEF f

\* A limit that holds of a reading holds of what is less than it.
LEMMA LessIsWithin ==
  ASSUME NEW a \in Nat, NEW r \in Nat, NEW w \in Nat, NEW limit \in Nat,
         a <= r, ~(100 * (r + w) > limit)
  PROVE  100 * (a + w) <= limit
OBVIOUS

\* With entries at least a trading day apart, the limits of the snapshot are
\* limits of everything that may lose.
THEOREM HeatIsBounded == ASSUME Spacing >= 1  PROVE Spec => HeatHolds
<1> DEFINE Bounded ==
      Opens => /\ 100 * LossOf(Exposed)' <= HeatPct * inputs.equity
               /\ 100 * LossOf(On(Exposed, book[Len(book)].of.under))' <= UnderlyingPct * inputs.equity
               /\ Cardinality(Exposed)' <= MaxStructures
<1>1. TypeOK /\ TypeOK' /\ HeatInv /\ [Next]_vars => [Bounded]_vars
  <2> SUFFICES ASSUME TypeOK, TypeOK', HeatInv, [Next]_vars, Opens
               PROVE  /\ 100 * LossOf(Exposed)' <= HeatPct * inputs.equity
                      /\ 100 * LossOf(On(Exposed, book[Len(book)].of.under))' <= UnderlyingPct * inputs.equity
                      /\ Cardinality(Exposed)' <= MaxStructures
    OBVIOUS
  <2>1. Choose
    BY OpensOnlyBySubmit
  <2>2. PICK q \in inputs.menu, late \in 0 .. Thinking, filled \in BOOLEAN : Submit(q, late, filled)
    BY <2>1 DEF Choose
  <2> DEFINE n == SizeFor(q, inputs.equity)
             N == Len(book) + 1
             w == q.loss * n
  <2>3. /\ book \in Seq(BookEntry) /\ DOMAIN book = 1 .. Len(book) /\ Len(book) \in Nat
        /\ inputs.equity \in Nat /\ inputs.risk \in Nat /\ inputs.open \in Nat
        /\ q \in Quoted /\ q.under \in Unders
    <3>1. q \in Quoted
      BY DEF TypeOK, InputsOK
    <3>2. q.under \in Unders
      BY <3>1 DEF Unders
    <3> QED BY <3>1, <3>2 DEF TypeOK, InputsOK
  <2>4. n \in Nat /\ w \in Nat /\ inputs.on[q.under] \in Nat
    <3>1. n \in Nat /\ q.loss \in Nat
      BY <2>3, SizesAreWithinBudget, EntryAssumption
    <3>2. inputs.on[q.under] \in Nat
      BY <2>2, <2>3 DEF Submit, Settle, TypeOK, InputsOK, Deciding
    <3> QED BY <3>1, <3>2
  <2>5. PICK new : /\ book' = Append(book, new)
                   /\ new.of = q /\ new.quantity = n /\ new.day = Day(clock)
                   /\ new.at = (IF filled THEN "held" ELSE "working")
    BY <2>2 DEF Submit
  <2>6. /\ clock' = clock /\ ~inputs.block /\ Deciding
        /\ "portfolio_heat" \notin BookFails(q, n)
        /\ "underlying_concentration" \notin BookFails(q, n)
        /\ "position_count" \notin BookFails(q, n)
    BY <2>2 DEF Submit, Settle, Deciding, Approved, Fails
  <2>7. /\ ~(100 * (inputs.risk + w) > HeatPct * inputs.equity)
        /\ ~(100 * (inputs.on[q.under] + w) > UnderlyingPct * inputs.equity)
        /\ ~(inputs.open >= MaxStructures)
    BY <2>6 DEF BookFails
  <2>8. (\A i \in DOMAIN book : book[i].day # Day(clock)) /\ Counted
    BY <2>6 DEF HeatInv
  <2> HIDE DEF n, w
  <2>9. /\ DOMAIN book' = DOMAIN book \union {N} /\ N \notin DOMAIN book /\ Len(book') = N
        /\ book'[N] = new /\ \A i \in DOMAIN book : book'[i] = book[i]
    BY <2>3, <2>5
  <2>10. Exposed' = Known \union {N}
    <3>1. \A i \in DOMAIN book :
            (/\ book[i].at = "working" \/ AtBroker(book[i])
             /\ book[i].told \/ book[i].day = Day(clock)) <=> i \in Known
      BY <2>8 DEF HeatInv, Known
    <3>2. /\ new.at = "working" \/ AtBroker(new)
          /\ new.day = Day(clock)
      BY <2>5 DEF AtBroker
    <3>3. Exposed' = {i \in DOMAIN book' : /\ book'[i].at = "working" \/ AtBroker(book'[i])
                                           /\ book'[i].told \/ book'[i].day = Day(clock)}
      BY <2>6 DEF Exposed, AtBroker, Day
    <3>4. \A i \in DOMAIN book' : i \in Exposed' <=> i \in Known \/ i = N
      BY <2>9, <3>1, <3>2, <3>3
    <3>5. Exposed' \subseteq DOMAIN book' /\ Known \subseteq DOMAIN book
      BY <3>3 DEF Known
    <3> QED BY <2>9, <3>4, <3>5
  <2> HIDE DEF N
  <2>11. /\ Known \subseteq DOMAIN book /\ On(Known, q.under) \subseteq DOMAIN book
         /\ book'[N].of.loss * book'[N].quantity = w
    <3>1. book'[N].of.loss * book'[N].quantity = w
      BY <2>5, <2>9 DEF w
    <3> QED BY <3>1 DEF Known, On
  <2>12. LossOf(Exposed)' = LossOf(Known) + w
    <3> DEFINE T == Exposed'
    <3>1. T = Known \union {N}
      BY <2>10
    <3>2. LossOf(Exposed)' = SumFunctionOnSet([i \in T |-> book'[i].of.loss * book'[i].quantity], T)
      BY DEF LossOf
    <3> HIDE DEF T
    <3>3. SumFunctionOnSet([i \in T |-> book'[i].of.loss * book'[i].quantity], T)
            = LossOf(Known) + book'[N].of.loss * book'[N].quantity
      <4>1. \A i \in Known : book'[i] = book[i]
        BY <2>9, <2>11
      <4>2. book'[N].of.loss * book'[N].quantity \in Nat
        BY <2>4, <2>11
      <4> QED BY <2>9, <2>11, <3>1, <4>1, <4>2, OneMoreOrder
    <3> QED BY <2>11, <3>2, <3>3
  <2>13. LossOf(On(Exposed, book[Len(book)].of.under))' = LossOf(On(Known, q.under)) + w
    <3> DEFINE T == On(Exposed, book[Len(book)].of.under)'
               S == On(Known, q.under)
    <3>1. T = S \union {N}
      <4>1. T = {i \in Exposed' : book'[i].of.under = book'[Len(book')].of.under}
        BY DEF On
      <4>2. book'[Len(book')].of.under = q.under
        BY <2>5, <2>9
      <4>3. \A i \in Known : book'[i] = book[i]
        BY <2>9, <2>11
      <4>4. book'[N].of.under = q.under
        BY <2>5, <2>9
      <4>5. T = {i \in Known \union {N} : book'[i].of.under = q.under}
        BY <2>10, <4>1, <4>2
      <4>6. S = {i \in Known : book[i].of.under = q.under}
        BY DEF On
      <4> HIDE DEF T, S
      <4> QED BY <4>3, <4>4, <4>5, <4>6
    <3>2. LossOf(On(Exposed, book[Len(book)].of.under))'
            = SumFunctionOnSet([i \in T |-> book'[i].of.loss * book'[i].quantity], T)
      BY DEF LossOf
    <3>3. S \subseteq DOMAIN book
      BY <2>11
    <3>4. LossOf(S) = LossOf(On(Known, q.under))
      OBVIOUS
    <3> HIDE DEF T, S
    <3>5. SumFunctionOnSet([i \in T |-> book'[i].of.loss * book'[i].quantity], T)
            = LossOf(S) + book'[N].of.loss * book'[N].quantity
      <4>1. \A i \in S : book'[i] = book[i]
        BY <2>9, <3>3
      <4>2. book'[N].of.loss * book'[N].quantity \in Nat
        BY <2>4, <2>11
      <4> QED BY <2>9, <3>1, <3>3, <4>1, <4>2, OneMoreOrder
    <3> QED BY <2>11, <3>2, <3>4, <3>5
  <2>14. Cardinality(Exposed)' = Cardinality(Known) + 1
    <3>1. IsFiniteSet(Known) /\ N \notin Known
      BY <2>9, <2>11, BookIsFinite
    <3> QED BY <2>10, <3>1, FS_AddElement
  <2>15. /\ LossOf(Known) \in Nat /\ LossOf(On(Known, q.under)) \in Nat /\ Cardinality(Known) \in Nat
         /\ LossOf(Known) <= inputs.risk /\ LossOf(On(Known, q.under)) <= inputs.on[q.under]
         /\ Cardinality(Known) <= inputs.open
    BY <2>3, <2>8, ReadingsAreNumbers DEF Counted
  <2>16. HeatPct \in Nat /\ UnderlyingPct \in Nat /\ MaxStructures \in Nat
    BY EntryAssumption
  <2> DEFINE heat == HeatPct * inputs.equity
             share == UnderlyingPct * inputs.equity
  <2>h. heat \in Nat /\ share \in Nat
    BY <2>3, <2>16
  <2>g. ~(100 * (inputs.risk + w) > heat) /\ ~(100 * (inputs.on[q.under] + w) > share)
    BY <2>7
  <2> HIDE DEF heat, share
  <2>17. 100 * LossOf(Exposed)' <= heat
    <3>1. 100 * (LossOf(Known) + w) <= heat
      BY <2>3, <2>4, <2>g, <2>15, <2>h, LessIsWithin
    <3> QED BY <2>12, <3>1
  <2>18. 100 * LossOf(On(Exposed, book[Len(book)].of.under))' <= share
    <3>1. 100 * (LossOf(On(Known, q.under)) + w) <= share
      BY <2>3, <2>4, <2>g, <2>15, <2>h, LessIsWithin
    <3> QED BY <2>13, <3>1
  <2>19. Cardinality(Exposed)' <= MaxStructures
    BY <2>3, <2>7, <2>14, <2>15, <2>16
  <2> QED BY <2>17, <2>18, <2>19 DEF heat, share
<1>2. Spec => [][Bounded]_vars
  <2> HIDE DEF Bounded
  <2> QED BY <1>1, HeatIsCounted, TypeCorrect, PTL DEF Spec
<1> QED BY <1>2 DEF HeatHolds

-----------------------------------------------------------------------------
(***************************************************************************)
(* The rank. What a top-up has still to write and what is in the file are  *)
(* together the rows of its window, but for the two that a tail without a  *)
(* newline costs: of a window that was the only one the two ranges are of  *)
(* the same days, and so are the ranks.                                    *)
(***************************************************************************)
USE RankAssumption

Row == [iv : Nat, extremes : BOOLEAN]

RankTypes ==
  /\ today \in 1..LastDay /\ published \in Seq(Row \union {NoRow}) /\ Len(published) = today
  /\ pulled \in 0..today /\ stored \subseteq 1..today /\ dead \in Nat
  /\ tail \in {NoRow, Part} \union 1..today
  /\ seeding \in {NoRow} \union SUBSET (1..today)
  /\ IsFiniteSet(windows)
  /\ last \in {NoRow} \union [of : 1..pulled, whole : BOOLEAN]

\* The days a running top-up has still to write.
Ahead == IF seeding = NoRow THEN {} ELSE seeding

\* Every line is of a row of some window topped up from, and so is every one
\* that a running top-up has still to write.
LinesAreRows ==
  \A d \in Entries \union Ahead : Said(d) /\ \E w \in windows : d >= w

\* What the window of the last top-up has that the file has not.
Lost == {d \in Max({1, last.of - YearDays}) .. last.of : Said(d)} \ Entries

\* That is still ahead of it, but for the line that met a tail without a
\* newline, and that tail.
WindowIsKept ==
  last # NoRow =>
    /\ last.of - YearDays \in windows
    /\ last.whole => tail = NoRow
    /\ \E a, b : Lost \subseteq Ahead \union IF last.whole \/ tail # NoRow THEN {} ELSE {a, b}

RankInv == RankTypes /\ LinesAreRows /\ WindowIsKept

LEMMA RowsAreRows == VendorRows \subseteq Row
<1>1. Max(Volatilities) \in Volatilities
  <2>1. PICK n \in Nat : Volatilities \subseteq 0..n
    BY FiniteIsBounded
  <2> QED BY <2>1, GreatestNatural
<1>2. Volatilities \subseteq Nat /\ Max(Volatilities) \in Nat
  BY <1>1
<1>3. /\ [iv : Volatilities, extremes : {TRUE}] \subseteq Row
      /\ [iv |-> 0, extremes |-> TRUE] \in Row
      /\ [iv |-> Max(Volatilities), extremes |-> FALSE] \in Row
  BY <1>2 DEF Row
<1> QED BY <1>3 DEF VendorRows, Blank

LEMMA RankStarts == RankInit => RankInv
<1> SUFFICES ASSUME RankInit PROVE RankInv
  OBVIOUS
<1>2. PICK row \in Row \union {NoRow} : published = <<row>>
  BY RowsAreRows DEF RankInit
<1>3. IsFiniteSet(windows)
  BY FS_EmptySet DEF RankInit
<1>4. RankTypes
  BY <1>2, <1>3 DEF RankInit, RankTypes
<1> QED BY <1>4 DEF RankInit, RankInv, LinesAreRows, WindowIsKept, Entries, Ahead

\* The last row that is dated, and the window it ends.
LEMMA LastDated ==
  ASSUME RankTypes, Dated # {}
  PROVE  /\ Max(Dated) \in 1..pulled /\ published[Max(Dated)] # NoRow
         /\ \A d \in 1..pulled : published[d] # NoRow => d <= Max(Dated)
<1>1. Dated \subseteq 0..pulled /\ pulled \in Nat
  BY DEF RankTypes, Dated
<1>2. Max(Dated) \in Dated /\ \A d \in Dated : d <= Max(Dated)
  BY <1>1, GreatestNatural
<1> QED BY <1>2 DEF Dated

LEMMA LinesAreDays ==
  ASSUME RankTypes
  PROVE  Entries \subseteq 1..today /\ Ahead \subseteq 1..today
<1>1. Ahead \subseteq 1..today
  BY DEF RankTypes, Ahead
<1>2. tail \in 1..LastDay => tail \in 1..today
  BY DEF RankTypes, Part
<1> QED BY <1>1, <1>2 DEF RankTypes, Entries

LEMMA WindowStarts ==
  ASSUME NEW n \in Int
  PROVE  Max({1, n}) \in Int /\ Max({1, n}) >= 1 /\ Max({1, n}) >= n /\ Max({1, n}) \in {1, n}
<1>1. \E m \in {1, n} : \A k \in {1, n} : k <= m
  <2>1. CASE n <= 1
    BY <2>1
  <2>2. CASE n > 1
    BY <2>2
  <2> QED BY <2>1, <2>2
<1>2. Max({1, n}) \in {1, n} /\ \A k \in {1, n} : k <= Max({1, n})
  BY <1>1 DEF Max
<1> QED BY <1>2

\* A row more, or more of the rows pulled, changes nothing of the days before.
LEMMA DaysStand ==
  ASSUME RankInv, UNCHANGED <<stored, tail, seeding, windows, last, dead>>,
         today' \in today..LastDay, published' \in Seq(Row \union {NoRow}), Len(published') = today',
         \A d \in 1..today : published'[d] = published[d],
         pulled' \in pulled..today'
  PROVE  RankInv'
<1>1. RankTypes'
  BY DEF RankInv, RankTypes
<1>2. Entries' = Entries /\ Ahead' = Ahead /\ Entries \subseteq 1..today /\ Ahead \subseteq 1..today
  BY LinesAreDays DEF RankInv, Entries, Ahead
<1>3. \A d \in 1..today : Said(d)' <=> Said(d)
  BY DEF Said
<1>4. LinesAreRows'
  BY <1>2, <1>3 DEF RankInv, LinesAreRows
<1>5. last # NoRow => Lost' = Lost
  <2> SUFFICES ASSUME last # NoRow PROVE Lost' = Lost
    OBVIOUS
  <2>1. last.of \in 1..today /\ today \in Nat
    BY DEF RankInv, RankTypes
  <2>2. \A d \in Max({1, last.of - YearDays}) .. last.of : d \in 1..today
    <3>1. last.of \in Int /\ last.of - YearDays \in Int
      BY <2>1
    <3>2. Max({1, last.of - YearDays}) \in Int /\ Max({1, last.of - YearDays}) >= 1
      BY <3>1, WindowStarts
    <3> QED BY <2>1, <3>2
  <2> QED BY <1>2, <1>3, <2>2 DEF Lost
<1>6. WindowIsKept'
  BY <1>2, <1>5 DEF RankInv, WindowIsKept
<1> QED BY <1>1, <1>4, <1>6 DEF RankInv

LEMMA SeedingBegins ==
  ASSUME RankInv, cmd_iv_seed
  PROVE  RankInv'
<1>1. UNCHANGED <<today, published, pulled, stored, tail, dead>> /\ Ahead = {}
  BY DEF cmd_iv_seed, Ahead
<1> DEFINE newest == Max(Dated)
<1>2. newest \in 1..pulled /\ \A d \in 1..pulled : published[d] # NoRow => d <= newest
  BY LastDated DEF cmd_iv_seed, RankInv
<1>3. /\ seeding' = {d \in 1..pulled : d >= newest - YearDays /\ Said(d)}
      /\ windows' = windows \union {newest - YearDays}
      /\ last' = [of |-> newest, whole |-> tail = NoRow]
  BY DEF cmd_iv_seed, Wanted, SinceDay
<1> HIDE DEF newest
<1>4. pulled \in Nat /\ pulled <= today /\ seeding' \subseteq 1..today /\ seeding' # NoRow
  BY <1>3 DEF RankInv, RankTypes
<1>5. Entries' = Entries /\ Ahead' = seeding' /\ last' # NoRow
  <2>1. last' \in [of : Nat, whole : BOOLEAN]
    BY <1>2, <1>3, <1>4
  <2>2. Entries' = Entries /\ Ahead' = seeding'
    BY <1>1, <1>4 DEF Entries, Ahead
  <2> QED BY <2>1, <2>2
<1>6. RankTypes'
  <2>1. IsFiniteSet(windows')
    BY <1>3, FS_AddElement DEF RankInv, RankTypes
  <2>2. last' \in [of : 1..pulled, whole : BOOLEAN]
    BY <1>2, <1>3
  <2> QED BY <1>1, <1>4, <2>1, <2>2 DEF RankInv, RankTypes
<1>7. \A d : Said(d)' <=> Said(d)
  BY <1>1 DEF Said
<1>8. LinesAreRows'
  BY <1>1, <1>3, <1>5, <1>7 DEF RankInv, LinesAreRows
<1>9. Lost' \subseteq Ahead'
  <2> SUFFICES ASSUME NEW d \in Lost'  PROVE d \in Ahead'
    OBVIOUS
  <2>1. newest - YearDays \in Int /\ newest \in Int
    BY <1>2
  <2>2. last'.of = newest
    BY <1>3
  <2>3. d \in Max({1, newest - YearDays}) .. newest /\ Said(d)
    BY <1>7, <2>2 DEF Lost
  <2>4. d >= 1 /\ d >= newest - YearDays /\ d \in Int /\ d <= newest
    <3>1. Max({1, newest - YearDays}) \in Int /\ Max({1, newest - YearDays}) >= 1
          /\ Max({1, newest - YearDays}) >= newest - YearDays
      BY <2>1, WindowStarts
    <3> QED BY <2>1, <2>3, <3>1
  <2>5. d \in 1..pulled
    BY <1>2, <1>4, <2>4
  <2> QED BY <1>3, <1>5, <2>3, <2>4, <2>5
<1>10. WindowIsKept'
  BY <1>1, <1>3, <1>9 DEF WindowIsKept
<1> QED BY <1>6, <1>8, <1>10 DEF RankInv

\* A row more is written, or was, and one less is ahead.
LEMMA LineIsWritten ==
  ASSUME RankInv, Record
  PROVE  RankInv'
<1>1. seeding # NoRow /\ seeding # {} /\ seeding \subseteq 1..today /\ seeding \subseteq Nat
  BY DEF Record, RankInv, RankTypes
<1> DEFINE d == Upcoming
<1>2. d \in seeding
  BY <1>1, LeastNatural DEF Upcoming
<1>3. /\ seeding' = seeding \ {d} /\ UNCHANGED <<today, published, pulled, windows, last, dead>>
      /\ IF d \in Entries THEN UNCHANGED <<stored, tail>>
         ELSE tail' = NoRow /\ stored' = IF tail = NoRow THEN stored \union {d} ELSE stored
  BY DEF Record, HasRecord, Written
<1> HIDE DEF d
<1>4. seeding' # NoRow /\ Ahead = seeding /\ Ahead' = seeding \ {d}
  BY <1>1, <1>3 DEF Ahead, RankInv, RankTypes
<1>5. RankTypes'
  BY <1>1, <1>2, <1>3, <1>4 DEF RankInv, RankTypes
<1>6. \A e : Said(e)' <=> Said(e)
  BY <1>3 DEF Said
<1>7. Entries' \subseteq Entries \union {d}
  BY <1>3 DEF Entries, RankInv, RankTypes
<1>8. LinesAreRows'
  BY <1>2, <1>3, <1>4, <1>6, <1>7 DEF RankInv, LinesAreRows
<1>9. \A e : e \in Lost' => e \notin Entries' /\ (e \in Lost \/ e \in Entries)
  BY <1>3, <1>6 DEF Lost
<1>10. WindowIsKept'
  <2> SUFFICES ASSUME last # NoRow PROVE WindowIsKept'
    BY <1>3 DEF WindowIsKept
  <2>1. PICK a, b : Lost \subseteq Ahead \union IF last.whole \/ tail # NoRow THEN {} ELSE {a, b}
    BY DEF RankInv, WindowIsKept
  <2>2. last.of - YearDays \in windows /\ (last.whole => tail = NoRow)
    BY DEF RankInv, WindowIsKept
  <2>3. CASE d \in Entries
    <3>1. Entries' = Entries /\ tail' = tail
      BY <1>3, <2>3 DEF Entries
    <3>2. Lost' \subseteq Ahead' \union IF last.whole \/ tail' # NoRow THEN {} ELSE {a, b}
      BY <1>4, <1>9, <2>1, <2>3, <3>1
    <3> QED BY <1>3, <2>2, <3>1, <3>2 DEF WindowIsKept
  <2>4. CASE d \notin Entries /\ tail = NoRow
    <3>1. Entries' = Entries \union {d} /\ tail' = NoRow
      BY <1>3, <2>4 DEF Entries, RankInv, RankTypes
    <3>2. Lost' \subseteq Ahead' \union IF last.whole \/ tail' # NoRow THEN {} ELSE {a, b}
      BY <1>4, <1>9, <2>1, <2>4, <3>1
    <3> QED BY <1>3, <2>2, <3>1, <3>2 DEF WindowIsKept
  <2>5. CASE d \notin Entries /\ tail # NoRow
    <3>1. Entries \ {tail} \subseteq Entries' /\ tail' = NoRow
      BY <1>3, <2>5 DEF Entries
    <3>2. Lost' \subseteq Ahead' \union IF last.whole \/ tail' # NoRow THEN {} ELSE {d, tail}
      BY <1>4, <1>9, <2>1, <2>2, <2>5, <3>1
    <3> QED BY <1>3, <2>2, <2>5, <3>1, <3>2 DEF WindowIsKept
  <2> QED BY <2>3, <2>4, <2>5
<1> QED BY <1>5, <1>8, <1>10 DEF RankInv

LEMMA RankStep == RankInv /\ [RankNext]_volatility => RankInv'
<1> SUFFICES ASSUME RankInv, [RankNext]_volatility PROVE RankInv'
  OBVIOUS
<1>1. CASE NextDay
  <2>1. PICK row \in Row \union {NoRow} : published' = Append(published, row)
    BY <1>1, RowsAreRows DEF NextDay
  <2>2. /\ today' \in today..LastDay /\ Len(published') = today' /\ pulled' \in pulled..today'
        /\ published' \in Seq(Row \union {NoRow}) /\ \A d \in 1..today : published'[d] = published[d]
    BY <1>1, <2>1 DEF NextDay, RankInv, RankTypes
  <2> QED BY <1>1, <2>2, DaysStand DEF NextDay
<1>2. CASE Pull
  <2>1. /\ today' \in today..LastDay /\ Len(published') = today' /\ pulled' \in pulled..today'
        /\ published' \in Seq(Row \union {NoRow}) /\ \A d \in 1..today : published'[d] = published[d]
    BY <1>2 DEF Pull, RankInv, RankTypes
  <2> QED BY <1>2, <2>1, DaysStand DEF Pull
<1>3. CASE cmd_iv_seed
  BY <1>3, SeedingBegins
<1>4. CASE Record
  BY <1>4, LineIsWritten
<1>5. CASE Die
  <2>1. seeding # NoRow /\ seeding # {} /\ seeding \subseteq 1..today /\ seeding \subseteq Nat
    BY <1>5 DEF Die, RankInv, RankTypes
  <2>2. Upcoming \in seeding
    BY <2>1, LeastNatural DEF Upcoming
  <2>3. tail' \in {Part, Upcoming} /\ seeding' = NoRow /\ last' = NoRow
        /\ UNCHANGED <<today, published, pulled, stored, windows>> /\ dead' = dead + 1
    BY <1>5 DEF Die
  <2>4. RankTypes'
    BY <2>1, <2>2, <2>3 DEF RankInv, RankTypes
  <2>5. Ahead = seeding /\ Ahead' = {} /\ Entries' \subseteq Entries \union {Upcoming}
    BY <2>1, <2>3 DEF Ahead, Entries, Part, RankInv, RankTypes
  <2>6. \A e : Said(e)' <=> Said(e)
    BY <2>3 DEF Said
  <2>7. LinesAreRows'
    BY <2>2, <2>3, <2>5, <2>6 DEF RankInv, LinesAreRows
  <2> QED BY <2>3, <2>4, <2>7 DEF RankInv, WindowIsKept
<1>6. CASE Seeded \/ UNCHANGED volatility
  <2>1. /\ UNCHANGED <<today, published, pulled, stored, tail, windows, last, dead>>
        /\ Ahead' = Ahead /\ (seeding' = seeding \/ seeding' = NoRow)
    BY <1>6 DEF Seeded, volatility, Ahead
  <2>2. RankTypes'
    BY <2>1 DEF RankInv, RankTypes
  <2>3. Entries' = Entries /\ (\A e : Said(e)' <=> Said(e))
    BY <2>1 DEF Entries, Said
  <2>4. Lost' = Lost
    BY <2>1, <2>3 DEF Lost
  <2> QED BY <2>1, <2>2, <2>3, <2>4 DEF RankInv, LinesAreRows, WindowIsKept
<1> QED BY <1>1, <1>2, <1>3, <1>4, <1>5, <1>6 DEF RankNext

-----------------------------------------------------------------------------
\* After one window topped up from whole, the file has the rows of its last
\* line's year and no others.
LEMMA FileIsTheYear ==
  ASSUME RankInv, Fresh
  PROVE  /\ History = YearOf(Latest) /\ Latest \in 1..pulled /\ pulled <= today /\ {today, pulled} \subseteq Nat
         /\ \A d \in 1..pulled : published[d] # NoRow => d <= Latest
<1>1. /\ last # NoRow /\ last.whole /\ seeding = NoRow /\ Entries # {} /\ Cardinality(windows) = 1
      /\ last.of = Max(Dated) /\ Latest = last.of /\ last.of \in 1..pulled
      /\ pulled <= today /\ today \in Nat /\ pulled \in Nat /\ YearDays \in Nat
  BY DEF Fresh, RankInv, RankTypes
<1> DEFINE L == Latest
           lo == Max({1, L - YearDays})
<1>2. \A d \in 1..pulled : published[d] # NoRow => d <= L
  <2>1. Said(L)
    BY <1>1 DEF Fresh, Answers
  <2>2. L \in Dated
    BY <1>1, <2>1 DEF Said, Dated
  <2> QED BY <1>1, <2>2, LastDated DEF RankInv
<1>3. windows = {L - YearDays}
  <2>1. L - YearDays \in windows
    BY <1>1 DEF RankInv, WindowIsKept
  <2>2. IsFiniteSet(windows)
    BY DEF RankInv, RankTypes
  <2>3. \E w : windows = {w}
    BY <1>1, <2>2, FS_Singleton
  <2> QED BY <2>1, <2>3
<1>4. Entries \subseteq 0..today /\ Entries \subseteq 1..today
  BY <1>1, LinesAreDays DEF RankInv
<1>5. \A d \in Entries : d <= L
  BY <1>1, <1>4, GreatestNatural DEF Latest
<1>6. lo \in Int /\ lo >= 1 /\ lo >= L - YearDays /\ lo \in {1, L - YearDays}
  <2>1. L - YearDays \in Int
    BY <1>1
  <2> QED BY <2>1, WindowStarts
<1> HIDE DEF lo
<1>7. ASSUME NEW d \in Entries  PROVE d \in lo..L /\ Said(d)
  <2>1. Said(d) /\ d >= L - YearDays
    BY <1>3 DEF RankInv, LinesAreRows
  <2>2. d \in Nat /\ d >= 1 /\ d <= L
    BY <1>1, <1>4, <1>5
  <2> QED BY <1>1, <1>6, <2>1, <2>2
<1>8. ASSUME NEW d \in lo..L, Said(d)  PROVE d \in Entries
  <2>1. Lost = {}
    BY <1>1 DEF RankInv, WindowIsKept, Ahead
  <2>2. d \in Max({1, last.of - YearDays}) .. last.of
    BY <1>1, <1>8 DEF lo
  <2> QED BY <1>8, <2>1, <2>2 DEF Lost
<1>9. Entries = {d \in lo..L : Said(d)}
  BY <1>7, <1>8
<1>10. History = YearOf(L)
  BY <1>9 DEF History, YearOf, lo
<1> QED BY <1>1, <1>2, <1>10

LEMMA RankIsTheirs == RankInv => RankIsTheResearchedOne
<1> SUFFICES ASSUME RankInv, Fresh, LiveRank(today) # None  PROVE
      /\ LiveRank(today) = ResearchRank(today)
      /\ \A entry \in Rules : Taken(entry) /\ decide(entry, LiveRank(today))
                               => evaluate(entry, ResearchRank(today))
  BY DEF RankIsTheResearchedOne
<1>1. /\ History = YearOf(Latest) /\ Latest \in 1..pulled /\ pulled <= today /\ {today, pulled} \subseteq Nat
      /\ \A d \in 1..pulled : published[d] # NoRow => d <= Latest
  BY FileIsTheYear
<1>2. LiveRank(today) = Ranked(published[Latest].iv, History) /\ ~(today - Latest > StaleAfter)
  BY DEF LiveRank, Stale
<1>3. AsOf(today) = Latest
  <2>1. Min({today, pulled}) = pulled
    <3>1. {today, pulled} \subseteq Nat /\ {today, pulled} # {}
      BY <1>1
    <3>2. Min({today, pulled}) \in {today, pulled} /\ Min({today, pulled}) <= pulled
      BY <3>1, LeastNatural
    <3> QED BY <1>1, <3>2
  <2> DEFINE answering == {e \in 1 .. pulled : Answers(e)}
  <2>2. Latest \in answering
    BY <1>1 DEF Fresh
  <2>3. answering \subseteq 0..pulled
    BY <1>1
  <2>4. \A e \in answering : e <= Latest
    BY <1>1 DEF Answers, Said
  <2>5. Max(answering) = Latest
    <3>1. Max(answering) \in answering /\ Latest <= Max(answering)
      BY <1>1, <2>2, <2>3, GreatestNatural
    <3> QED BY <1>1, <2>4, <3>1
  <2> QED BY <1>2, <2>1, <2>2, <2>5 DEF AsOf
<1>4. Latest # NoRow
  BY <1>1
<1>5. LiveRank(today) = ResearchRank(today)
  BY <1>1, <1>2, <1>3, <1>4 DEF ResearchRank
<1>6. ASSUME NEW entry \in Rules, Taken(entry), decide(entry, LiveRank(today))
      PROVE  evaluate(entry, ResearchRank(today))
  BY <1>5, <1>6 DEF Taken, decide, evaluate, Compare
<1> QED BY <1>5, <1>6

LEMMA LossesAreTwo == RankInv => SeedsAreKept
<1> SUFFICES ASSUME RankInv, seeding = NoRow, last # NoRow
             PROVE  IsFiniteSet(Lost) /\ Cardinality(Lost) <= IF last.whole THEN 0 ELSE 2
  BY DEF SeedsAreKept, Lost
<1>1. PICK a, b : Lost \subseteq IF last.whole \/ tail # NoRow THEN {} ELSE {a, b}
  BY DEF RankInv, WindowIsKept, Ahead
<1>2. IsFiniteSet({a, b}) /\ Cardinality({a, b}) <= 2 /\ Cardinality({a, b}) \in Nat
  <2>1. IsFiniteSet({a}) /\ Cardinality({a}) = 1
    BY FS_Singleton
  <2>2. {a, b} = {a} \union {b}
    OBVIOUS
  <2>3. /\ IsFiniteSet({a} \union {b})
        /\ Cardinality({a} \union {b}) = IF b \in {a} THEN Cardinality({a}) ELSE Cardinality({a}) + 1
    BY <2>1, FS_AddElement
  <2>4. Cardinality({a} \union {b}) \in {1, 2}
    BY <2>1, <2>3
  <2>5. IsFiniteSet({a, b}) /\ Cardinality({a, b}) \in {1, 2}
    BY <2>2, <2>3, <2>4
  <2> QED BY <2>5
<1>3. IsFiniteSet({}) /\ Cardinality({}) = 0
  BY FS_EmptySet
<1>4. CASE last.whole
  <2>1. Lost = {}
    BY <1>1, <1>4
  <2> QED BY <1>3, <1>4, <2>1
<1>5. CASE ~last.whole
  <2>1. Lost \subseteq {a, b}
    BY <1>1
  <2>2. IsFiniteSet(Lost) /\ Cardinality(Lost) <= Cardinality({a, b}) /\ Cardinality(Lost) \in Nat
    BY <1>2, <2>1, FS_Subset, FS_CardinalityType
  <2> QED BY <1>2, <1>5, <2>2
<1> QED BY <1>4, <1>5

(***************************************************************************)
(* Whatever top-ups died in the middle of a line, the rank an agent has is *)
(* the research's wherever the two can be one, and a top-up that ran to    *)
(* its end left its window in the file but for the two lines a torn tail   *)
(* costs: for any volatilities, days, windows and deaths.                  *)
(***************************************************************************)
THEOREM RanksAreOne == RankSpec => []RanksAreTheResearch
<1>1. RankInit => RankInv
  BY RankStarts
<1>2. RankInv /\ [RankNext]_volatility => RankInv'
  BY RankStep
<1>3. RankInv => RanksAreTheResearch
  BY RankIsTheirs, LossesAreTwo DEF RanksAreTheResearch
<1> QED BY <1>1, <1>2, <1>3, PTL DEF RankSpec

HIDE RankAssumption

-----------------------------------------------------------------------------
(***************************************************************************)
(* The trend. A bar is a walk of as many steps as the rungs between the    *)
(* phase held and the one asked for; At says what the walk has made of the *)
(* bar after each, and bounded induction along the steps (HandedOn) takes  *)
(* TrendInv from the first to the last: the age of a phase is that of the  *)
(* targets that asked for it, and the stance is of the side last held.     *)
(***************************************************************************)
USE LadderAssumption

Rungs == Ladder \union {Unknown}
Sides == {-1, 0, 1}

LEMMA SideIsOne == \A p \in Rungs : Side(p) \in Sides
  BY DEF Side, Rungs, Ladder, Unknown, Neutral, Sides

\* The bars before which no target is known.
Soonest == {b \in 1..Slowest : Cardinality(Warm(b)) >= Enough}
First == Min(Soonest)

(***************************************************************************)
(* Evidence that can be read asks for a rung, and there is enough of it    *)
(* only when as many kinds are warm as warmup counts.                      *)
(***************************************************************************)
LEMMA TargetIsARung ==
  ASSUME phase \in Rungs, NEW votes
  PROVE  Target(votes) \in Rungs
<1> DEFINE rung(s) == CASE AtLeast(s, Strong) -> 3 [] AtLeast(s, Trend) -> 2
                         [] AtLeast(s, Watch) -> 1 [] OTHER -> 0
<1>0. ASSUME NEW s  PROVE rung(s) \in 0..3
  <2>1. CASE AtLeast(s, Strong)
    BY <2>1
  <2>2. CASE ~AtLeast(s, Strong) /\ AtLeast(s, Trend)
    BY <2>2
  <2>3. CASE ~AtLeast(s, Strong) /\ ~AtLeast(s, Trend) /\ AtLeast(s, Watch)
    BY <2>3
  <2>4. CASE ~AtLeast(s, Strong) /\ ~AtLeast(s, Trend) /\ ~AtLeast(s, Watch)
    BY <2>4
  <2> QED BY <2>1, <2>2, <2>3, <2>4
<1>1. ASSUME NEW score  PROVE PhaseFor(score) \in Ladder
  <2> DEFINE mirror == [score EXCEPT !.sum = -@]
  <2>1. PhaseFor(score) \in {rung(score), -rung(mirror)}
    BY DEF PhaseFor
  <2>2. rung(score) \in 0..3 /\ rung(mirror) \in 0..3
    BY <1>0
  <2> HIDE DEF rung, mirror
  <2> QED BY <2>1, <2>2 DEF Ladder
<1>2. \A score : TargetFrom(score, phase) \in Rungs
  BY <1>1 DEF TargetFrom, Rungs
<1> QED BY <1>2 DEF Target, Rungs

LEMMA EvidenceIsCounted ==
  /\ IsFiniteSet(Evidence) /\ Cardinality(Evidence) \in Nat \ {0}
  /\ \A S \in SUBSET Evidence : IsFiniteSet(S) /\ Cardinality(S) \in 0..Cardinality(Evidence)
<1>1. Cardinality(Evidence) \in Nat
  BY FS_CardinalityType
<1>2. Cardinality(Evidence) # 0
  BY FS_EmptySet
<1>3. ASSUME NEW S \in SUBSET Evidence
      PROVE  IsFiniteSet(S) /\ Cardinality(S) \in 0..Cardinality(Evidence)
  <2>1. IsFiniteSet(S) /\ Cardinality(S) <= Cardinality(Evidence)
    BY FS_Subset
  <2>2. Cardinality(S) \in Nat
    BY <2>1, FS_CardinalityType
  <2> QED BY <1>1, <2>1, <2>2
<1> QED BY <1>1, <1>2, <1>3

LEMMA SlowestIsLast ==
  /\ Slowest \in Nat \ {0}
  /\ \A e \in Evidence : Warmup[e] <= Slowest
<1> DEFINE W == {Warmup[e] : e \in Evidence}
<1>1. IsFiniteSet(W)
  BY ImageIsNoMore
<1>2. W \subseteq Nat /\ W # {} /\ \A w \in W : w # 0
  OBVIOUS
<1> HIDE DEF W
<1>3. PICK bound \in Nat : W \subseteq 0..bound
  BY <1>1, <1>2, FiniteIsBounded
<1>4. Max(W) \in W /\ \A w \in W : w <= Max(W)
  BY <1>2, <1>3, GreatestNatural
<1> QED BY <1>2, <1>4 DEF Slowest, W

LEMMA EnoughIsSome ==
  /\ Enough \in 1..Cardinality(Evidence)
  /\ \A n \in 1..Cardinality(Evidence) :
       100 * n >= MinConfidence * Cardinality(Evidence) => Enough <= n
<1> DEFINE c == Cardinality(Evidence)
           N == {n \in 1..c : 100 * n >= MinConfidence * c}
<1>1. c \in Nat \ {0}
  BY EvidenceIsCounted
<1>2. 100 * c >= MinConfidence * c
  <2>1. \A a \in Nat, x \in 0..100 : 100 * a >= x * a
    OBVIOUS
  <2> QED BY <1>1, <2>1
<1>3. N \subseteq Nat /\ c \in N
  BY <1>1, <1>2
<1> HIDE DEF N
<1>4. Min(N) \in N /\ \A n \in N : Min(N) <= n
  BY <1>3, LeastNatural
<1> QED BY <1>4 DEF N, Enough

LEMMA FirstIsFirst ==
  /\ First \in 1..Slowest /\ Needed = First + Confirmation - 1
  /\ \A b \in Nat \ {0} : Cardinality(Warm(b)) >= Enough => First <= b
<1>1. Soonest \subseteq Nat
  BY SlowestIsLast DEF Soonest
<1>2. Warm(Slowest) = Evidence
  BY SlowestIsLast DEF Warm
<1>3. Slowest \in Soonest
  <2>1. Cardinality(Warm(Slowest)) >= Enough
    BY <1>2, EnoughIsSome, EvidenceIsCounted
  <2> QED BY <2>1, SlowestIsLast DEF Soonest
<1>4. First \in Soonest /\ \A b \in Soonest : First <= b
  BY <1>1, <1>3, LeastNatural DEF First
<1>5. First \in 1..Slowest
  BY <1>4 DEF Soonest
<1>6. ASSUME NEW b \in Nat \ {0}, Cardinality(Warm(b)) >= Enough
      PROVE  First <= b
  <2>1. CASE b <= Slowest
    BY <2>1, <1>4, <1>6, SlowestIsLast DEF Soonest
  <2>2. CASE b > Slowest
    BY <2>2, <1>5, SlowestIsLast
  <2> QED BY <2>1, <2>2, SlowestIsLast
<1> QED BY <1>5, <1>6 DEF Needed, First, Soonest

LEMMA TargetIsEarned ==
  ASSUME seen \in Nat, NEW read \in SUBSET {e \in Evidence : Warmup[e] <= seen + 1},
         NEW votes \in [read -> {-1, 0, 1}], Target(votes) # Unknown
  PROVE  First <= seen + 1
<1>1. DOMAIN votes = read /\ read # {} /\ Score(votes).confident
  BY DEF Target
<1>2. 100 * Cardinality(read) >= MinConfidence * Cardinality(Evidence)
  BY <1>1 DEF Score
<1>3. read \in SUBSET Evidence /\ read \subseteq Warm(seen + 1) /\ Warm(seen + 1) \in SUBSET Evidence
  BY DEF Warm
<1>4. Cardinality(read) \in 1..Cardinality(Evidence)
  <2>1. Cardinality(read) \in 0..Cardinality(Evidence) /\ IsFiniteSet(read)
    BY <1>3, EvidenceIsCounted
  <2>2. Cardinality(read) # 0
    BY <1>1, <2>1, FS_EmptySet
  <2> QED BY <2>1, <2>2, EvidenceIsCounted
<1>5. Enough <= Cardinality(read)
  BY <1>2, <1>4, EnoughIsSome
<1>6. Cardinality(read) <= Cardinality(Warm(seen + 1)) /\ Cardinality(Warm(seen + 1)) \in Nat
  BY <1>3, EvidenceIsCounted, FS_Subset, FS_CardinalityType
<1>7. Cardinality(Warm(seen + 1)) >= Enough
  BY <1>4, <1>5, <1>6, EnoughIsSome, EvidenceIsCounted
<1> QED BY <1>7, FirstIsFirst

-----------------------------------------------------------------------------
\* What a bar has gone through after n of its steps.
PhaseAt(steps, n) == IF n = 0 THEN phase ELSE steps[n]
SidesOf(steps, n) == {i \in 1..n : Side(steps[i]) # 0}
StanceAt(steps, n) ==
  IF SidesOf(steps, n) = {} THEN lastDirection ELSE Side(steps[Max(SidesOf(steps, n))])
SinceAt(steps, n) ==
  IF Side(PhaseAt(steps, n)) = 0 THEN Never
  ELSE IF Side(PhaseAt(steps, n)) = Side(phase) THEN Begun.since ELSE 0
KindAt(steps, n) == Event(PhaseAt(steps, n - 1), PhaseAt(steps, n), StanceAt(steps, n - 1))
EventsAt(steps, n) ==
  IF n > 0 /\ KindAt(steps, n) = "none" THEN <<>>
  ELSE [i \in 1..n |-> [from |-> PhaseAt(steps, i - 1), to |-> PhaseAt(steps, i), kind |-> KindAt(steps, i)]]
At(steps, n) ==
  [phase |-> PhaseAt(steps, n), stance |-> StanceAt(steps, n),
   events |-> EventsAt(steps, n), since |-> SinceAt(steps, n)]

\* A step at a time, to another rung, and to the one next to it on the ladder.
Climbs(steps) ==
  /\ steps \in Seq(Rungs) /\ phase \in Rungs
  /\ \A n \in 1..Len(steps) :
       /\ PhaseAt(steps, n) # PhaseAt(steps, n - 1)
       /\ Side(PhaseAt(steps, n)) # 0 /\ Side(PhaseAt(steps, n)) = Side(phase)
            => Side(PhaseAt(steps, n - 1)) = Side(phase)
  /\ \/ Len(steps) = 1 /\ (phase = Unknown \/ steps[1] = Unknown)
     \/ /\ steps \in Seq(Ladder) /\ (steps # <<>> => phase \in Ladder)
        /\ \A n \in 1..Len(steps) : Distance(PhaseAt(steps, n) - PhaseAt(steps, n - 1)) = 1

LEMMA StepsClimb ==
  ASSUME phase \in Rungs, NEW to \in Rungs
  PROVE  /\ Climbs(PhaseSteps(phase, to))
         /\ PhaseSteps(phase, to) = <<>> <=> to = phase
         /\ to # phase => /\ Len(PhaseSteps(phase, to)) \in Nat \ {0}
                          /\ PhaseSteps(phase, to)[Len(PhaseSteps(phase, to))] = to
<1> DEFINE steps == PhaseSteps(phase, to)
<1>1. CASE to = phase
  BY <1>1 DEF Climbs, PhaseSteps, PhaseAt
<1>2. CASE to # phase /\ (phase = Unknown \/ to = Unknown)
  <2>1. steps = <<to>>
    BY <1>2 DEF PhaseSteps
  <2>2. steps \in Seq(Rungs) /\ Len(steps) = 1 /\ steps[1] = to /\ steps # <<>>
    BY <2>1
  <2>3. PhaseAt(steps, 1) = to /\ PhaseAt(steps, 0) = phase
    BY <2>2 DEF PhaseAt
  <2> HIDE DEF steps
  <2>4. Climbs(steps)
    <3>1. Side(to) # 0 /\ Side(to) = Side(phase) => Side(phase) = Side(phase)
      OBVIOUS
    <3> QED BY <1>2, <2>2, <2>3 DEF Climbs
  <2> QED BY <1>2, <2>2, <2>4 DEF steps
<1>3. CASE phase \in Ladder /\ to \in Ladder /\ to > phase
  <2>1. steps = [i \in 1..to - phase |-> phase + i] /\ to - phase \in Nat \ {0}
    BY <1>3 DEF PhaseSteps, Ladder, Unknown
  <2>2. steps \in Seq(Ladder) /\ Len(steps) = to - phase /\ steps # <<>>
    <3>1. \A i \in 1..to - phase : phase + i \in Ladder
      BY <1>3 DEF Ladder
    <3> DEFINE k == to - phase
    <3>2. steps = [i \in 1..k |-> phase + i] /\ k \in Nat \ {0} /\ \A i \in 1..k : phase + i \in Ladder
      BY <2>1, <3>1
    <3> HIDE DEF steps, k
    <3>3. steps \in Seq(Ladder) /\ Len(steps) = k /\ steps # <<>>
      BY <3>2
    <3> QED BY <3>3 DEF k
  <2>3. \A n \in 0..Len(steps) : PhaseAt(steps, n) = phase + n /\ PhaseAt(steps, n) \in Ladder
    BY <1>3, <2>1, <2>2 DEF PhaseAt, Ladder
  <2> HIDE DEF steps
  <2>4. \A n \in 1..Len(steps) :
          /\ n - 1 \in 0..Len(steps) /\ n \in 0..Len(steps)
          /\ PhaseAt(steps, n) = phase + n /\ PhaseAt(steps, n - 1) = phase + (n - 1)
    BY <2>2, <2>3, <2>1
  <2>5. \A n \in 1..Len(steps) :
          /\ PhaseAt(steps, n) # PhaseAt(steps, n - 1)
          /\ Distance(PhaseAt(steps, n) - PhaseAt(steps, n - 1)) = 1
          /\ Side(PhaseAt(steps, n)) # 0 /\ Side(PhaseAt(steps, n)) = Side(phase)
               => Side(PhaseAt(steps, n - 1)) = Side(phase)
    <3> TAKE n \in 1..Len(steps)
    <3> DEFINE here == PhaseAt(steps, n)
               there == PhaseAt(steps, n - 1)
    <3>0. here = phase + n /\ there = phase + (n - 1)
      BY <2>4
    <3> HIDE DEF here, there
    <3>1. phase \in Ladder /\ phase + n \in Ladder /\ n \in 1..6
      BY <1>3, <2>2, <2>1, <2>3, <2>4 DEF Ladder
    <3>2. here - there = 1
      BY <3>0, <3>1 DEF Ladder
    <3>3. Distance(here - there) = 1
      BY <3>2 DEF Distance
    <3>4. here # there /\ (Side(here) # 0 /\ Side(here) = Side(phase) => Side(there) = Side(phase))
      BY <3>0, <3>1 DEF Side, Ladder, Unknown, Neutral
    <3> QED BY <3>3, <3>4 DEF here, there
  <2>6. steps \in Seq(Rungs)
    BY <2>2 DEF Rungs
  <2>7. Climbs(steps)
    BY <1>3, <2>2, <2>5, <2>6 DEF Climbs
  <2>8. steps[Len(steps)] = to
    BY <1>3, <2>1, <2>2 DEF steps, Ladder
  <2>9. Len(steps) \in Nat \ {0} /\ to # phase
    BY <1>3, <2>1, <2>2 DEF Ladder
  <2> QED BY <2>2, <2>7, <2>8, <2>9 DEF steps
<1>4. CASE phase \in Ladder /\ to \in Ladder /\ to < phase
  <2>1. steps = [i \in 1..phase - to |-> phase - i] /\ phase - to \in Nat \ {0}
    BY <1>4 DEF PhaseSteps, Ladder, Unknown
  <2>2. steps \in Seq(Ladder) /\ Len(steps) = phase - to /\ steps # <<>>
    <3>1. \A i \in 1..phase - to : phase - i \in Ladder
      BY <1>4 DEF Ladder
    <3>2. [i \in 1..phase - to |-> phase - i] \in Seq(Ladder)
      BY <2>1, <3>1, SMTT(20)
    <3> HIDE DEF steps
    <3> QED BY <2>1, <3>2
  <2>3. \A n \in 0..Len(steps) : PhaseAt(steps, n) = phase - n /\ PhaseAt(steps, n) \in Ladder
    BY <1>4, <2>1, <2>2 DEF PhaseAt, Ladder
  <2> HIDE DEF steps
  <2>4. \A n \in 1..Len(steps) :
          /\ n - 1 \in 0..Len(steps) /\ n \in 0..Len(steps)
          /\ PhaseAt(steps, n) = phase - n /\ PhaseAt(steps, n - 1) = phase - (n - 1)
    BY <2>2, <2>3, <2>1
  <2>5. \A n \in 1..Len(steps) :
          /\ PhaseAt(steps, n) # PhaseAt(steps, n - 1)
          /\ Distance(PhaseAt(steps, n) - PhaseAt(steps, n - 1)) = 1
          /\ Side(PhaseAt(steps, n)) # 0 /\ Side(PhaseAt(steps, n)) = Side(phase)
               => Side(PhaseAt(steps, n - 1)) = Side(phase)
    BY <1>4, <2>3, <2>4 DEF Distance, Side, Ladder, Unknown, Neutral
  <2>6. steps \in Seq(Rungs)
    BY <2>2 DEF Rungs
  <2>7. Climbs(steps)
    BY <1>4, <2>2, <2>5, <2>6 DEF Climbs
  <2>8. steps[Len(steps)] = to
    BY <1>4, <2>1, <2>2 DEF steps, Ladder
  <2>9. Len(steps) \in Nat \ {0} /\ to # phase
    BY <1>4, <2>1, <2>2 DEF Ladder
  <2> QED BY <2>2, <2>7, <2>8, <2>9 DEF steps
<1> QED BY <1>1, <1>2, <1>3, <1>4 DEF Rungs, Ladder

LEMMA StanceGrows ==
  ASSUME lastDirection \in Sides, NEW steps \in Seq(Rungs), NEW n \in 0..Len(steps)
  PROVE  /\ StanceAt(steps, n) \in Sides
         /\ n = 0 => StanceAt(steps, n) = lastDirection
         /\ n > 0 => StanceAt(steps, n) = IF Side(steps[n]) # 0 THEN Side(steps[n]) ELSE StanceAt(steps, n - 1)
<1>0. Len(steps) \in Nat /\ \A i \in 1..Len(steps) : Side(steps[i]) \in Sides
  BY SideIsOne
<1>1. ASSUME SidesOf(steps, n) # {}
      PROVE  /\ Max(SidesOf(steps, n)) \in SidesOf(steps, n)
             /\ \A i \in SidesOf(steps, n) : i <= Max(SidesOf(steps, n))
  <2>1. SidesOf(steps, n) \subseteq 0..n /\ n \in Nat
    BY <1>0 DEF SidesOf
  <2> QED BY <2>1, <1>1, GreatestNatural
<1>2. StanceAt(steps, n) \in Sides
  BY <1>0, <1>1 DEF StanceAt, SidesOf
<1>3. n = 0 => StanceAt(steps, n) = lastDirection
  BY DEF StanceAt, SidesOf
<1>4. CASE n > 0 /\ Side(steps[n]) # 0
  <2>1. n \in SidesOf(steps, n)
    BY <1>4, <1>0 DEF SidesOf
  <2>2. Max(SidesOf(steps, n)) = n
    <3>1. Max(SidesOf(steps, n)) \in 1..n /\ n <= Max(SidesOf(steps, n))
      BY <2>1, <1>1 DEF SidesOf
    <3> QED BY <3>1
  <2> QED BY <1>2, <1>4, <2>1, <2>2 DEF StanceAt
<1>5. CASE n > 0 /\ Side(steps[n]) = 0
  <2>1. SidesOf(steps, n) = SidesOf(steps, n - 1)
    BY <1>5, <1>0 DEF SidesOf
  <2> QED BY <1>2, <1>5, <2>1 DEF StanceAt
<1> QED BY <1>2, <1>3, <1>4, <1>5, <1>0

\* An age is told of a phase that takes a side, and of no other.
AgesFit == IF Side(phase) = 0 THEN since = Never ELSE since \in 0..Longest

LEMMA BegunFits ==
  ASSUME AgesFit
  PROVE  /\ Longest \in Nat /\ Never = -1
         /\ IF Side(phase) = 0 THEN Begun.since = Never ELSE Begun.since \in 0..Longest
<1>1. Longest \in Nat /\ Never = -1
  BY DEF Longest, Never
<1> QED BY <1>1 DEF AgesFit, Begun

LEMMA SinceGrows ==
  ASSUME AgesFit, NEW steps, Climbs(steps), NEW n \in 1..Len(steps)
  PROVE  Since(PhaseAt(steps, n - 1), steps[n], SinceAt(steps, n - 1)) = SinceAt(steps, n)
<1>1. Len(steps) \in Nat
  BY DEF Climbs
<1> DEFINE here == PhaseAt(steps, n)
           there == PhaseAt(steps, n - 1)
<1>2. here = steps[n]
  BY <1>1 DEF PhaseAt
<1>3. Side(here) # 0 /\ Side(here) = Side(phase) => Side(there) = Side(phase)
  BY DEF Climbs
<1>4. SinceAt(steps, n) = IF Side(here) = 0 THEN Never
                          ELSE IF Side(here) = Side(phase) THEN Begun.since ELSE 0
  BY DEF SinceAt
<1>5. SinceAt(steps, n - 1) = IF Side(there) = 0 THEN Never
                              ELSE IF Side(there) = Side(phase) THEN Begun.since ELSE 0
  BY DEF SinceAt
<1> HIDE DEF here, there
<1>6. Since(there, here, SinceAt(steps, n - 1)) = SinceAt(steps, n)
  <2>1. CASE Side(here) = 0
    BY <2>1, <1>4 DEF Since
  <2>2. CASE Side(here) # 0 /\ Side(there) # Side(here)
    BY <2>2, <1>3, <1>4 DEF Since
  <2>3. CASE Side(here) # 0 /\ Side(there) = Side(here)
    BY <2>3, <1>4, <1>5, BegunFits DEF Since
  <2> QED BY <2>1, <2>2, <2>3
<1> QED BY <1>2, <1>6 DEF there

LEMMA EventsGrow ==
  ASSUME NEW steps, Climbs(steps), NEW n \in 1..Len(steps)
  PROVE  EventsAt(steps, n) = IF KindAt(steps, n) = "none" THEN EventsAt(steps, n - 1)
           ELSE Append(EventsAt(steps, n - 1),
                       [from |-> PhaseAt(steps, n - 1), to |-> steps[n], kind |-> KindAt(steps, n)])
<1> DEFINE e(i) == [from |-> PhaseAt(steps, i - 1), to |-> PhaseAt(steps, i), kind |-> KindAt(steps, i)]
<1>1. Len(steps) \in Nat /\ steps[n] = PhaseAt(steps, n)
  BY DEF Climbs, PhaseAt
<1>2. CASE KindAt(steps, n) = "none"
  <2>1. EventsAt(steps, n) = <<>>
    BY <1>1, <1>2 DEF EventsAt
  <2>2. n = 1
    <3>1. CASE Len(steps) = 1
      BY <3>1
    <3>2. CASE steps \in Seq(Ladder) /\ (steps # <<>> => phase \in Ladder)
      <4>1. PhaseAt(steps, n) # PhaseAt(steps, n - 1)
        BY DEF Climbs
      <4>2. PhaseAt(steps, n) \in Ladder /\ PhaseAt(steps, n - 1) \in Ladder
        BY <3>2, <1>1 DEF PhaseAt
      <4>3. KindAt(steps, n) # "none"
        BY <4>1, <4>2 DEF KindAt, Event, Ladder, Unknown
      <4> QED BY <4>3, <1>2
    <3> QED BY <3>1, <3>2 DEF Climbs
  <2>3. EventsAt(steps, 0) = <<>>
    BY DEF EventsAt
  <2> QED BY <1>2, <2>1, <2>2, <2>3
<1>3. CASE KindAt(steps, n) # "none"
  <2>1. EventsAt(steps, n) = [i \in 1..n |-> e(i)]
    BY <1>3, <1>1 DEF EventsAt
  <2>2. EventsAt(steps, n - 1) = [i \in 1..n - 1 |-> e(i)]
    <3>1. CASE n = 1
      BY <3>1 DEF EventsAt
    <3>2. CASE n > 1
      <4>1. Len(steps) # 1 /\ n - 1 \in 1..Len(steps)
        BY <3>2, <1>1
      <4>2. steps \in Seq(Ladder) /\ phase \in Ladder
        BY <4>1, <1>1 DEF Climbs
      <4>3. PhaseAt(steps, n - 1) # PhaseAt(steps, n - 1 - 1)
        BY <4>1 DEF Climbs
      <4>4. PhaseAt(steps, n - 1) \in Ladder /\ PhaseAt(steps, n - 1 - 1) \in Ladder
        BY <4>1, <4>2, <1>1 DEF PhaseAt
      <4>5. KindAt(steps, n - 1) # "none"
        BY <4>3, <4>4 DEF KindAt, Event, Ladder, Unknown
      <4> QED BY <4>5 DEF EventsAt
    <3> QED BY <3>1, <3>2, <1>1
  <2> DEFINE r == [i \in 1..n |-> e(i)]
  <2>3. EventsAt(steps, n - 1) = [i \in 1..n - 1 |-> r[i]] /\ EventsAt(steps, n) = r /\ DOMAIN r = 1..n
        /\ r[n] = [from |-> PhaseAt(steps, n - 1), to |-> steps[n], kind |-> KindAt(steps, n)]
    <3>1. n \in Nat /\ n >= 1
      BY <1>1
    <3>2. \A i \in 1..n : r[i] = e(i)
      OBVIOUS
    <3>3. [i \in 1..n - 1 |-> e(i)] = [i \in 1..n - 1 |-> r[i]]
      BY <3>1, <3>2
    <3>4. r[n] = e(n)
      BY <3>1, <3>2
    <3>5. DOMAIN r = 1..n
      OBVIOUS
    <3> HIDE DEF r
    <3> QED BY <2>1, <2>2, <3>3, <3>4, <3>5, <1>1 DEF r
  <2>4. r = [i \in 1..n |-> r[i]]
    OBVIOUS
  <2> HIDE DEF r, e
  <2>5. Append([i \in 1..n - 1 |-> r[i]], r[n]) = r
    BY <2>4, <1>1
  <2> QED BY <2>3, <2>5, <1>3
<1> QED BY <1>2, <1>3

LEMMA WalkClimbs ==
  ASSUME AgesFit, lastDirection \in Sides, NEW steps, Climbs(steps)
  PROVE  Walk(steps) = At(steps, Len(steps))
<1> DEFINE N == Len(steps)
           f == [n \in 0..N |-> At(steps, n)]
           Rest(g) == [n \in 0..N |-> IF n = 0 THEN Begun ELSE Stepped(g[n - 1], steps[n])]
           w == CHOOSE g : g = Rest(g)
<1>1. N \in Nat /\ steps \in Seq(Rungs)
  BY DEF Climbs
<1>2. At(steps, 0) = Begun
  <2>1. StanceAt(steps, 0) = lastDirection
    BY <1>1, StanceGrows
  <2>2. PhaseAt(steps, 0) = phase /\ EventsAt(steps, 0) = <<>>
    BY DEF PhaseAt, EventsAt
  <2>3. SinceAt(steps, 0) = Begun.since
    BY <2>2, BegunFits DEF SinceAt
  <2>4. Begun = [phase |-> phase, stance |-> lastDirection, events |-> <<>>, since |-> Begun.since]
    BY DEF Begun
  <2> QED BY <2>1, <2>2, <2>3, <2>4 DEF At
<1>3. ASSUME NEW n \in 1..N
      PROVE  Stepped(At(steps, n - 1), steps[n]) = At(steps, n)
  <2> DEFINE was == At(steps, n - 1)
  <2>1. was.phase = PhaseAt(steps, n - 1) /\ was.stance = StanceAt(steps, n - 1)
        /\ was.events = EventsAt(steps, n - 1) /\ was.since = SinceAt(steps, n - 1)
    BY DEF At
  <2>2. steps[n] = PhaseAt(steps, n) /\ n \in 0..N /\ n > 0
    BY <1>1 DEF PhaseAt
  <2>3. Event(was.phase, steps[n], was.stance) = KindAt(steps, n)
    BY <2>1, <2>2 DEF KindAt
  <2>4. StanceAt(steps, n) = IF Side(steps[n]) # 0 THEN Side(steps[n]) ELSE was.stance
    BY <1>1, <2>1, <2>2, StanceGrows
  <2>5. EventsAt(steps, n) = IF KindAt(steps, n) = "none" THEN was.events
          ELSE Append(was.events, [from |-> was.phase, to |-> steps[n], kind |-> KindAt(steps, n)])
    BY <2>1, EventsGrow
  <2>6. SinceAt(steps, n) = Since(was.phase, steps[n], was.since)
    BY <2>1, SinceGrows
  <2> HIDE DEF was
  <2>7. Stepped(was, steps[n]) = [phase |-> PhaseAt(steps, n), stance |-> StanceAt(steps, n),
          events |-> EventsAt(steps, n), since |-> SinceAt(steps, n)]
    BY <2>2, <2>3, <2>4, <2>5, <2>6 DEF Stepped
  <2> QED BY <2>7 DEF At, was
<1>4. f = Rest(f)
  <2>1. ASSUME NEW n \in 0..N
        PROVE  f[n] = IF n = 0 THEN Begun ELSE Stepped(f[n - 1], steps[n])
    <3>1. CASE n = 0
      BY <3>1, <1>2
    <3>2. CASE n # 0
      <4>1. n \in 1..N /\ n - 1 \in 0..N
        BY <3>2, <1>1
      <4>2. f[n - 1] = At(steps, n - 1) /\ f[n] = At(steps, n)
        BY <4>1
      <4> HIDE DEF f
      <4> QED BY <3>2, <4>1, <4>2, <1>3
    <3> QED BY <3>1, <3>2
  <2>2. f = [n \in 0..N |-> f[n]]
    OBVIOUS
  <2> HIDE DEF f, N
  <2> QED BY <2>1, <2>2
<1> HIDE DEF f
<1>5. w = Rest(w)
  <2> HIDE DEF Rest
  <2> QED BY <1>4
<1>6. Walk(steps) = w[N]
  BY Zenon DEF Walk
<1> HIDE DEF w
<1>7. w[0] = Begun /\ \A n \in 1..N : w[n] = Stepped(w[n - 1], steps[n])
  BY <1>1, <1>5
<1> DEFINE S == {n \in 0..N : w[n] = At(steps, n)}
<1>8. 0 \in S
  BY <1>1, <1>2, <1>7
<1>9. ASSUME NEW n \in 0..N, n < N, n \in S  PROVE n + 1 \in S
  <2>1. n + 1 \in 1..N /\ n + 1 - 1 = n /\ n + 1 \in 0..N /\ w[n] = At(steps, n)
    BY <1>9, <1>1
  <2>2. w[n + 1] = Stepped(w[n], steps[n + 1])
    BY <2>1, <1>7
  <2>3. Stepped(At(steps, n), steps[n + 1]) = At(steps, n + 1)
    BY <2>1, <1>3
  <2> QED BY <2>1, <2>2, <2>3
<1> HIDE DEF S
<1>10. 0..N \subseteq S
  BY <1>1, <1>8, <1>9, HandedOn
<1>11. N \in S
  BY <1>1, <1>10
<1> QED BY <1>6, <1>11 DEF S

-----------------------------------------------------------------------------
\* What a bar asks for and has not been asked often enough.
AskedFits ==
  /\ pendingBars \in 0..Confirmation - 1 /\ pending \in Rungs
  /\ asked \in Seq(Rungs) /\ pendingBars <= Len(asked) /\ Len(asked) <= Confirmation
  /\ \A i \in Len(asked) - pendingBars + 1..Len(asked) : asked[i] = pending
  /\ pendingBars > 0 => seen >= First + pendingBars - 1 \/ seen = Slowest

TrendInv ==
  /\ seen \in 0..Slowest /\ phase \in Rungs /\ lastDirection \in Sides
  /\ AgesFit /\ sided = [side |-> lastDirection, for |-> since]
  /\ AskedFits

LEMMA TrendBegins == LadderInit => TrendInv
<1> SUFFICES ASSUME LadderInit PROVE TrendInv
  OBVIOUS
<1>1. seen \in 0..Slowest /\ phase \in Rungs /\ lastDirection \in Sides
  BY SlowestIsLast DEF LadderInit, Rungs, Sides
<1>2. AgesFit /\ sided = [side |-> lastDirection, for |-> since]
  BY DEF LadderInit, AgesFit, Side
<1>3. AskedFits
  BY DEF LadderInit, AskedFits, Rungs
<1> QED BY <1>1, <1>2, <1>3 DEF TrendInv

LEMMA MovesClimb ==
  ASSUME phase \in Rungs, NEW target \in Rungs
  PROVE  /\ Climbs(Moves(target)) /\ Len(Moves(target)) \in Nat
         /\ Moves(target) # <<>> =>
              /\ Len(Moves(target)) \in Nat \ {0} /\ Moves(target)[Len(Moves(target))] = target
              /\ target # phase /\ (target = Unknown \/ Pending(target)[2] >= Confirmation)
         /\ target = Unknown /\ phase # Unknown => Moves(target) # <<>>
         /\ PhaseAt(Moves(target), Len(Moves(target))) = IF Moves(target) = <<>> THEN phase ELSE target
<1>1. Climbs(<<>>) /\ PhaseSteps(phase, phase) = <<>>
  BY StepsClimb
<1>2. /\ Climbs(Moves(target))
      /\ Moves(target) # <<>> =>
           /\ Len(Moves(target)) \in Nat \ {0} /\ Moves(target)[Len(Moves(target))] = target
           /\ target # phase /\ (target = Unknown \/ Pending(target)[2] >= Confirmation)
      /\ target = Unknown /\ phase # Unknown => Moves(target) # <<>>
  <2>1. CASE target = Unknown \/ (target # phase /\ Pending(target)[2] >= Confirmation)
    <3>1. Moves(target) = PhaseSteps(phase, target)
      BY <2>1 DEF Moves
    <3>2. CASE target = phase
      BY <3>1, <3>2, <1>1
    <3>3. CASE target # phase
      BY <2>1, <3>1, <3>3, StepsClimb
    <3> QED BY <3>2, <3>3
  <2>2. CASE ~(target = Unknown \/ (target # phase /\ Pending(target)[2] >= Confirmation))
    BY <2>2, <1>1 DEF Moves
  <2> QED BY <2>1, <2>2
<1>3. PhaseAt(Moves(target), Len(Moves(target))) = IF Moves(target) = <<>> THEN phase ELSE target
  BY <1>2 DEF PhaseAt
<1>4. Len(Moves(target)) \in Nat
  BY <1>2
<1> QED BY <1>2, <1>3, <1>4

LEMMA SidedIsTold ==
  ASSUME TrendInv, NEW steps, Climbs(steps)
  PROVE  Sided(steps) = [side |-> StanceAt(steps, Len(steps)), for |-> SinceAt(steps, Len(steps))]
<1> DEFINE N == Len(steps)
<1>1. N \in Nat /\ steps \in Seq(Rungs) /\ DOMAIN steps = 1..N
  BY DEF Climbs
<1>2. AgesFit /\ lastDirection \in Sides /\ sided = [side |-> lastDirection, for |-> since]
  BY DEF TrendInv
<1>3. CASE steps = <<>>
  <2>1. N = 0 /\ StanceAt(steps, N) = lastDirection
    <3>1. N = 0 /\ 0 \in 0..Len(steps)
      BY <1>1, <1>3
    <3>2. StanceAt(steps, 0) = lastDirection
      BY <1>1, <1>2, <3>1, StanceGrows
    <3> QED BY <3>1, <3>2
  <2>2. SinceAt(steps, N) = Begun.since
    BY <2>1, <1>2, BegunFits DEF SinceAt, PhaseAt
  <2>3. Sided(steps) = [sided EXCEPT !.for = Begun.since]
    BY <1>3, <1>2 DEF Sided, Begun
  <2> QED BY <2>1, <2>2, <2>3, <1>2
<1>4. CASE steps # <<>>
  <2>1. N \in 1..N /\ PhaseAt(steps, N) = steps[N]
    BY <1>1, <1>4 DEF PhaseAt
  <2> DEFINE final == Side(steps[N])
             to == IF \E i \in DOMAIN steps : Side(steps[i]) # 0
                   THEN Side(steps[Max({i \in DOMAIN steps : Side(steps[i]) # 0})]) ELSE sided.side
             age == IF final = 0 THEN Never
                    ELSE IF Side(phase) = final THEN IF sided.for < Longest THEN sided.for + 1 ELSE sided.for
                    ELSE 0
  <2>2. Sided(steps) = [side |-> to, for |-> age]
    BY <1>4 DEF Sided
  <2>3. to = StanceAt(steps, N)
    BY <1>1, <1>2 DEF StanceAt, SidesOf
  <2>4. age = SinceAt(steps, N)
    <3>1. CASE final = 0
      BY <3>1, <2>1 DEF SinceAt
    <3>2. CASE final # 0 /\ Side(phase) # final
      BY <3>2, <2>1 DEF SinceAt
    <3>3. CASE final # 0 /\ Side(phase) = final
      <4>1. since \in 0..Longest /\ sided.for = since
        BY <3>3, <1>2 DEF AgesFit
      <4>2. SinceAt(steps, N) = Begun.since
        BY <3>3, <2>1 DEF SinceAt
      <4>3. Begun.since = IF since < Longest THEN since + 1 ELSE since
        BY <4>1, <1>2, BegunFits DEF Begun
      <4> QED BY <4>1, <4>2, <4>3, <3>3
    <3> QED BY <3>1, <3>2, <3>3
  <2> QED BY <2>2, <2>3, <2>4
<1> QED BY <1>3, <1>4

\* What one bar makes of the ladder.
LEMMA BarIsWalked ==
  ASSUME TrendInv, NEW votes, ConsumeVotes(votes)
  PROVE  LET target == Target(votes)
             steps == Moves(target)
             n == Len(steps)
         IN /\ target \in Rungs /\ Climbs(steps) /\ n \in Nat
            /\ phase' = PhaseAt(steps, n) /\ lastDirection' = StanceAt(steps, n)
            /\ since' = SinceAt(steps, n) /\ events' = EventsAt(steps, n)
            /\ sided' = [side |-> StanceAt(steps, n), for |-> SinceAt(steps, n)]
<1> DEFINE target == Target(votes)
           steps == Moves(target)
           n == Len(steps)
<1>1. target \in Rungs
  BY TargetIsARung DEF TrendInv
<1>2. Climbs(steps) /\ n \in Nat
  BY <1>1, MovesClimb DEF TrendInv
<1>3. Walk(steps) = At(steps, n)
  BY <1>2, WalkClimbs DEF TrendInv
<1>4. phase' = Walk(steps).phase /\ since' = Walk(steps).since /\ lastDirection' = Walk(steps).stance
      /\ events' = Walk(steps).events /\ sided' = Sided(steps)
  BY DEF ConsumeVotes
<1>5. Sided(steps) = [side |-> StanceAt(steps, n), for |-> SinceAt(steps, n)]
  BY <1>2, SidedIsTold
<1> HIDE DEF steps, n, target
<1>6. phase' = PhaseAt(steps, n) /\ lastDirection' = StanceAt(steps, n)
      /\ since' = SinceAt(steps, n) /\ events' = EventsAt(steps, n)
  BY <1>3, <1>4 DEF At
<1> QED BY <1>1, <1>2, <1>4, <1>5, <1>6 DEF steps, n, target

(***************************************************************************)
(* The last pending bars each asked for what is pending: as many as it     *)
(* takes are all that is remembered.                                       *)
(***************************************************************************)
LEMMA AskedIsKept ==
  ASSUME AskedFits, seen \in 0..Slowest,
         NEW read \in SUBSET {e \in Evidence : Warmup[e] <= seen + 1}, NEW votes \in [read -> {-1, 0, 1}],
         Target(votes) \in Rungs, ConsumeVotes(votes), phase \in Rungs
  PROVE  LET target == Target(votes)
             times == Pending(target)[2]
         IN /\ AskedFits' /\ seen' \in 0..Slowest
            /\ Len(asked') \in Nat \ {0} /\ asked'[Len(asked')] = target
            /\ target \notin {phase, Unknown} /\ times >= Confirmation =>
                 /\ asked' = [i \in 1..Confirmation |-> target]
                 /\ seen' >= First + Confirmation - 1 \/ seen' = Slowest
<1> DEFINE target == Target(votes)
           times == Pending(target)[2]
           what == Pending(target)[1]
           all == Append(asked, target)
<1>1. /\ seen' = IF seen < Slowest THEN seen + 1 ELSE seen
      /\ pending' = what /\ pendingBars' = IF times >= Confirmation THEN 0 ELSE times
      /\ asked' = IF Len(all) > Confirmation THEN Tail(all) ELSE all
  BY DEF ConsumeVotes
<1>2. Slowest \in Nat \ {0} /\ First \in 1..Slowest /\ Confirmation \in Nat \ {0}
  BY SlowestIsLast, FirstIsFirst
<1>3. seen' \in 0..Slowest
  BY <1>1, <1>2
<1>4. target # Unknown => First <= seen'
  <2>1. target # Unknown => First <= seen + 1
    BY TargetIsEarned
  <2> QED BY <2>1, <1>1, <1>2
<1>5. target \in Rungs /\ pending \in Rungs /\ pendingBars \in 0..Confirmation - 1 /\ asked \in Seq(Rungs)
      /\ Len(asked) \in Nat /\ pendingBars <= Len(asked) /\ Len(asked) <= Confirmation
      /\ \A i \in Len(asked) - pendingBars + 1..Len(asked) : asked[i] = pending
  BY DEF AskedFits
<1>6. \/ what \in Rungs /\ times = 0
      \/ target \notin {phase, Unknown} /\ what = target /\ times = 1
      \/ target \notin {phase, Unknown} /\ what = target /\ target = pending /\ times = pendingBars + 1
  BY <1>5 DEF Pending, Rungs
<1>7. times \in 0..Confirmation /\ times <= Len(asked) + 1 /\ what \in Rungs
  BY <1>5, <1>6, <1>2
<1> DEFINE drop == IF Len(all) > Confirmation THEN 1 ELSE 0
<1>8. /\ asked' \in Seq(Rungs) /\ Len(asked') = Len(asked) + 1 - drop
      /\ \A i \in 1..Len(asked') : asked'[i] = IF i + drop = Len(asked) + 1 THEN target ELSE asked[i + drop]
  <2> HIDE DEF target
  <2>1. all \in Seq(Rungs) /\ Len(all) = Len(asked) + 1
        /\ \A i \in 1..Len(all) : all[i] = IF i = Len(asked) + 1 THEN target ELSE asked[i]
    BY <1>5
  <2> HIDE DEF all
  <2>2. CASE Len(all) > Confirmation
    <3>1. asked' = Tail(all) /\ all # <<>> /\ drop = 1
      BY <1>1, <2>2, <2>1, <1>5
    <3>2. Tail(all) \in Seq(Rungs) /\ Len(Tail(all)) = Len(all) - 1
          /\ \A i \in 1..Len(Tail(all)) : Tail(all)[i] = all[i + 1]
      BY <2>1, <3>1
    <3> QED BY <2>1, <3>1, <3>2, <1>5, SMTT(20)
  <2>3. CASE ~(Len(all) > Confirmation)
    <3>1. asked' = all /\ drop = 0
      BY <1>1, <2>3
    <3> QED BY <2>1, <3>1, <1>5
  <2> QED BY <2>2, <2>3
<1>9. drop \in {0, 1} /\ Len(asked') \in 1..Confirmation /\ times <= Len(asked')
  <2>1. Len(all) = Len(asked) + 1
    BY <1>5
  <2> HIDE DEF all, times, target, what
  <2>2. drop \in {0, 1} /\ (drop = 1 <=> Len(asked) + 1 > Confirmation)
    BY <2>1
  <2> HIDE DEF drop
  <2> QED BY <2>2, <1>2, <1>5, <1>7, <1>8
<1> HIDE DEF all, drop, target, times, what
<1>10. asked'[Len(asked')] = target
  BY <1>5, <1>8, <1>9
<1>11. times > 0 => \A i \in Len(asked') - times + 1..Len(asked') : asked'[i] = target
  <2> SUFFICES ASSUME times > 0, NEW i \in Len(asked') - times + 1..Len(asked')  PROVE asked'[i] = target
    OBVIOUS
  <2>1. i \in 1..Len(asked') /\ i \in Nat
    BY <1>9, <1>7, <1>2
  <2>2. CASE i = Len(asked')
    BY <2>2, <1>10
  <2>3. CASE i # Len(asked')
    <3>1. times > 1 /\ times = pendingBars + 1 /\ target = pending
      BY <2>3, <1>5, <1>6, <1>9
    <3>2. asked'[i] = asked[i + drop]
      BY <2>1, <2>3, <1>5, <1>8, <1>9
    <3>3. i + drop \in Len(asked) - pendingBars + 1..Len(asked)
      <4>1. Len(asked') = Len(asked) + 1 - drop /\ drop \in {0, 1} /\ Len(asked) \in Nat /\ pendingBars \in Nat
        BY <1>5, <1>8, <1>9, <1>2
      <4>2. i >= Len(asked') - (pendingBars + 1) + 1 /\ i < Len(asked')
        BY <2>1, <2>3, <3>1, <4>1
      <4> QED BY <2>1, <4>1, <4>2
    <3> QED BY <3>1, <3>2, <3>3, <1>5
  <2> QED BY <2>2, <2>3
<1>12. times > 0 => seen' >= First + times - 1 \/ seen' = Slowest
  <2>1. CASE times = 1 /\ target # Unknown
    BY <2>1, <1>4, <1>2, <1>3
  <2>2. CASE target # Unknown /\ times = pendingBars + 1 /\ times # 1
    <3>1. seen >= First + pendingBars - 1 \/ seen = Slowest
      BY <2>2, <1>5 DEF AskedFits
    <3> QED BY <2>2, <3>1, <1>1, <1>2, <1>5
  <2> QED BY <2>1, <2>2, <1>6
<1>13. AskedFits'
  <2>1. pendingBars' \in 0..Confirmation - 1 /\ pending' \in Rungs
    BY <1>1, <1>2, <1>7
  <2>2. pendingBars' <= Len(asked') /\ Len(asked') <= Confirmation
    BY <1>1, <1>9, <1>7, <1>2
  <2>3. pendingBars' > 0 => times > 0 /\ pendingBars' = times /\ what = target
    BY <1>1, <1>6, <1>7, <1>2
  <2>4. \A i \in Len(asked') - pendingBars' + 1..Len(asked') : asked'[i] = pending'
    <3>1. CASE pendingBars' = 0
      BY <3>1, <1>9
    <3>2. CASE pendingBars' > 0
      BY <3>2, <2>3, <1>11, <1>1
    <3> QED BY <3>1, <3>2, <2>1
  <2>5. pendingBars' > 0 => seen' >= First + pendingBars' - 1 \/ seen' = Slowest
    BY <2>3, <1>12
  <2>6. First' = First /\ Slowest' = Slowest
    BY DEF First, Slowest, Soonest, Enough, Warm
  <2> QED BY <2>1, <2>2, <2>4, <2>5, <2>6, <1>8 DEF AskedFits
<1>14. ASSUME target \notin {phase, Unknown}, times >= Confirmation
       PROVE  asked' = [i \in 1..Confirmation |-> target] /\ (seen' >= First + Confirmation - 1 \/ seen' = Slowest)
  <2>1. times = Confirmation /\ times > 0 /\ Len(asked') = Confirmation
    BY <1>14, <1>7, <1>9, <1>2
  <2>2. \A i \in 1..Confirmation : asked'[i] = target
    BY <2>1, <1>11, <1>2
  <2>3. asked' = [i \in 1..Len(asked') |-> asked'[i]]
    BY <1>8
  <2> QED BY <2>1, <2>2, <2>3, <1>12
<1> QED BY <1>3, <1>9, <1>10, <1>13, <1>14 DEF target, times

LEMMA TrendIsKept == TrendInv /\ [LadderNext]_tvars => TrendInv'
<1> SUFFICES ASSUME TrendInv, [LadderNext]_tvars  PROVE TrendInv'
  OBVIOUS
<1>1. CASE UNCHANGED tvars
  BY <1>1 DEF tvars, TrendInv, AgesFit, AskedFits, Longest, Side, First, Slowest, Soonest, Enough, Warm
<1>2. CASE LadderNext
  <2>1. PICK read \in SUBSET {e \in Evidence : Warmup[e] <= seen + 1} :
          \E votes \in [read -> {-1, 0, 1}] : ConsumeVotes(votes)
    BY <1>2 DEF LadderNext
  <2>2. PICK votes \in [read -> {-1, 0, 1}] : ConsumeVotes(votes)
    BY <2>1
  <2> DEFINE target == Target(votes)
             steps == Moves(target)
             n == Len(steps)
  <2>3. /\ target \in Rungs /\ Climbs(steps) /\ n \in Nat
        /\ phase' = PhaseAt(steps, n) /\ lastDirection' = StanceAt(steps, n)
        /\ since' = SinceAt(steps, n)
        /\ sided' = [side |-> StanceAt(steps, n), for |-> SinceAt(steps, n)]
    BY <2>2, BarIsWalked
  <2>4. seen \in 0..Slowest /\ phase \in Rungs /\ lastDirection \in Sides /\ AgesFit /\ AskedFits
    BY DEF TrendInv
  <2>5. AskedFits' /\ seen' \in 0..Slowest
    BY <2>2, <2>3, <2>4, AskedIsKept
  <2>6. steps \in Seq(Rungs) /\ n \in 0..n
    BY <2>3 DEF Climbs
  <2> HIDE DEF steps, target
  <2>7. StanceAt(steps, n) \in Sides
    BY <2>4, <2>6, StanceGrows
  <2>8. PhaseAt(steps, n) \in Rungs
    BY <2>3, <2>4, <2>6 DEF PhaseAt
  <2>9. AgesFit'
    <3>1. IF Side(phase') = 0 THEN since' = Never ELSE since' \in 0..Longest
      BY <2>3, <2>4, BegunFits DEF SinceAt
    <3> QED BY <3>1 DEF AgesFit, Longest, Side, Never
  <2>10. seen' \in 0..Slowest'
    BY <2>5 DEF Slowest
  <2> QED BY <2>3, <2>5, <2>7, <2>8, <2>9, <2>10 DEF TrendInv
<1> QED BY <1>1, <1>2

LEMMA MinOfTwo ==
  ASSUME NEW a \in Int, NEW b \in Int
  PROVE  Min({a, b}) = IF a <= b THEN a ELSE b
<1>1. \E x \in {a, b} : \A y \in {a, b} : x <= y
  OBVIOUS
<1> QED BY <1>1 DEF Min

\* What one bar raises, of a stance that was told.
LEMMA EventsAreTold ==
  ASSUME NEW steps, Climbs(steps), NEW raised, raised = EventsAt(steps, Len(steps))
  PROVE  /\ raised = <<>> \/ Len(raised) = Len(steps)
         /\ \A i \in DOMAIN raised :
              /\ i \in 1..Len(steps)
              /\ raised[i] = [from |-> PhaseAt(steps, i - 1), to |-> PhaseAt(steps, i), kind |-> KindAt(steps, i)]
              /\ raised[i].from # Unknown => Distance(raised[i].to - raised[i].from) = 1
<1> DEFINE N == Len(steps)
           e(i) == [from |-> PhaseAt(steps, i - 1), to |-> PhaseAt(steps, i), kind |-> KindAt(steps, i)]
<1>1. N \in Nat
  BY DEF Climbs
<1>2. CASE N > 0 /\ KindAt(steps, N) = "none"
  <2>1. raised = <<>>
    BY <1>2 DEF EventsAt
  <2> QED BY <2>1
<1>3. CASE ~(N > 0 /\ KindAt(steps, N) = "none")
  <2>1. raised = [i \in 1..N |-> e(i)]
    BY <1>3 DEF EventsAt
  <2>2. DOMAIN raised = 1..N /\ Len(raised) = N
    BY <2>1, <1>1
  <2>3. ASSUME NEW i \in 1..N, raised[i].from # Unknown
        PROVE  Distance(raised[i].to - raised[i].from) = 1
    <3>1. raised[i].from = PhaseAt(steps, i - 1) /\ raised[i].to = PhaseAt(steps, i)
      BY <2>1
    <3>2. CASE Len(steps) = 1 /\ (phase = Unknown \/ steps[1] = Unknown)
      <4>1. i = 1 /\ PhaseAt(steps, 0) = phase /\ PhaseAt(steps, 1) = steps[1]
        BY <3>2, <1>1 DEF PhaseAt
      <4>2. steps[1] = Unknown
        BY <2>3, <3>1, <3>2, <4>1
      <4>3. KindAt(steps, 1) = "none"
        BY <4>1, <4>2 DEF KindAt, Event
      <4> QED BY <4>3, <3>2, <1>3
    <3>3. CASE \A n \in 1..N : Distance(PhaseAt(steps, n) - PhaseAt(steps, n - 1)) = 1
      BY <3>1, <3>3
    <3> QED BY <3>2, <3>3 DEF Climbs
  <2>4. \A i \in 1..N : raised[i] = e(i)
    BY <2>1
  <2> QED BY <2>2, <2>3, <2>4, <1>1
<1> QED BY <1>2, <1>3

\* A reversal is told of a step to the side that the stance before was not.
LEMMA KindIsTold ==
  ASSUME NEW before \in Rungs, NEW after \in Rungs, NEW stance \in Sides
  PROVE  Event(before, after, stance) = "reversal"
           <=> Side(after) # 0 /\ Side(before) # Side(after) /\ stance = -Side(after)
<1>1. Side(before) \in Sides /\ Side(after) \in Sides
  BY SideIsOne
<1>2. Side(after) # 0 => after # Unknown
  BY DEF Side
<1>3. CASE before = after
  BY <1>3 DEF Event
<1>4. CASE before # after /\ Side(after) = 0
  BY <1>4 DEF Event
<1>5. CASE before # after /\ Side(after) # 0 /\ Side(before) = Side(after)
  BY <1>5, <1>2 DEF Event
<1>6. CASE before # after /\ Side(after) # 0 /\ Side(before) # Side(after)
  <2>1. Event(before, after, stance) = IF stance # 0 /\ stance # Side(after) THEN "reversal" ELSE "confirmed"
    BY <1>6, <1>2 DEF Event
  <2>2. stance # 0 /\ stance # Side(after) <=> stance = -Side(after)
    BY <1>1, <1>6 DEF Sides
  <2> QED BY <2>1, <2>2, <1>6
<1> QED BY <1>3, <1>4, <1>5, <1>6

(***************************************************************************)
(* A rung is reached when each of the last bars asked for it and warmup is *)
(* over; and the stance, its age, the chain of a bar's steps and its       *)
(* reversals are told as they were gone through (core/trend.py).           *)
(***************************************************************************)
THEOREM PhasesAreEarned == LadderSpec => TrendIsEarned
<1>1. TrendInv /\ TrendInv' /\ [LadderNext]_tvars => [ConfirmedStep /\ StanceIsTold' /\ ReversalsAreTold]_tvars
  <2> SUFFICES ASSUME TrendInv, TrendInv', LadderNext
               PROVE  ConfirmedStep /\ StanceIsTold' /\ ReversalsAreTold
    OBVIOUS
  <2>1. PICK read \in SUBSET {e \in Evidence : Warmup[e] <= seen + 1} :
          \E votes \in [read -> {-1, 0, 1}] : ConsumeVotes(votes)
    BY DEF LadderNext
  <2>2. PICK votes \in [read -> {-1, 0, 1}] : ConsumeVotes(votes)
    BY <2>1
  <2> DEFINE target == Target(votes)
             steps == Moves(target)
             n == Len(steps)
  <2>3. /\ target \in Rungs /\ Climbs(steps) /\ n \in Nat
        /\ phase' = PhaseAt(steps, n) /\ events' = EventsAt(steps, n)
    BY <2>2, BarIsWalked
  <2>4. seen \in 0..Slowest /\ phase \in Rungs /\ lastDirection \in Sides /\ AskedFits
        /\ sided = [side |-> lastDirection, for |-> since]
    BY DEF TrendInv
  <2>5. /\ Len(asked') \in Nat \ {0} /\ asked'[Len(asked')] = target
        /\ target \notin {phase, Unknown} /\ Pending(target)[2] >= Confirmation =>
             /\ asked' = [i \in 1..Confirmation |-> target]
             /\ seen' >= First + Confirmation - 1 \/ seen' = Slowest
    BY <2>2, <2>3, <2>4, AskedIsKept
  <2>6. /\ steps # <<>> => /\ n \in Nat \ {0} /\ steps[n] = target
                           /\ target # phase /\ (target = Unknown \/ Pending(target)[2] >= Confirmation)
        /\ target = Unknown /\ phase # Unknown => steps # <<>>
        /\ phase' = IF steps = <<>> THEN phase ELSE target
    BY <2>3, <2>4, MovesClimb
  <2>7. /\ events' = <<>> \/ Len(events') = n
        /\ \A i \in DOMAIN events' :
             /\ i \in 1..n
             /\ events'[i] = [from |-> PhaseAt(steps, i - 1), to |-> PhaseAt(steps, i), kind |-> KindAt(steps, i)]
             /\ events'[i].from # Unknown => Distance(events'[i].to - events'[i].from) = 1
    BY <2>3, EventsAreTold
  <2>8. DOMAIN events' = IF events' = <<>> THEN {} ELSE 1..n
    BY <2>3 DEF EventsAt
  <2>9. steps \in Seq(Rungs)
    BY <2>3 DEF Climbs
  <2> HIDE DEF steps, target
  <2>10. ConfirmedStep
    <3>1. ASSUME phase' \notin {phase, Unknown}
          PROVE  /\ asked' = [i \in 1..Confirmation |-> phase']
                 /\ seen' >= Min({Needed, Slowest})
      <4>1. phase' = target /\ target \notin {phase, Unknown} /\ Pending(target)[2] >= Confirmation
        BY <3>1, <2>6
      <4>2. seen' >= Needed \/ seen' = Slowest
        BY <4>1, <2>5, FirstIsFirst
      <4>3. Needed \in Int /\ Slowest \in Int /\ seen' \in Int
        <5>1. seen' \in 0..Slowest
          BY DEF TrendInv, Slowest
        <5> QED BY <5>1, FirstIsFirst, SlowestIsLast
      <4>4. Min({Needed, Slowest}) = IF Needed <= Slowest THEN Needed ELSE Slowest
        BY <4>3, MinOfTwo
      <4> QED BY <4>1, <4>2, <4>3, <4>4, <2>5
    <3>2. asked'[Len(asked')] = Unknown => phase' = Unknown
      BY <2>5, <2>6
    <3> QED BY <3>1, <3>2 DEF ConfirmedStep
  <2>11. StanceIsTold'
    <3>1. (since = IF Side(phase) = 0 THEN Never ELSE sided.for)' /\ (lastDirection = sided.side)'
      BY DEF TrendInv, AgesFit
    <3>2. events' # <<>> => events'[Len(events')].to = phase'
      <4> SUFFICES ASSUME events' # <<>>  PROVE events'[Len(events')].to = phase'
        OBVIOUS
      <4>1. n # 0
        BY <2>3, <2>8 DEF EventsAt
      <4>2. n \in DOMAIN events' /\ Len(events') = n
        BY <4>1, <2>3, <2>7, <2>8
      <4>3. events'[n].to = PhaseAt(steps, n)
        BY <4>2, <2>7
      <4> QED BY <4>2, <4>3, <2>3
    <3>3. \A i \in DOMAIN events' :
            /\ events'[i].from # Unknown => Distance(events'[i].to - events'[i].from) = 1
            /\ i > 1 => events'[i].from = events'[i - 1].to
      <4> TAKE i \in DOMAIN events'
      <4>1. i \in 1..n /\ events'[i].from = PhaseAt(steps, i - 1)
        BY <2>7
      <4>2. ASSUME i > 1  PROVE events'[i].from = events'[i - 1].to
        <5>1. i - 1 \in DOMAIN events'
          BY <4>1, <4>2, <2>3, <2>8
        <5>2. events'[i - 1].to = PhaseAt(steps, i - 1)
          BY <5>1, <2>7
        <5> QED BY <4>1, <5>2
      <4> QED BY <4>2, <2>7
    <3> QED BY <3>1, <3>2, <3>3 DEF StanceIsTold, Distance, Unknown
  <2>12. ReversalsAreTold
    <3> SUFFICES ASSUME NEW i \in DOMAIN events'
                 PROVE  events'[i].kind = "reversal" <=>
                          /\ Side(events'[i].to) # 0 /\ Side(events'[i].from) # Side(events'[i].to)
                          /\ SideBefore(i) = -Side(events'[i].to)
      BY DEF ReversalsAreTold
    <3>1. i \in 1..n /\ events'[i].from = PhaseAt(steps, i - 1) /\ events'[i].to = PhaseAt(steps, i)
          /\ events'[i].kind = KindAt(steps, i)
      BY <2>7
    <3>2. \A j \in 1..i - 1 : events'[j].to = steps[j]
      <4> TAKE j \in 1..i - 1
      <4>1. j \in DOMAIN events' /\ j # 0
        BY <3>1, <2>3, <2>8
      <4> QED BY <4>1, <2>7 DEF PhaseAt
    <3>3. SideBefore(i) = StanceAt(steps, i - 1)
      <4> DEFINE before == {j \in 1..i - 1 : Side(events'[j].to) # 0}
      <4>1. before = SidesOf(steps, i - 1)
        BY <3>2 DEF SidesOf
      <4>2. SideBefore(i) = IF before = {} THEN sided.side ELSE Side(events'[Max(before)].to)
        BY DEF SideBefore
      <4>3. CASE before = {}
        BY <4>1, <4>2, <4>3, <2>4 DEF StanceAt
      <4>4. CASE before # {}
        <5>1. before \subseteq 0..i - 1 /\ i - 1 \in Nat
          BY <3>1, <2>3
        <5>2. Max(before) \in before
          <6> HIDE DEF before
          <6> QED BY <5>1, <4>4, GreatestNatural
        <5>3. events'[Max(before)].to = steps[Max(before)]
          BY <5>2, <3>2
        <5> HIDE DEF before
        <5> QED BY <4>1, <4>2, <4>4, <5>3 DEF StanceAt
      <4> QED BY <4>3, <4>4
    <3>4. i - 1 \in 0..n /\ PhaseAt(steps, i - 1) \in Rungs /\ PhaseAt(steps, i) \in Rungs
      BY <3>1, <2>3, <2>4, <2>9 DEF PhaseAt
    <3>5. StanceAt(steps, i - 1) \in Sides
      BY <3>4, <2>4, <2>9, StanceGrows
    <3>6. KindAt(steps, i) = "reversal" <=>
            /\ Side(PhaseAt(steps, i)) # 0 /\ Side(PhaseAt(steps, i - 1)) # Side(PhaseAt(steps, i))
            /\ StanceAt(steps, i - 1) = -Side(PhaseAt(steps, i))
      BY <3>4, <3>5, KindIsTold DEF KindAt
    <3> QED BY <3>1, <3>3, <3>6
  <2> QED BY <2>10, <2>11, <2>12
<1> QED BY <1>1, TrendBegins, TrendIsKept, PTL DEF LadderSpec, TrendIsEarned

HIDE LadderAssumption

-----------------------------------------------------------------------------
(***************************************************************************)
(* The structure. StructureInv relates what the engine keeps to the series *)
(* as a whole: the swings of a kind are its peaks so far in the order of   *)
(* their bars, the one that stands is the newest of them unless a break    *)
(* used it up, and its count is the run of bars beyond it that ends here.  *)
(* A bar decides of one peak only, the one Right bars before it.           *)
(***************************************************************************)
LEMMA ProbeIsWithin ==
  ASSUME NEW bar \in Bars, NEW k \in Kinds
  PROVE  Extreme(bar, k) \in Int /\ Probe(bar, k) \in Int /\ Probe(bar, k) <= Extreme(bar, k)
<1>1. bar.low \in Int /\ bar.high \in Int /\ bar.close \in Int /\ bar.low <= bar.close /\ bar.close <= bar.high
  BY StructureAssumption
<1> QED BY <1>1 DEF Kinds, Extreme, Probe, Out

(***************************************************************************)
(* A bar adds one of a kind to a sequence, or none.                        *)
(***************************************************************************)
Single(T, f, k) == f[k] = <<>> \/ \E x \in T : f[k] = <<x>> /\ x.kind = k
Of(s, k) == {i \in DOMAIN s : s[i].kind = k}

LEMMA OneMore ==
  ASSUME NEW T, NEW s \in Seq(T), NEW g \in Seq(T)
  PROVE  LET t == s \o g IN
         /\ t \in Seq(T) /\ Len(t) = Len(s) + Len(g)
         /\ \A i \in 1..Len(s) : t[i] = s[i]
         /\ Len(g) = 1 => t[Len(s) + 1] = g[1]
<1> DEFINE t == s \o g
<1>1. Len(s) \in Nat /\ Len(g) \in Nat
  OBVIOUS
<1>2. t \in Seq(T) /\ Len(t) = Len(s) + Len(g)
      /\ \A i \in 1..Len(s) + Len(g) : t[i] = IF i <= Len(s) THEN s[i] ELSE g[i - Len(s)]
  BY ConcatProperties
<1> HIDE DEF t
<1>3. ASSUME NEW i \in 1..Len(s)  PROVE t[i] = s[i]
  <2>1. i \in 1..Len(s) + Len(g) /\ i <= Len(s)
    BY <1>1
  <2> QED BY <2>1, <1>2
<1>4. ASSUME Len(g) = 1  PROVE t[Len(s) + 1] = g[1]
  <2>1. Len(s) + 1 \in 1..Len(s) + Len(g) /\ Len(s) + 1 - Len(s) = 1 /\ ~(Len(s) + 1 <= Len(s))
    BY <1>1, <1>4
  <2> QED BY <2>1, <1>2
<1> QED BY <1>2, <1>3, <1>4 DEF t

Joined(s, f) == s \o f["high"] \o f["low"]

LEMMA OneOfAKind ==
  ASSUME NEW T, NEW s \in Seq(T), NEW f, \A k \in Kinds : Single(T, f, k)
  PROVE  LET t == Joined(s, f) IN
         /\ t \in Seq(T) /\ Len(s) <= Len(t)
         /\ \A i \in 1..Len(s) : t[i] = s[i]
         /\ \A k \in Kinds :
              /\ f[k] = <<>> => Of(t, k) = Of(s, k)
              /\ f[k] # <<>> => \E j \in 1..Len(t) :
                   j > Len(s) /\ t[j] = f[k][1] /\ t[j] \in T /\ t[j].kind = k /\ Of(t, k) = Of(s, k) \union {j}
<1> DEFINE a == f["high"]
           b == f["low"]
           t == Joined(s, f)
           n == Len(s)
<1>0. t = s \o a \o b
  BY DEF Joined
<1> HIDE DEF t
<1>1. /\ a \in Seq(T) /\ b \in Seq(T)
      /\ \/ a = <<>> /\ Len(a) = 0
         \/ Len(a) = 1 /\ a # <<>> /\ a[1] \in T /\ a[1].kind = "high"
      /\ \/ b = <<>> /\ Len(b) = 0
         \/ Len(b) = 1 /\ b # <<>> /\ b[1] \in T /\ b[1].kind = "low"
  <2>1. ASSUME NEW k \in Kinds
        PROVE  /\ f[k] \in Seq(T)
               /\ \/ f[k] = <<>> /\ Len(f[k]) = 0
                  \/ Len(f[k]) = 1 /\ f[k] # <<>> /\ f[k][1] \in T /\ f[k][1].kind = k
    <3>1. CASE f[k] = <<>>
      BY <3>1
    <3>2. CASE f[k] # <<>>
      <4>1. PICK x \in T : f[k] = <<x>> /\ x.kind = k
        BY <3>2 DEF Single
      <4>2. <<x>> \in Seq(T) /\ Len(<<x>>) = 1 /\ <<x>> # <<>> /\ <<x>>[1] = x
        OBVIOUS
      <4> QED BY <4>1, <4>2
    <3> QED BY <3>1, <3>2
  <2>2. "high" \in Kinds /\ "low" \in Kinds
    BY DEF Kinds
  <2> QED BY <2>1, <2>2
<1>2. n \in Nat
  OBVIOUS
<1> HIDE DEF a, b
<1>3. /\ t \in Seq(T) /\ Len(t) = n + Len(a) + Len(b)
      /\ \A i \in 1..n : t[i] = s[i]
      /\ Len(a) = 1 => t[n + 1] = a[1]
      /\ Len(b) = 1 => t[n + Len(a) + 1] = b[1]
  <2> DEFINE u == s \o a
  <2>1. u \in Seq(T) /\ Len(u) = n + Len(a) /\ (\A i \in 1..n : u[i] = s[i]) /\ (Len(a) = 1 => u[n + 1] = a[1])
    BY <1>1, OneMore
  <2> HIDE DEF u
  <2>2. u \o b \in Seq(T) /\ Len(u \o b) = Len(u) + Len(b) /\ (\A i \in 1..Len(u) : (u \o b)[i] = u[i])
        /\ (Len(b) = 1 => (u \o b)[Len(u) + 1] = b[1])
    <3>1. u \in Seq(T) /\ b \in Seq(T)
      BY <2>1, <1>1
    <3> QED BY <3>1, OneMore
  <2>3. t = u \o b
    BY <1>0 DEF u
  <2> QED BY <2>1, <2>2, <2>3, <1>1, <1>2
<1>4. DOMAIN t = 1..Len(t) /\ DOMAIN s = 1..n
  BY <1>3
<1> HIDE DEF t, n
<1>5. \A i \in 1..Len(t) : \/ i \in 1..n
                           \/ Len(a) = 1 /\ i = n + 1
                           \/ Len(b) = 1 /\ i = n + Len(a) + 1
  <2>1. Len(a) \in {0, 1} /\ Len(b) \in {0, 1} /\ Len(t) = n + Len(a) + Len(b)
    BY <1>1, <1>3
  <2>2. CASE Len(a) = 0 /\ Len(b) = 0
    BY <2>1, <2>2, <1>2
  <2>3. CASE Len(a) = 1 /\ Len(b) = 0
    BY <2>1, <2>3, <1>2
  <2>4. CASE Len(a) = 0 /\ Len(b) = 1
    BY <2>1, <2>4, <1>2
  <2>5. CASE Len(a) = 1 /\ Len(b) = 1
    BY <2>1, <2>5, <1>2
  <2> QED BY <2>1, <2>2, <2>3, <2>4, <2>5
<1>6. ASSUME NEW k \in Kinds
      PROVE  /\ f[k] = <<>> => Of(t, k) = Of(s, k)
             /\ f[k] # <<>> => \E j \in 1..Len(t) :
                  j > n /\ t[j] = f[k][1] /\ t[j] \in T /\ t[j].kind = k /\ Of(t, k) = Of(s, k) \union {j}
  <2>1. CASE k = "high"
    <3>1. f[k] = a
      BY <2>1 DEF a
    <3>2. \A i \in 1..Len(t) : t[i].kind = "high" => i \in 1..n \/ (Len(a) = 1 /\ i = n + 1)
      BY <1>1, <1>3, <1>5
    <3>3. CASE a = <<>>
      BY <2>1, <3>1, <3>2, <3>3, <1>1, <1>2, <1>3, <1>4 DEF Of
    <3>4. CASE a # <<>>
      <4>1. n + 1 \in 1..Len(t) /\ t[n + 1] = a[1] /\ Len(a) = 1
        BY <3>4, <1>1, <1>2, <1>3
      <4>2. Of(t, k) = Of(s, k) \union {n + 1}
        BY <2>1, <3>2, <4>1, <1>1, <1>2, <1>3, <1>4 DEF Of
      <4>3. n + 1 > n
        BY <1>1, <1>2
      <4>4. t[n + 1] = f[k][1] /\ f[k][1] \in T /\ f[k][1].kind = k
        BY <2>1, <3>1, <3>4, <4>1, <1>1
      <4>5. f[k] # <<>>
        BY <3>1, <3>4
      <4> QED BY <4>1, <4>2, <4>3, <4>4, <4>5
    <3> QED BY <3>3, <3>4
  <2>2. CASE k = "low"
    <3>1. f[k] = b
      BY <2>2 DEF b
    <3>2. \A i \in 1..Len(t) : t[i].kind = "low" => i \in 1..n \/ (Len(b) = 1 /\ i = n + Len(a) + 1)
      BY <1>1, <1>3, <1>5
    <3>3. CASE b = <<>>
      BY <2>2, <3>1, <3>2, <3>3, <1>1, <1>2, <1>3, <1>4 DEF Of
    <3>4. CASE b # <<>>
      <4>1. n + Len(a) + 1 \in 1..Len(t) /\ t[n + Len(a) + 1] = b[1] /\ Len(b) = 1 /\ n + Len(a) + 1 > n
        BY <3>4, <1>1, <1>2, <1>3
      <4>2. Of(t, k) = Of(s, k) \union {n + Len(a) + 1}
        BY <2>2, <3>2, <4>1, <1>1, <1>2, <1>3, <1>4 DEF Of
      <4>3. n + Len(a) + 1 > n
        BY <1>1, <1>2
      <4>4. t[n + Len(a) + 1] = f[k][1] /\ f[k][1] \in T /\ f[k][1].kind = k
        BY <2>2, <3>1, <3>4, <4>1, <1>1
      <4>5. f[k] # <<>>
        BY <3>1, <3>4
      <4> QED BY <4>1, <4>2, <4>3, <4>4, <4>5
    <3> QED BY <3>3, <3>4
  <2> QED BY <2>1, <2>2 DEF Kinds
<1>7. n <= Len(t)
  BY <1>1, <1>2, <1>3
<1> QED BY <1>3, <1>6, <1>7 DEF t, a, b, n

-----------------------------------------------------------------------------
LEMMA ParametersAreNumbers ==
  /\ Left \in Nat \ {0} /\ Right \in Nat \ {0} /\ ClosesRequired \in Nat \ {0} /\ VolumePeriod \in Nat \ {0}
  /\ Steps \in Nat /\ MinMove \in Nat /\ AtrWarmup \in Nat /\ VolumeMultiple \in Nat
  BY StructureAssumption

USE ParametersAreNumbers

\* The run of bars beyond a swing that ends with a series, and its length.
BeyondIn(series, s, k, b) == Probe(series[b], k) > s.out
RunIn(series, s, k, b) == {n \in 1..b - s.seen : \A i \in 0..n - 1 : BeyondIn(series, s, k, b - i)}
RunIs(series, s, k, c) ==
  /\ c \in 0..Len(series) - s.seen
  /\ \A i \in 0..c - 1 : BeyondIn(series, s, k, Len(series) - i)
  /\ c = Len(series) - s.seen \/ ~BeyondIn(series, s, k, Len(series) - c)

LEMMA RunIsCounted ==
  ASSUME NEW series \in Seq(Bars), NEW s, s.seen \in Nat, NEW k, NEW c, RunIs(series, s, k, c), NEW n \in Nat
  PROVE  n \in RunIn(series, s, k, Len(series)) <=> n \in 1..c
<1>1. Len(series) \in Nat /\ c \in Nat /\ c <= Len(series) - s.seen
  BY DEF RunIs
<1>2. ASSUME n \in 1..c  PROVE n \in RunIn(series, s, k, Len(series))
  BY <1>1, <1>2 DEF RunIs, RunIn
<1>3. ASSUME n \in RunIn(series, s, k, Len(series)), n > c  PROVE FALSE
  <2>1. n \in 1..Len(series) - s.seen /\ \A i \in 0..n - 1 : BeyondIn(series, s, k, Len(series) - i)
    BY <1>3 DEF RunIn
  <2>2. c \in 0..n - 1 /\ c # Len(series) - s.seen
    BY <1>1, <1>3, <2>1
  <2> QED BY <2>1, <2>2 DEF RunIs
<1>4. n \in RunIn(series, s, k, Len(series)) => n \in 1..Len(series) - s.seen
  BY DEF RunIn
<1> QED BY <1>1, <1>2, <1>3, <1>4

\* One more bar lengthens a run by one, or ends it.
LEMMA RunGrows ==
  ASSUME NEW old \in Seq(Bars), NEW bar \in Bars, NEW s, s.seen \in 1..Len(old), s.out \in Int,
         NEW k \in Kinds, NEW c, RunIs(old, s, k, c)
  PROVE  RunIs(Append(old, bar), s, k, Count(c, Probe(bar, k) > s.out))
<1> DEFINE series == Append(old, bar)
           beyond == Probe(bar, k) > s.out
<1>1. Len(old) \in Nat /\ Len(series) = Len(old) + 1 /\ series[Len(series)] = bar
      /\ \A b \in 1..Len(old) : series[b] = old[b]
  OBVIOUS
<1>2. c \in Nat /\ c <= Len(old) - s.seen
  BY <1>1 DEF RunIs
<1> HIDE DEF series
<1>3. BeyondIn(series, s, k, Len(series)) <=> beyond
  BY <1>1 DEF BeyondIn
<1>4. \A b \in 1..Len(old) : BeyondIn(series, s, k, b) <=> BeyondIn(old, s, k, b)
  BY <1>1 DEF BeyondIn
<1>5. CASE ~beyond
  <2>1. Count(c, beyond) = 0
    BY <1>5 DEF Count
  <2>2. Len(series) - 0 = Len(series) /\ 0 \in 0..Len(series) - s.seen
    BY <1>1
  <2>3. RunIs(series, s, k, 0)
    BY <1>3, <1>5, <2>2 DEF RunIs
  <2> QED BY <2>1, <2>3 DEF series
<1>6. CASE beyond
  <2>1. Count(c, beyond) = c + 1
    BY <1>6 DEF Count
  <2>2. c + 1 \in 0..Len(series) - s.seen
    BY <1>1, <1>2
  <2>3. ASSUME NEW i \in 0..c + 1 - 1  PROVE BeyondIn(series, s, k, Len(series) - i)
    <3>1. CASE i = 0
      BY <3>1, <1>1, <1>3, <1>6
    <3>2. CASE i # 0
      <4>0. i - 1 \in 0..c - 1
        BY <3>2, <1>2
      <4>1. i - 1 \in 0..c - 1 /\ Len(series) - i = Len(old) - (i - 1) /\ Len(old) - (i - 1) \in 1..Len(old)
        BY <4>0, <1>1, <1>2
      <4>2. BeyondIn(old, s, k, Len(old) - (i - 1))
        BY <4>1 DEF RunIs
      <4> QED BY <4>1, <4>2, <1>4
    <3> QED BY <3>1, <3>2
  <2>4. c + 1 = Len(series) - s.seen \/ ~BeyondIn(series, s, k, Len(series) - (c + 1))
    <3>1. CASE c = Len(old) - s.seen
      BY <3>1, <1>1
    <3>2. CASE c # Len(old) - s.seen
      <4>1. Len(series) - (c + 1) = Len(old) - c /\ Len(old) - c \in 1..Len(old)
        BY <3>2, <1>1, <1>2
      <4>2. ~BeyondIn(old, s, k, Len(old) - c)
        BY <3>2 DEF RunIs
      <4> QED BY <4>1, <4>2, <1>4
    <3> QED BY <3>1, <3>2
  <2>5. RunIs(series, s, k, c + 1)
    BY <2>2, <2>3, <2>4 DEF RunIs
  <2> QED BY <2>1, <2>5 DEF series
<1> QED BY <1>5, <1>6

\* And a run that ended before it is left as it was.
LEMMA RunIsLeft ==
  ASSUME NEW old \in Seq(Bars), NEW bar \in Bars, NEW s, s.seen \in Nat \ {0}, NEW k, NEW b \in 1..Len(old)
  PROVE  RunIn(Append(old, bar), s, k, b) = RunIn(old, s, k, b)
<1> DEFINE series == Append(old, bar)
<1>1. Len(old) \in Nat /\ \A j \in 1..Len(old) : series[j] = old[j]
  OBVIOUS
<1> HIDE DEF series
<1>2. ASSUME NEW n \in 1..b - s.seen, NEW i \in 0..n - 1
      PROVE  BeyondIn(series, s, k, b - i) <=> BeyondIn(old, s, k, b - i)
  <2>1. b - i \in 1..Len(old)
    BY <1>1
  <2> QED BY <2>1, <1>1 DEF BeyondIn
<1>3. RunIn(series, s, k, b) = RunIn(old, s, k, b)
  BY <1>2 DEF RunIn
<1> QED BY <1>3 DEF series

-----------------------------------------------------------------------------
Swing == [kind : Kinds, at : Nat \ {0}, seen : Nat \ {0}, out : Int,
          label : {"none", "HH", "LH", "HL", "LL"}]
Break == [kind : Kinds, of : Swing, at : Nat \ {0}, closes : Nat]

StructureTypes ==
  /\ bars \in Seq(Bars) /\ swings \in Seq(Swing) /\ breaks \in Seq(Break)
  /\ standing \in [Kinds -> Swing \union {NoSwing}] /\ closes \in [Kinds -> Nat]

\* Enough of a move from the swing before.
Moved(p, k, i) ==
  LET d == Extreme(bars[p], k) - swings[i].out IN (IF d < 0 THEN -d ELSE d) >= MinMove * bars[p].atr
Earlier(p, k) == {i \in Before(k) : swings[i].at < p}
Counts(p, k) ==
  MinMove = 0 \/ (p >= AtrWarmup /\ (Earlier(p, k) = {} \/ Moved(p, k, Max(Earlier(p, k)))))

SwingsFit(k) ==
  /\ {swings[i].at : i \in Before(k)} = {p \in Peaks(k) : Counts(p, k)}
  /\ \A i \in Before(k) :
       /\ swings[i].at \in Left + 1..Len(bars) - Right /\ swings[i].seen = swings[i].at + Right
       /\ swings[i].out = Extreme(bars[swings[i].at], k)

\* What stands is the newest of its kind, its run is counted, and it has not
\* been broken.
StandingFits(k) ==
  standing[k] # NoSwing =>
    /\ Before(k) # {} /\ standing[k] = Previous(k)
    /\ RunIs(bars, standing[k], k, closes[k])
    /\ VolumeMultiple = 0 => \A b \in standing[k].seen..Len(bars) :
                               ClosesRequired \notin RunIn(bars, standing[k], k, b)
    /\ \A i \in Of(breaks, k) : breaks[i].of # standing[k]

KnownBy(k, n) == {j \in Before(k) : swings[j].seen <= n}

BreaksFit(k) ==
  \A i \in Of(breaks, k) :
    LET b == breaks[i] IN
    /\ b.of.seen <= b.at /\ b.at <= Len(bars)
    /\ KnownBy(k, b.at) # {} /\ b.of = swings[Max(KnownBy(k, b.at))]
    /\ b.closes >= ClosesRequired
    /\ b.closes \in RunIn(bars, b.of, k, b.at) /\ b.closes + 1 \notin RunIn(bars, b.of, k, b.at)
    /\ \A j \in Of(breaks, k) : breaks[j].of = b.of => i = j

StructureInv ==
  StructureTypes /\ \A k \in Kinds : SwingsFit(k) /\ StandingFits(k) /\ BreaksFit(k)

\* The invariant is what the property says, and more.
LEMMA StructureInvIsTrue == StructureInv => StructureIsTrue
<1> SUFFICES ASSUME StructureInv PROVE SwingsAreThePeaks /\ BreaksAreEarned
  BY DEF StructureIsTrue
<1>1. SwingsAreThePeaks
  BY DEF StructureInv, SwingsFit, SwingsAreThePeaks, Before, Counts, Earlier, Moved
<1>2. ASSUME NEW i \in DOMAIN breaks
      PROVE  LET b == breaks[i]
                 known == {j \in DOMAIN swings : swings[j].kind = b.kind /\ swings[j].seen <= b.at}
             IN /\ b.of = swings[Max(known)]
                /\ b.closes >= ClosesRequired
                /\ b.closes \in RunTo(b.of, b.kind, b.at) /\ b.closes + 1 \notin RunTo(b.of, b.kind, b.at)
                /\ \A j \in DOMAIN breaks : breaks[j].kind = b.kind /\ breaks[j].of = b.of => i = j
  <2> DEFINE b == breaks[i]
             k == b.kind
             known == {j \in DOMAIN swings : swings[j].kind = k /\ swings[j].seen <= b.at}
  <2>1. k \in Kinds /\ i \in Of(breaks, k)
    <3>1. breaks \in Seq(Break)
      BY DEF StructureInv, StructureTypes
    <3>2. breaks[i] \in Break
      BY <3>1
    <3> QED BY <3>2 DEF Break, Of
  <2>2. known = KnownBy(k, b.at)
    BY DEF KnownBy, Before
  <2>3. RunTo(b.of, k, b.at) = RunIn(bars, b.of, k, b.at)
    BY DEF RunTo, RunIn, Beyond, BeyondIn
  <2>4. BreaksFit(k)
    BY <2>1 DEF StructureInv
  <2>5. /\ b.of = swings[Max(KnownBy(k, b.at))] /\ b.closes >= ClosesRequired
        /\ b.closes \in RunIn(bars, b.of, k, b.at) /\ b.closes + 1 \notin RunIn(bars, b.of, k, b.at)
        /\ \A j \in Of(breaks, k) : breaks[j].of = b.of => i = j
    BY <2>1, <2>4 DEF BreaksFit
  <2>6. \A j \in DOMAIN breaks : breaks[j].kind = k => j \in Of(breaks, k)
    BY DEF Of
  <2> HIDE DEF known, b, k
  <2>7. /\ b.of = swings[Max(known)] /\ b.closes >= ClosesRequired
        /\ b.closes \in RunTo(b.of, k, b.at) /\ b.closes + 1 \notin RunTo(b.of, k, b.at)
        /\ \A j \in DOMAIN breaks : breaks[j].kind = k /\ breaks[j].of = b.of => i = j
    BY <2>2, <2>3, <2>5, <2>6
  <2> QED BY <2>7 DEF known, b, k
<1>3. ASSUME VolumeMultiple = 0, NEW k \in Kinds, standing[k] # NoSwing, NEW b \in standing[k].seen..Len(bars)
      PROVE  ClosesRequired \notin RunTo(standing[k], k, b)
  <2>1. StandingFits(k)
    BY DEF StructureInv
  <2>2. ClosesRequired \notin RunIn(bars, standing[k], k, b)
    BY <2>1, <1>3 DEF StandingFits
  <2> QED BY <2>2 DEF RunTo, RunIn, Beyond, BeyondIn
<1>4. BreaksAreEarned
  BY <1>2, <1>3 DEF BreaksAreEarned
<1> QED BY <1>1, <1>4

LEMMA StructureBegins == StructureInit => StructureInv
<1> SUFFICES ASSUME StructureInit PROVE StructureInv
  OBVIOUS
<1>1. StructureTypes
  BY DEF StructureInit, StructureTypes
<1>2. ASSUME NEW k \in Kinds  PROVE SwingsFit(k) /\ StandingFits(k) /\ BreaksFit(k)
  <2>1. Before(k) = {} /\ Of(breaks, k) = {} /\ Len(bars) = 0 /\ standing[k] = NoSwing
    BY DEF StructureInit, Before, Of
  <2>2. Peaks(k) = {}
    BY <2>1 DEF Peaks
  <2> QED BY <2>1, <2>2 DEF SwingsFit, StandingFits, BreaksFit
<1> QED BY <1>1, <1>2 DEF StructureInv

-----------------------------------------------------------------------------
LEMMA PreviousIsOne ==
  ASSUME swings \in Seq(Swing), NEW k \in Kinds, NEW S, S \subseteq Before(k), S # {}
  PROVE  Max(S) \in S /\ (\A i \in S : i <= Max(S)) /\ swings[Max(S)] \in Swing /\ swings[Max(S)].kind = k
<1>1. S \subseteq 0..Len(swings) /\ Len(swings) \in Nat
  BY DEF Before
<1>2. Max(S) \in S /\ \A i \in S : i <= Max(S)
  BY <1>1, GreatestNatural
<1> QED BY <1>2 DEF Before

\* The series a bar is consumed into.
With(bar) == Append(bars, bar)

LEMMA ConfirmedIs ==
  ASSUME bars \in Seq(Bars), swings \in Seq(Swing), NEW bar \in Bars, NEW k \in Kinds
  PROVE  /\ Confirmed(With(bar), k) # <<>> <=>
              /\ Len(With(bar)) - Right > Left /\ IsPivot(With(bar), Len(With(bar)) - Right, k, Right)
              /\ Recorded(With(bar), Len(With(bar)) - Right, k)
         /\ Confirmed(With(bar), k) # <<>> =>
              \E x \in Swing : /\ Confirmed(With(bar), k) = <<x>> /\ x.kind = k
                               /\ x.at = Len(With(bar)) - Right /\ x.seen = Len(With(bar))
                               /\ x.out = Extreme(With(bar)[Len(With(bar)) - Right], k) /\ Extreme(bar, k) < x.out
<1> DEFINE series == With(bar)
<1>0. series = Append(bars, bar)
  BY DEF With
<1> HIDE DEF series
<1> DEFINE p == Len(series) - Right
           ok == p > Left /\ IsPivot(series, p, k, Right) /\ Recorded(series, p, k)
           x == [kind |-> k, at |-> p, seen |-> Len(series), out |-> Extreme(series[p], k),
                 label |-> Label(Extreme(series[p], k), k)]
<1>1. series \in Seq(Bars) /\ Len(series) = Len(bars) + 1 /\ Len(bars) \in Nat /\ series[Len(series)] = bar
  BY <1>0
<1>2. Confirmed(series, k) = IF ok THEN <<x>> ELSE <<>>
  BY DEF Confirmed
<1>3. ASSUME ok  PROVE x \in Swing /\ Extreme(bar, k) < x.out
  <2>1. p \in 1..Len(series) /\ p + Right = Len(series)
    BY <1>1, <1>3
  <2>2. series[p] \in Bars
    BY <1>1, <2>1
  <2>3. Extreme(series[p], k) \in Int
    BY <2>2, ProbeIsWithin
  <2>4. Label(Extreme(series[p], k), k) \in {"none", "HH", "LH", "HL", "LL"}
    BY DEF Label
  <2>5. Extreme(series[p + Right], k) < Extreme(series[p], k)
    <3>1. IsPivot(series, p, k, Right) /\ Right \in 1..Right
      BY <1>3
    <3> HIDE DEF p, ok
    <3> QED BY <3>1 DEF IsPivot
  <2>6. x.out = Extreme(series[p], k) /\ x \in Swing
    BY <1>1, <2>1, <2>3, <2>4 DEF Swing
  <2> QED BY <1>1, <2>1, <2>5, <2>6
<1> HIDE DEF ok
<1>4. x.kind = k /\ x.at = p /\ x.seen = Len(series) /\ x.out = Extreme(series[p], k) /\ <<x>> # <<>>
  OBVIOUS
<1> HIDE DEF x
<1>5. Confirmed(series, k) # <<>> <=> ok
  BY <1>2, <1>4
<1> QED BY <1>2, <1>3, <1>4, <1>5 DEF ok, series

-----------------------------------------------------------------------------
\* What a bar makes of a kind, by its parts.
Found(series) == [k \in Kinds |-> Confirmed(series, k)]
LevelOf(series, k) == IF Confirmed(series, k) # <<>> THEN Confirmed(series, k)[1] ELSE standing[k]
CountOf(series, bar, k) ==
  IF LevelOf(series, k) = NoSwing THEN 0
  ELSE Count(IF Confirmed(series, k) # <<>> THEN 0 ELSE closes[k], Probe(bar, k) > LevelOf(series, k).out)
IsBroken(series, bar, k) ==
  /\ CountOf(series, bar, k) >= ClosesRequired
  /\ LevelOf(series, k) # NoSwing /\ Probe(bar, k) > LevelOf(series, k).out
  /\ VolumeConfirms(bar)
BreakOf(series, bar, k) ==
  [kind |-> k, of |-> LevelOf(series, k), at |-> Len(series), closes |-> CountOf(series, bar, k)]
Broke(series, bar) ==
  [k \in Kinds |-> IF IsBroken(series, bar, k) THEN <<BreakOf(series, bar, k)>> ELSE <<>>]

LEMMA BarIsConsumed ==
  ASSUME NEW bar, ConsumeBar(bar)
  PROVE  /\ bars' = With(bar)
         /\ swings' = swings \o Found(With(bar))["high"] \o Found(With(bar))["low"]
         /\ breaks' = breaks \o Broke(With(bar), bar)["high"] \o Broke(With(bar), bar)["low"]
         /\ standing' = [k \in Kinds |-> IF IsBroken(With(bar), bar, k) THEN NoSwing ELSE LevelOf(With(bar), k)]
         /\ closes' = [k \in Kinds |-> IF IsBroken(With(bar), bar, k) THEN 0 ELSE CountOf(With(bar), bar, k)]
<1> DEFINE series == With(bar)
<1>0. series = Append(bars, bar)
  BY DEF With
<1> HIDE DEF series
<1> DEFINE found == [k \in Kinds |-> Confirmed(series, k)]
           level == [k \in Kinds |-> IF found[k] # <<>> THEN found[k][1] ELSE standing[k]]
           count == [k \in Kinds |->
                       IF level[k] = NoSwing THEN 0
                       ELSE Count(IF found[k] # <<>> THEN 0 ELSE closes[k], Probe(bar, k) > level[k].out)]
           broken == {k \in Kinds : /\ count[k] >= ClosesRequired
                                    /\ level[k] # NoSwing /\ Probe(bar, k) > level[k].out
                                    /\ VolumeConfirms(bar)}
           event(k) == IF k \in broken
                       THEN <<[kind |-> k, of |-> level[k], at |-> Len(series), closes |-> count[k]]>>
                       ELSE <<>>
<1>1. /\ bars' = series
      /\ swings' = swings \o found["high"] \o found["low"]
      /\ breaks' = breaks \o event("high") \o event("low")
      /\ standing' = [k \in Kinds |-> IF k \in broken THEN NoSwing ELSE level[k]]
      /\ closes' = [k \in Kinds |-> IF k \in broken THEN 0 ELSE count[k]]
  BY Zenon DEF ConsumeBar, series, With
<1>2. \A k \in Kinds : level[k] = LevelOf(series, k)
  BY DEF LevelOf
<1> HIDE DEF level
<1>3. \A k \in Kinds : count[k] = CountOf(series, bar, k)
  BY <1>2 DEF CountOf
<1> HIDE DEF count
<1>4. \A k \in Kinds : k \in broken <=> IsBroken(series, bar, k)
  BY <1>2, <1>3 DEF IsBroken
<1> HIDE DEF broken
<1>5. \A k \in Kinds : event(k) = Broke(series, bar)[k]
  BY <1>2, <1>3, <1>4 DEF Broke, BreakOf
<1>6. "high" \in Kinds /\ "low" \in Kinds
  BY DEF Kinds
<1>7. standing' = [k \in Kinds |-> IF IsBroken(series, bar, k) THEN NoSwing ELSE LevelOf(series, k)]
  BY <1>1, <1>2, <1>4
<1>8. closes' = [k \in Kinds |-> IF IsBroken(series, bar, k) THEN 0 ELSE CountOf(series, bar, k)]
  BY <1>1, <1>3, <1>4
<1> HIDE DEF event, found
<1>9. found = Found(series)
  BY DEF Found, found
<1> QED BY <1>1, <1>5, <1>6, <1>7, <1>8, <1>9 DEF series

\* What a bar makes of the swings.
LEMMA SwingsGrow ==
  ASSUME StructureInv, NEW bar \in Bars, ConsumeBar(bar)
  PROVE  /\ With(bar) \in Seq(Bars) /\ bars' = With(bar) /\ Len(bars) \in Nat /\ Len(With(bar)) = Len(bars) + 1
         /\ With(bar)[Len(With(bar))] = bar /\ \A b \in 1..Len(bars) : With(bar)[b] = bars[b]
         /\ swings' \in Seq(Swing) /\ Len(swings) <= Len(swings')
         /\ \A i \in 1..Len(swings) : swings'[i] = swings[i]
         /\ \A k \in Kinds :
              /\ Confirmed(With(bar), k) = <<>> => Before(k)' = Before(k)
              /\ Confirmed(With(bar), k) # <<>> => \E j \in 1..Len(swings') :
                   j > Len(swings) /\ swings'[j] = Confirmed(With(bar), k)[1] /\ Before(k)' = Before(k) \union {j}
<1> DEFINE series == With(bar)
<1>0. series = Append(bars, bar)
  BY DEF With
<1>1. bars \in Seq(Bars) /\ swings \in Seq(Swing)
  BY DEF StructureInv, StructureTypes
<1>2. bars' = series /\ swings' = swings \o Found(series)["high"] \o Found(series)["low"]
  <2>1. bars' = series
    BY BarIsConsumed
  <2>2. swings' = swings \o Found(series)["high"] \o Found(series)["low"]
    BY BarIsConsumed
  <2> QED BY <2>1, <2>2
<1>3. series \in Seq(Bars) /\ Len(bars) \in Nat /\ Len(series) = Len(bars) + 1
      /\ series[Len(series)] = bar /\ \A b \in 1..Len(bars) : series[b] = bars[b]
  BY <1>0, <1>1
<1>4. ASSUME NEW k \in Kinds  PROVE Single(Swing, Found(series), k)
  <2>1. Confirmed(series, k) # <<>> => \E x \in Swing : Confirmed(series, k) = <<x>> /\ x.kind = k
    BY <1>1, ConfirmedIs
  <2>2. Found(series)[k] = Confirmed(series, k)
    BY DEF Found
  <2> QED BY <2>1, <2>2 DEF Single
<1> DEFINE f == Found(series)
           t == Joined(swings, f)
<1>5. \A k \in Kinds : f[k] = Confirmed(series, k)
  BY DEF Found
<1> HIDE DEF f, series
<1>6. /\ t \in Seq(Swing) /\ Len(swings) <= Len(t)
      /\ \A i \in 1..Len(swings) : t[i] = swings[i]
      /\ \A k \in Kinds :
           /\ f[k] = <<>> => Of(t, k) = Of(swings, k)
           /\ f[k] # <<>> => \E j \in 1..Len(t) :
                j > Len(swings) /\ t[j] = f[k][1] /\ t[j] \in Swing /\ t[j].kind = k
                /\ Of(t, k) = Of(swings, k) \union {j}
  <2>1. \A k \in Kinds : Single(Swing, f, k)
    BY <1>4 DEF f, series
  <2> QED BY <1>1, <2>1, OneOfAKind
<1>7. swings' = t
  BY <1>2 DEF f, series, Joined
<1> HIDE DEF t
<1>8. \A k \in Kinds : Before(k)' = Of(t, k) /\ Before(k) = Of(swings, k)
  BY <1>7 DEF Before, Of
<1>9. ASSUME NEW k \in Kinds
      PROVE  /\ Confirmed(series, k) = <<>> => Before(k)' = Before(k)
             /\ Confirmed(series, k) # <<>> => \E j \in 1..Len(swings') :
                  j > Len(swings) /\ swings'[j] = Confirmed(series, k)[1] /\ Before(k)' = Before(k) \union {j}
  <2>1. f[k] = Confirmed(series, k) /\ Before(k)' = Of(t, k) /\ Before(k) = Of(swings, k)
    BY <1>5, <1>8
  <2>2. CASE Confirmed(series, k) = <<>>
    BY <2>1, <2>2, <1>6
  <2>3. CASE Confirmed(series, k) # <<>>
    <3>1. PICK j \in 1..Len(t) : j > Len(swings) /\ t[j] = f[k][1] /\ Of(t, k) = Of(swings, k) \union {j}
      BY <2>1, <2>3, <1>6
    <3> QED BY <2>1, <2>3, <3>1, <1>7
  <2> QED BY <2>2, <2>3
<1> QED BY <1>2, <1>3, <1>6, <1>7, <1>9 DEF series

\* And of what stands before it is broken.
LEMMA LevelIsNewest ==
  ASSUME StructureInv, NEW bar \in Bars, ConsumeBar(bar),
         NEW k \in Kinds, LevelOf(With(bar), k) # NoSwing
  PROVE  LET s == LevelOf(With(bar), k) IN
         /\ s \in Swing /\ s.seen <= Len(With(bar)) /\ CountOf(With(bar), bar, k) \in Nat
         /\ Before(k)' # {} /\ s = swings'[Max(Before(k)')]
         /\ RunIs(With(bar), s, k, CountOf(With(bar), bar, k))
         /\ \A i \in Of(breaks, k) : breaks[i].of # s
<1> DEFINE series == With(bar)
<1>0. series = Append(bars, bar)
  BY DEF With
<1> DEFINE s == LevelOf(series, k)
           c == CountOf(series, bar, k)
<1>1. StructureTypes /\ SwingsFit(k) /\ StandingFits(k) /\ BreaksFit(k)
  BY DEF StructureInv
<1>2. bars \in Seq(Bars) /\ swings \in Seq(Swing) /\ breaks \in Seq(Break)
      /\ standing[k] \in Swing \union {NoSwing} /\ closes[k] \in Nat
  BY <1>1 DEF StructureTypes
<1>3. /\ series \in Seq(Bars) /\ Len(bars) \in Nat /\ Len(series) = Len(bars) + 1
      /\ series[Len(series)] = bar
      /\ \A i \in 1..Len(swings) : swings'[i] = swings[i]
      /\ swings' \in Seq(Swing)
  BY SwingsGrow
<1>4. CASE Confirmed(series, k) # <<>>
  <2>1. PICK x \in Swing : Confirmed(series, k) = <<x>> /\ x.kind = k /\ x.seen = Len(series)
                           /\ x.out \in Int /\ Extreme(bar, k) < x.out
    <3>1. \E x \in Swing : Confirmed(series, k) = <<x>> /\ x.kind = k /\ x.seen = Len(series) /\ Extreme(bar, k) < x.out
      BY <1>2, <1>4, ConfirmedIs
    <3> QED BY <3>1 DEF Swing
  <2>2. s = x
    BY <2>1, <1>4 DEF LevelOf
  <2>3. Extreme(bar, k) \in Int /\ Probe(bar, k) \in Int /\ Probe(bar, k) <= Extreme(bar, k)
    BY ProbeIsWithin
  <2>4. ~(Probe(bar, k) > x.out)
    BY <2>1, <2>3
  <2>5. c = 0
    BY <2>2, <2>4, <1>4 DEF CountOf, Count
  <2>6. PICK j \in 1..Len(swings') : j > Len(swings) /\ swings'[j] = x /\ Before(k)' = Before(k) \union {j}
    <3>1. \E j \in 1..Len(swings') :
            j > Len(swings) /\ swings'[j] = Confirmed(series, k)[1] /\ Before(k)' = Before(k) \union {j}
      BY <1>4, SwingsGrow
    <3> QED BY <3>1, <2>1
  <2>7. Max(Before(k)') = j
    <3>1. \A i \in Before(k) : i \in 1..Len(swings)
      BY <1>2 DEF Before
    <3>2. Before(k)' \subseteq 0..Len(swings') /\ Len(swings') \in Nat /\ Before(k)' # {}
      BY <1>3, <2>6 DEF Before
    <3>3. Max(Before(k)') \in Before(k)' /\ \A i \in Before(k)' : i <= Max(Before(k)')
      BY <3>2, GreatestNatural
    <3>4. Len(swings) \in Nat /\ j \in Nat /\ Max(Before(k)') \in 1..Len(swings')
      BY <1>2, <1>3, <2>6, <3>3 DEF Before
    <3>5. j \in Before(k)' /\ (Max(Before(k)') = j \/ Max(Before(k)') \in 1..Len(swings))
      BY <2>6, <3>1, <3>3
    <3>6. j <= Max(Before(k)')
      BY <3>3, <3>5
    <3>7. j > Len(swings)
      BY <2>6
    <3> QED BY <3>4, <3>5, <3>6, <3>7
  <2>8. RunIs(series, s, k, c)
    <3>1. Len(series) - x.seen = 0
      BY <1>3, <2>1
    <3> QED BY <3>1, <2>2, <2>5 DEF RunIs
  <2>9. ASSUME NEW i \in Of(breaks, k), breaks[i].of = s  PROVE FALSE
    <3>1. breaks[i].of.seen <= breaks[i].at /\ breaks[i].at <= Len(bars)
      BY <1>1 DEF BreaksFit
    <3>2. breaks[i] \in Break
      BY <1>2 DEF Of
    <3>3. Len(series) <= breaks[i].at /\ breaks[i].at \in Nat
      BY <3>1, <3>2, <2>9, <2>2, <2>1 DEF Break
    <3> QED BY <3>1, <3>3, <1>3
  <2> HIDE DEF s, c
  <2>10. s \in Swing /\ s.seen <= Len(series) /\ c \in Nat /\ Before(k)' # {} /\ s = swings'[Max(Before(k)')]
    BY <2>1, <2>2, <2>5, <2>6, <2>7, <1>3
  <2> QED BY <2>8, <2>9, <2>10 DEF s, c
<1>5. CASE Confirmed(series, k) = <<>>
  <2>1. s = standing[k] /\ standing[k] # NoSwing /\ standing[k] \in Swing
    BY <1>5, <1>2 DEF LevelOf
  <2>2. /\ Before(k) # {} /\ standing[k] = swings[Max(Before(k))]
        /\ RunIs(bars, standing[k], k, closes[k])
        /\ \A i \in Of(breaks, k) : breaks[i].of # standing[k]
    BY <1>1, <2>1 DEF StandingFits, Previous
  <2>3. c = Count(closes[k], Probe(bar, k) > standing[k].out)
    BY <2>1, <1>5 DEF CountOf
  <2>4. Before(k)' = Before(k)
    BY <1>5, SwingsGrow
  <2>5. Max(Before(k)) \in Before(k)
    BY <1>2, <2>2, PreviousIsOne
  <2>6. Max(Before(k)) \in 1..Len(swings)
    BY <2>5, <1>2 DEF Before
  <2>7. s = swings'[Max(Before(k)')]
    BY <2>1, <2>2, <2>4, <2>6, <1>3
  <2>8. standing[k].seen \in 1..Len(bars) /\ standing[k].out \in Int
    <3>1. standing[k].seen = standing[k].at + Right /\ standing[k].at \in Left + 1..Len(bars) - Right
      BY <1>1, <2>2, <2>5 DEF SwingsFit
    <3>2. standing[k].out \in Int
      BY <2>1 DEF Swing
    <3>3. \A at \in Left + 1..Len(bars) - Right : at + Right \in 1..Len(bars)
      BY <1>3
    <3>4. standing[k].seen \in 1..Len(bars)
      BY <3>1, <3>3
    <3> QED BY <3>2, <3>4
  <2>9. RunIs(series, standing[k], k, c)
    <3> HIDE DEF series, s, c
    <3> QED BY <1>0, <1>2, <2>1, <2>2, <2>3, <2>8, RunGrows
  <2>10. c \in Nat
    BY <2>3, <1>2 DEF Count
  <2> HIDE DEF c, s
  <2>11. s.seen <= Len(series)
    BY <2>1, <2>8, <1>3
  <2> QED BY <2>1, <2>2, <2>4, <2>7, <2>9, <2>10, <2>11 DEF c, s
<1> QED BY <1>4, <1>5

LEMMA BreaksAreSingle ==
  ASSUME StructureInv, NEW bar \in Bars, ConsumeBar(bar), NEW k \in Kinds
  PROVE  Single(Break, Broke(With(bar), bar), k)
<1> DEFINE series == With(bar)
<1> SUFFICES ASSUME IsBroken(series, bar, k)
             PROVE  BreakOf(series, bar, k) \in Break /\ BreakOf(series, bar, k).kind = k
  BY DEF Single, Broke
<1>1. LevelOf(series, k) \in Swing /\ CountOf(series, bar, k) \in Nat
  BY LevelIsNewest DEF IsBroken
<1>2. Len(series) \in Nat \ {0}
  BY SwingsGrow
<1> QED BY <1>1, <1>2 DEF BreakOf, Break

LEMMA TypesAreKept ==
  ASSUME StructureInv, NEW bar \in Bars, ConsumeBar(bar)
  PROVE  StructureTypes'
<1> DEFINE series == With(bar)
           g == Broke(series, bar)
<1>1. bars' \in Seq(Bars) /\ swings' \in Seq(Swing)
  BY SwingsGrow
<1>2. /\ breaks' = breaks \o g["high"] \o g["low"]
      /\ standing' = [k \in Kinds |-> IF IsBroken(series, bar, k) THEN NoSwing ELSE LevelOf(series, k)]
      /\ closes' = [k \in Kinds |-> IF IsBroken(series, bar, k) THEN 0 ELSE CountOf(series, bar, k)]
  BY BarIsConsumed
<1>3. \A k \in Kinds : LevelOf(series, k) # NoSwing =>
        LevelOf(series, k) \in Swing /\ CountOf(series, bar, k) \in Nat
  BY LevelIsNewest
<1>4. \A k \in Kinds : LevelOf(series, k) = NoSwing => CountOf(series, bar, k) = 0
  BY DEF CountOf
<1>5. standing' \in [Kinds -> Swing \union {NoSwing}]
  BY <1>2, <1>3
<1>6. closes' \in [Kinds -> Nat]
  BY <1>2, <1>3, <1>4
<1>7. \A k \in Kinds : Single(Break, g, k)
  BY BreaksAreSingle
<1>8. breaks \in Seq(Break)
  BY DEF StructureInv, StructureTypes
<1> HIDE DEF g, series
<1>9. Joined(breaks, g) \in Seq(Break)
  BY <1>7, <1>8, OneOfAKind
<1>10. breaks' \in Seq(Break)
  BY <1>2, <1>9 DEF Joined
<1> QED BY <1>1, <1>5, <1>6, <1>10 DEF StructureTypes

\* A peak is one when a window about it is whole, and then for good.
LEMMA PeaksGrow ==
  ASSUME StructureInv, NEW bar \in Bars, ConsumeBar(bar), NEW k \in Kinds
  PROVE  LET p == Len(With(bar)) - Right IN
         Peaks(k)' = Peaks(k) \union IF p > Left /\ IsPivot(With(bar), p, k, Right) THEN {p} ELSE {}
<1> DEFINE series == With(bar)
           p == Len(series) - Right
           high(q) == Extreme(series[q], k)
           peak(r) == \A q \in r - Left..r + Right : q # r => high(q) < high(r) \/ (q < r /\ high(q) = high(r))
<1>1. /\ bars' = series /\ series \in Seq(Bars) /\ Len(bars) \in Nat /\ Len(series) = Len(bars) + 1
      /\ \A b \in 1..Len(bars) : series[b] = bars[b]
  BY SwingsGrow
<1>2. Peaks(k)' = {r \in Left + 1..Len(series) - Right : peak(r)}
  BY <1>1 DEF Peaks
<1>3. Peaks(k) = {r \in Left + 1..Len(bars) - Right : peak(r)}
  <2>1. ASSUME NEW r \in Left + 1..Len(bars) - Right, NEW q \in r - Left..r + Right
        PROVE  Extreme(bars[q], k) = high(q) /\ Extreme(bars[r], k) = high(r)
    <3>1. q \in 1..Len(bars) /\ r \in 1..Len(bars)
      BY <1>1
    <3> QED BY <3>1, <1>1
  <2>2. ASSUME NEW r \in Left + 1..Len(bars) - Right
        PROVE  (\A q \in r - Left..r + Right :
                  q # r => \/ Extreme(bars[q], k) < Extreme(bars[r], k)
                           \/ q < r /\ Extreme(bars[q], k) = Extreme(bars[r], k)) <=> peak(r)
    <3> HIDE DEF series
    <3> QED BY <2>1
  <2> HIDE DEF peak, series
  <2> QED BY <2>2 DEF Peaks
<1>4. ASSUME p > Left  PROVE peak(p) <=> IsPivot(series, p, k, Right)
  <2>1. p \in Nat /\ p - Left \in Nat \ {0} /\ p + Right = Len(series) /\ Len(series) \in Nat
    BY <1>1, <1>4
  <2>2. \A q \in p - Left..p + Right : high(q) \in Int
    <3>1. \A q \in p - Left..p + Right : q \in 1..Len(series)
      <4> HIDE DEF p, series
      <4>1. p \in Nat /\ p - Left >= 1 /\ p + Right = Len(series) /\ Len(series) \in Nat
        BY <2>1
      <4> QED BY <4>1
    <3>2. \A q \in 1..Len(series) : series[q] \in Bars
      BY <1>1
    <3> QED BY <3>1, <3>2, ProbeIsWithin
  <2> HIDE DEF p, series
  <2>3. ASSUME peak(p)  PROVE IsPivot(series, p, k, Right)
    <3>1. ASSUME NEW i \in 1..Left  PROVE high(p - i) <= high(p)
      <4>1. p - i \in p - Left..p + Right /\ p - i < p /\ p - i # p /\ p \in p - Left..p + Right
        BY <2>1
      <4> QED BY <4>1, <2>2, <2>3
    <3>2. ASSUME NEW i \in 1..Right  PROVE high(p + i) < high(p)
      <4>1. p + i \in p - Left..p + Right /\ ~(p + i < p) /\ p + i # p
        BY <2>1
      <4> QED BY <4>1, <2>3
    <3> QED BY <3>1, <3>2 DEF IsPivot
  <2>4. ASSUME IsPivot(series, p, k, Right)  PROVE peak(p)
    <3> SUFFICES ASSUME NEW q \in p - Left..p + Right, q # p
                 PROVE  high(q) < high(p) \/ (q < p /\ high(q) = high(p))
      OBVIOUS
    <3>1. CASE q < p
      <4>1. p - q \in 1..Left /\ p - (p - q) = q /\ p \in p - Left..p + Right
        BY <2>1, <3>1
      <4>2. high(p - (p - q)) <= high(p)
        BY <4>1, <2>4 DEF IsPivot
      <4>3. high(q) <= high(p) /\ high(q) \in Int /\ high(p) \in Int
        BY <4>1, <4>2, <2>2
      <4> QED BY <3>1, <4>3
    <3>2. CASE q > p
      <4>1. q - p \in 1..Right /\ p + (q - p) = q
        BY <2>1, <3>2
      <4>2. high(p + (q - p)) < high(p)
        BY <4>1, <2>4 DEF IsPivot
      <4> QED BY <4>1, <4>2
    <3> QED BY <3>1, <3>2, <2>1
  <2> QED BY <2>3, <2>4
<1> HIDE DEF peak
<1>5. Left + 1..Len(series) - Right = Left + 1..Len(bars) - Right \union (IF p > Left THEN {p} ELSE {})
  BY <1>1
<1>6. p = Len(series) - Right
  OBVIOUS
<1> HIDE DEF p
<1>7. Peaks(k)' = Peaks(k) \union IF p > Left /\ IsPivot(series, p, k, Right) THEN {p} ELSE {}
  <2>1. CASE p > Left
    BY <2>1, <1>2, <1>3, <1>4, <1>5
  <2>2. CASE ~(p > Left)
    BY <2>2, <1>2, <1>3, <1>5
  <2> QED BY <2>1, <2>2
<1> QED BY <1>6, <1>7 DEF series

LEMMA SwingsStayPeaks ==
  ASSUME StructureInv, NEW bar \in Bars, ConsumeBar(bar), NEW k \in Kinds
  PROVE  SwingsFit(k)'
<1> DEFINE series == With(bar)
           p == Len(series) - Right
           new == Confirmed(series, k) # <<>>
           earlier(r) == {i \in Before(k)' : swings'[i].at < r}
           moved(r, i) == LET d == Extreme(series[r], k) - swings'[i].out
                          IN (IF d < 0 THEN -d ELSE d) >= MinMove * series[r].atr
           counts(r) == MinMove = 0 \/ (r >= AtrWarmup /\ (earlier(r) = {} \/ moved(r, Max(earlier(r)))))
<1>1. /\ bars' = series /\ series \in Seq(Bars) /\ Len(bars) \in Nat /\ Len(series) = Len(bars) + 1
      /\ \A b \in 1..Len(bars) : series[b] = bars[b]
      /\ \A i \in 1..Len(swings) : swings'[i] = swings[i]
  BY SwingsGrow
<1>2. bars \in Seq(Bars) /\ swings \in Seq(Swing) /\ SwingsFit(k)
  BY DEF StructureInv, StructureTypes
<1>3. \A i \in Before(k) : /\ i \in 1..Len(swings) /\ swings'[i] = swings[i]
                           /\ swings[i].at \in Left + 1..Len(bars) - Right
                           /\ swings[i].seen = swings[i].at + Right
                           /\ swings[i].out = Extreme(bars[swings[i].at], k)
  <2>1. \A i \in Before(k) : i \in 1..Len(swings)
    BY <1>2 DEF Before
  <2> QED BY <2>1, <1>1, <1>2 DEF SwingsFit
<1>4. new <=> p > Left /\ IsPivot(series, p, k, Right) /\ Recorded(series, p, k)
  BY <1>2, ConfirmedIs
<1>5. \/ ~new /\ Before(k)' = Before(k)
      \/ /\ new
         /\ \E j : /\ Before(k)' = Before(k) \union {j} /\ j \notin Before(k)
                   /\ swings'[j].at = p /\ swings'[j].seen = Len(series) /\ swings'[j].out = Extreme(series[p], k)
  <2>1. CASE ~new
    BY <2>1, SwingsGrow
  <2>2. CASE new
    <3>1. PICK x \in Swing : Confirmed(series, k) = <<x>> /\ x.at = p /\ x.seen = Len(series)
                             /\ x.out = Extreme(series[p], k)
      BY <2>2, <1>2, ConfirmedIs
    <3>2. PICK j \in 1..Len(swings') :
            j > Len(swings) /\ swings'[j] = Confirmed(series, k)[1] /\ Before(k)' = Before(k) \union {j}
      BY <2>2, SwingsGrow
    <3>3. swings'[j] = x
      BY <3>1, <3>2
    <3>4. j \notin Before(k)
      <4>1. \A i \in Before(k) : i \in 1..Len(swings)
        BY <1>3
      <4>2. Len(swings) \in Nat
        BY <1>2
      <4> QED BY <4>1, <4>2, <3>2
    <3> QED BY <2>2, <3>1, <3>2, <3>3, <3>4
  <2> QED BY <2>1, <2>2
<1>6. p = Len(bars) - Right + 1 /\ p \in Int
  BY <1>1
<1> HIDE DEF new
<1>7. ASSUME NEW r \in Int, r <= p
      PROVE  earlier(r) = Earlier(r, k)
  <2>1. \A i \in Before(k) : i \in Before(k)' /\ swings'[i].at = swings[i].at
    BY <1>3, <1>5
  <2>2. \A i \in Before(k)' : swings'[i].at < r => i \in Before(k)
    BY <1>5, <1>6, <1>7
  <2> QED BY <2>1, <2>2 DEF Earlier
<1>8. \A r : Counts(r, k)' <=> counts(r)
  BY <1>1 DEF Counts, Earlier, Moved
<1>9. ASSUME NEW r \in Peaks(k)  PROVE counts(r) <=> Counts(r, k)
  <2>1. r \in 1..Len(bars) /\ r <= p /\ r \in Int
    BY <1>1, <1>6 DEF Peaks
  <2>2. earlier(r) = Earlier(r, k) /\ series[r] = bars[r]
    BY <2>1, <1>1, <1>7
  <2>3. Earlier(r, k) # {} => Max(Earlier(r, k)) \in Before(k)
    <3>1. Earlier(r, k) \subseteq Before(k)
      BY DEF Earlier
    <3>2. Earlier(r, k) # {} => Max(Earlier(r, k)) \in Earlier(r, k)
      BY <3>1, <1>2, PreviousIsOne
    <3> QED BY <3>1, <3>2
  <2>4. Earlier(r, k) # {} => swings'[Max(Earlier(r, k))] = swings[Max(Earlier(r, k))]
    BY <2>3, <1>3
  <2> HIDE DEF earlier, series
  <2> QED BY <2>2, <2>4 DEF Counts, Moved
<1>10. ASSUME p > Left  PROVE counts(p) <=> Recorded(series, p, k)
  <2>1. earlier(p) = Earlier(p, k)
    BY <1>6, <1>7
  <2>2. Earlier(p, k) = Before(k)
    BY <1>3, <1>6 DEF Earlier
  <2>3. Before(k) # {} => Max(Before(k)) \in Before(k)
    BY <1>2, PreviousIsOne
  <2>4. Before(k) # {} => swings'[Max(Before(k))] = Previous(k)
    BY <2>3, <1>3 DEF Previous
  <2> HIDE DEF earlier, series, p
  <2>5. counts(p) <=> MinMove = 0 \/ (p >= AtrWarmup /\ (Before(k) = {} \/ moved(p, Max(Before(k)))))
    BY <2>1, <2>2
  <2>6. Before(k) # {} =>
          (moved(p, Max(Before(k))) <=>
             LET move == Extreme(series[p], k) - Previous(k).out
             IN (IF move < 0 THEN -move ELSE move) >= MinMove * series[p].atr)
    BY <2>4
  <2> HIDE DEF counts, moved
  <2> QED BY <2>5, <2>6 DEF Recorded
<1>11. Peaks(k)' = Peaks(k) \union IF p > Left /\ IsPivot(series, p, k, Right) THEN {p} ELSE {}
  BY PeaksGrow
<1> HIDE DEF counts, series, p
<1>12. {r \in Peaks(k)' : counts(r)} = {r \in Peaks(k) : Counts(r, k)} \union (IF new THEN {p} ELSE {})
  BY <1>4, <1>9, <1>10, <1>11
<1>13. {swings'[i].at : i \in Before(k)'} = {swings[i].at : i \in Before(k)} \union (IF new THEN {p} ELSE {})
  <2>1. CASE ~new
    <3>1. Before(k)' = Before(k)
      BY <2>1, <1>5
    <3> QED BY <2>1, <3>1, <1>3
  <2>2. CASE new
    <3>1. PICK j : Before(k)' = Before(k) \union {j} /\ swings'[j].at = p
      BY <2>2, <1>5
    <3> QED BY <2>2, <3>1, <1>3
  <2> QED BY <2>1, <2>2
<1>14. {swings[i].at : i \in Before(k)} = {r \in Peaks(k) : Counts(r, k)}
  BY <1>2 DEF SwingsFit
<1>15. {swings'[i].at : i \in Before(k)'} = {r \in Peaks(k)' : Counts(r, k)'}
  BY <1>8, <1>12, <1>13, <1>14
<1>16. ASSUME NEW i \in Before(k)'
       PROVE  /\ swings'[i].at \in Left + 1..Len(series) - Right /\ swings'[i].seen = swings'[i].at + Right
              /\ swings'[i].out = Extreme(series[swings'[i].at], k)
  <2>1. CASE i \in Before(k)
    <3>1. swings[i].at \in 1..Len(bars)
      BY <2>1, <1>1, <1>3
    <3>2. series[swings[i].at] = bars[swings[i].at] /\ swings'[i] = swings[i]
      BY <2>1, <3>1, <1>1, <1>3
    <3>3. swings[i].at \in Left + 1..Len(series) - Right
      BY <2>1, <1>1, <1>3
    <3> QED BY <2>1, <3>2, <3>3, <1>3
  <2>2. CASE i \notin Before(k)
    <3>1. new /\ swings'[i].at = p /\ swings'[i].seen = Len(series) /\ swings'[i].out = Extreme(series[p], k)
      BY <2>2, <1>5
    <3>2. p \in Left + 1..Len(series) - Right /\ Len(series) = p + Right
      BY <3>1, <1>1, <1>4, <1>6
    <3> QED BY <3>1, <3>2
  <2> QED BY <2>1, <2>2
<1> QED BY <1>1, <1>15, <1>16 DEF SwingsFit

LEMMA StandingStaysNewest ==
  ASSUME StructureInv, NEW bar \in Bars, ConsumeBar(bar), NEW k \in Kinds
  PROVE  StandingFits(k)'
<1> DEFINE series == With(bar)
           s == LevelOf(series, k)
           c == CountOf(series, bar, k)
<1>1. /\ bars' = series /\ series \in Seq(Bars) /\ Len(bars) \in Nat /\ Len(series) = Len(bars) + 1
  BY SwingsGrow
<1>2. /\ standing'[k] = IF IsBroken(series, bar, k) THEN NoSwing ELSE s
      /\ closes'[k] = IF IsBroken(series, bar, k) THEN 0 ELSE c
  BY BarIsConsumed
<1>3. breaks' = Joined(breaks, Broke(series, bar))
  BY BarIsConsumed DEF Joined
<1> SUFFICES ASSUME standing'[k] # NoSwing
             PROVE  /\ Before(k)' # {} /\ standing'[k] = Previous(k)'
                    /\ RunIs(bars', standing'[k], k, closes'[k])
                    /\ VolumeMultiple = 0 => \A b \in standing'[k].seen..Len(bars') :
                                               ClosesRequired \notin RunIn(bars', standing'[k], k, b)
                    /\ \A i \in Of(breaks, k)' : breaks'[i].of # standing'[k]
  BY DEF StandingFits, RunIs, RunIn, BeyondIn
<1>4. ~IsBroken(series, bar, k) /\ s # NoSwing /\ standing'[k] = s /\ closes'[k] = c
  BY <1>2
<1>5. /\ s \in Swing /\ s.seen <= Len(series) /\ c \in Nat
      /\ Before(k)' # {} /\ s = swings'[Max(Before(k)')]
      /\ RunIs(series, s, k, c)
      /\ \A i \in Of(breaks, k) : breaks[i].of # s
  BY <1>4, LevelIsNewest
<1>6. s = Previous(k)'
  BY <1>5 DEF Previous
<1>7. ASSUME VolumeMultiple = 0, NEW b \in s.seen..Len(series), ClosesRequired \in RunIn(series, s, k, b)
      PROVE  FALSE
  <2>1. s.seen \in Nat \ {0}
    BY <1>5 DEF Swing
  <2>2. CASE b = Len(series)
    <3>1. ClosesRequired \in 1..c
      BY <1>1, <1>5, <1>7, <2>1, <2>2, RunIsCounted
    <3>2. Probe(bar, k) > s.out
      <4>1. CountOf(series, bar, k) # 0
        BY <3>1
      <4> QED BY <4>1, <1>4 DEF CountOf, Count
    <3>3. VolumeConfirms(bar)
      BY <1>7 DEF VolumeConfirms
    <3>4. c >= ClosesRequired
      BY <3>1, <1>5
    <3> QED BY <3>2, <3>3, <3>4, <1>4 DEF IsBroken
  <2>3. CASE b # Len(series)
    <3>1. b \in 1..Len(bars) /\ s.seen # Len(series)
      BY <2>1, <2>3, <1>1, <1>5
    <3>2. s = standing[k] /\ standing[k] # NoSwing
      <4>1. bars \in Seq(Bars) /\ swings \in Seq(Swing)
        BY DEF StructureInv, StructureTypes
      <4>2. Confirmed(series, k) # <<>> => \E x \in Swing : Confirmed(series, k) = <<x>> /\ x.seen = Len(series)
        BY <4>1, ConfirmedIs
      <4>3. Confirmed(series, k) = <<>>
        BY <4>2, <3>1 DEF LevelOf
      <4> QED BY <4>3, <1>4 DEF LevelOf
    <3>3. RunIn(series, s, k, b) = RunIn(bars, s, k, b)
      <4>1. bars \in Seq(Bars) /\ series = Append(bars, bar)
        BY DEF StructureInv, StructureTypes, With
      <4> HIDE DEF series, s
      <4> QED BY <4>1, <2>1, <3>1, RunIsLeft
    <3>4. StandingFits(k)
      BY DEF StructureInv
    <3>5. b \in s.seen..Len(bars)
      BY <1>1, <3>1, <2>1
    <3> QED BY <1>7, <3>2, <3>3, <3>4, <3>5 DEF StandingFits
  <2> QED BY <2>2, <2>3
<1>8. ASSUME NEW i \in Of(breaks, k)'  PROVE breaks'[i].of # s
  <2>1. Broke(series, bar)[k] = <<>>
    BY <1>4 DEF Broke
  <2>2. Of(breaks, k)' = Of(breaks, k) /\ \A j \in 1..Len(breaks) : breaks'[j] = breaks[j]
    <3>1. \A l \in Kinds : Single(Break, Broke(series, bar), l)
      BY BreaksAreSingle
    <3>2. breaks \in Seq(Break)
      BY DEF StructureInv, StructureTypes
    <3> DEFINE g == Broke(series, bar)
    <3>3. Of(Joined(breaks, g), k) = Of(breaks, k) /\ \A j \in 1..Len(breaks) : Joined(breaks, g)[j] = breaks[j]
      <4> HIDE DEF g
      <4> QED BY <3>1, <3>2, <2>1, OneOfAKind DEF g
    <3>4. Of(breaks, k)' = Of(Joined(breaks, g), k)
      BY <1>3 DEF Of
    <3> QED BY <3>3, <3>4, <1>3
  <2>3. i \in Of(breaks, k) /\ i \in 1..Len(breaks)
    <3>1. breaks \in Seq(Break)
      BY DEF StructureInv, StructureTypes
    <3> QED BY <3>1, <2>2 DEF Of
  <2> QED BY <2>2, <2>3, <1>5
<1> QED BY <1>1, <1>4, <1>5, <1>6, <1>7, <1>8

LEMMA BreaksStayEarned ==
  ASSUME StructureInv, NEW bar \in Bars, ConsumeBar(bar), NEW k \in Kinds
  PROVE  BreaksFit(k)'
<1> DEFINE series == With(bar)
           s == LevelOf(series, k)
           c == CountOf(series, bar, k)
           g == Broke(series, bar)
           known(n) == {j \in Before(k)' : swings'[j].seen <= n}
           Earned(b) == /\ b.of.seen <= b.at /\ b.at <= Len(series)
                        /\ known(b.at) # {} /\ b.of = swings'[Max(known(b.at))]
                        /\ b.closes >= ClosesRequired
                        /\ b.closes \in RunIn(series, b.of, k, b.at)
                        /\ b.closes + 1 \notin RunIn(series, b.of, k, b.at)
<1>1. /\ bars' = series /\ series \in Seq(Bars) /\ Len(bars) \in Nat /\ Len(series) = Len(bars) + 1
      /\ \A i \in 1..Len(swings) : swings'[i] = swings[i]
  BY SwingsGrow
<1>2. bars \in Seq(Bars) /\ swings \in Seq(Swing) /\ breaks \in Seq(Break) /\ SwingsFit(k) /\ BreaksFit(k)
      /\ series = Append(bars, bar)
  BY DEF StructureInv, StructureTypes, With
<1>3. breaks' = Joined(breaks, g)
  BY BarIsConsumed DEF Joined
<1>4. \A l \in Kinds : Single(Break, g, l)
  BY BreaksAreSingle
<1> HIDE DEF g
<1>5. /\ \A i \in 1..Len(breaks) : breaks'[i] = breaks[i]
      /\ g[k] = <<>> => Of(breaks', k) = Of(breaks, k)
      /\ g[k] # <<>> => \E j \in 1..Len(breaks') :
           j > Len(breaks) /\ breaks'[j] = g[k][1] /\ Of(breaks', k) = Of(breaks, k) \union {j}
  <2> DEFINE t == Joined(breaks, g)
  <2>1. /\ \A i \in 1..Len(breaks) : t[i] = breaks[i]
        /\ g[k] = <<>> => Of(t, k) = Of(breaks, k)
        /\ g[k] # <<>> => \E j \in 1..Len(t) :
             j > Len(breaks) /\ t[j] = g[k][1] /\ t[j] \in Break /\ t[j].kind = k
             /\ Of(t, k) = Of(breaks, k) \union {j}
    <3>1. breaks \in Seq(Break)
      BY <1>2
    <3> HIDE DEF series, s, c, known, Earned
    <3> QED BY <3>1, <1>4, OneOfAKind
  <2>2. breaks' = t
    BY <1>3
  <2> HIDE DEF t
  <2> QED BY <2>1, <2>2
<1>6. \A i \in Of(breaks, k) : i \in 1..Len(breaks) /\ breaks[i] \in Break /\ breaks'[i] = breaks[i]
  BY <1>2, <1>5 DEF Of
<1>7. ASSUME NEW i \in Before(k)
      PROVE  i \in 1..Len(swings) /\ i \in Before(k)' /\ swings'[i] = swings[i] /\ swings[i].seen \in 1..Len(bars)
  <2>1. i \in 1..Len(swings)
    BY <1>2 DEF Before
  <2>2. swings[i].at \in Left + 1..Len(bars) - Right /\ swings[i].seen = swings[i].at + Right
    BY <1>2 DEF SwingsFit
  <2>3. i \in Before(k)'
    BY SwingsGrow
  <2> QED BY <2>1, <2>2, <2>3, <1>1
<1>8. ASSUME NEW i \in Before(k)', i \notin Before(k)  PROVE swings'[i].seen = Len(series)
  <2>1. Confirmed(series, k) # <<>>
    BY <1>8, SwingsGrow
  <2>2. PICK x \in Swing : Confirmed(series, k) = <<x>> /\ x.seen = Len(series)
    BY <2>1, <1>2, ConfirmedIs
  <2>3. PICK j \in 1..Len(swings') : swings'[j] = Confirmed(series, k)[1] /\ Before(k)' = Before(k) \union {j}
    BY <2>1, SwingsGrow
  <2> QED BY <2>2, <2>3, <1>8
<1>9. ASSUME NEW n \in Nat, n <= Len(bars)  PROVE known(n) = KnownBy(k, n)
  <2>1. \A i \in known(n) : i \in Before(k)
    BY <1>8, <1>9, <1>1
  <2> QED BY <2>1, <1>7 DEF KnownBy
<1>10. ASSUME NEW i \in Of(breaks, k)  PROVE Earned(breaks[i])
  <2> DEFINE b == breaks[i]
  <2>1. /\ b.of.seen <= b.at /\ b.at <= Len(bars)
        /\ KnownBy(k, b.at) # {} /\ b.of = swings[Max(KnownBy(k, b.at))]
        /\ b.closes >= ClosesRequired
        /\ b.closes \in RunIn(bars, b.of, k, b.at) /\ b.closes + 1 \notin RunIn(bars, b.of, k, b.at)
    BY <1>2 DEF BreaksFit
  <2>2. b.at \in Nat \ {0} /\ b.of.seen \in Nat \ {0}
    BY <1>6 DEF Break, Swing
  <2>3. known(b.at) = KnownBy(k, b.at)
    BY <2>1, <2>2, <1>9
  <2>4. Max(KnownBy(k, b.at)) \in Before(k)
    <3>1. KnownBy(k, b.at) \subseteq Before(k)
      BY DEF KnownBy
    <3>2. Max(KnownBy(k, b.at)) \in KnownBy(k, b.at)
      BY <3>1, <2>1, <1>2, PreviousIsOne
    <3> QED BY <3>1, <3>2
  <2>5. swings'[Max(KnownBy(k, b.at))] = swings[Max(KnownBy(k, b.at))]
    BY <2>4, <1>7
  <2>6. RunIn(series, b.of, k, b.at) = RunIn(bars, b.of, k, b.at)
    <3>1. b.at \in 1..Len(bars)
      BY <2>1, <2>2, <1>1
    <3> HIDE DEF series, b
    <3> QED BY <3>1, <2>2, <1>2, RunIsLeft
  <2>7. b.at <= Len(series)
    BY <2>1, <2>2, <1>1
  <2> HIDE DEF b, known, series
  <2>8. Earned(b)
    BY <2>1, <2>3, <2>5, <2>6, <2>7
  <2> QED BY <2>8 DEF b
<1>11. ASSUME g[k] # <<>>
       PROVE  Earned(g[k][1]) /\ g[k][1].of = s /\ \A i \in Of(breaks, k) : breaks[i].of # s
  <2>1. IsBroken(series, bar, k) /\ g[k] = <<BreakOf(series, bar, k)>>
    BY <1>11 DEF Broke, g
  <2>2. /\ s \in Swing /\ s.seen <= Len(series) /\ c \in Nat
        /\ Before(k)' # {} /\ s = swings'[Max(Before(k)')]
        /\ RunIs(series, s, k, c)
        /\ \A i \in Of(breaks, k) : breaks[i].of # s
    BY <2>1, LevelIsNewest DEF IsBroken
  <2> DEFINE b == BreakOf(series, bar, k)
  <2>3. b.of = s /\ b.at = Len(series) /\ b.closes = c /\ c >= ClosesRequired
    BY <2>1 DEF BreakOf, IsBroken
  <2>4. known(Len(series)) = Before(k)'
    <3>1. \A i \in Before(k)' : swings'[i].seen <= Len(series)
      BY <1>1, <1>7, <1>8
    <3> QED BY <3>1
  <2>5. c \in 1..c /\ c + 1 \notin 1..c /\ c + 1 \in Nat
    BY <2>2, <2>3
  <2>6. s.seen \in Nat
    BY <2>2 DEF Swing
  <2>7. c \in RunIn(series, s, k, Len(series)) /\ c + 1 \notin RunIn(series, s, k, Len(series))
    BY <2>2, <2>5, <2>6, <1>1, RunIsCounted
  <2>8. Len(series) <= Len(series)
    BY <1>1
  <2> HIDE DEF b, s, c, known, series
  <2>9. Earned(b)
    BY <2>2, <2>3, <2>4, <2>7, <2>8
  <2>10. g[k][1] = b
    BY <2>1 DEF b
  <2> QED BY <2>2, <2>3, <2>9, <2>10
<1>12. \A i, j \in Of(breaks, k) : breaks[j].of = breaks[i].of => i = j
  BY <1>2 DEF BreaksFit
<1> HIDE DEF s, Earned
<1>13. ASSUME NEW i \in Of(breaks', k)
       PROVE  Earned(breaks'[i]) /\ \A j \in Of(breaks', k) : breaks'[j].of = breaks'[i].of => i = j
  <2>1. CASE g[k] = <<>>
    BY <2>1, <1>5, <1>6, <1>10, <1>12
  <2>2. CASE g[k] # <<>>
    <3>1. PICK l \in 1..Len(breaks') :
            l > Len(breaks) /\ breaks'[l] = g[k][1] /\ Of(breaks', k) = Of(breaks, k) \union {l}
      BY <2>2, <1>5
    <3>2. Earned(breaks'[i])
      BY <2>2, <3>1, <1>6, <1>10, <1>11
    <3>3. ASSUME NEW j \in Of(breaks', k), breaks'[j].of = breaks'[i].of  PROVE i = j
      <4>1. breaks'[l].of = s /\ \A m \in Of(breaks, k) : breaks'[m].of # s
        BY <2>2, <3>1, <1>6, <1>11
      <4>2. i = l \/ i \in Of(breaks, k)
        BY <3>1
      <4>3. j = l \/ j \in Of(breaks, k)
        BY <3>1
      <4> QED BY <4>1, <4>2, <4>3, <3>3, <1>6, <1>12
    <3> QED BY <3>2, <3>3
  <2> QED BY <2>1, <2>2
<1> HIDE DEF series
<1>14. \A n : KnownBy(k, n)' = known(n)
  BY DEF KnownBy
<1>15. Of(breaks, k)' = Of(breaks', k)
  BY DEF Of
<1>16. \A x, n : RunIn(bars, x, k, n)' = RunIn(series, x, k, n)
  BY <1>1 DEF RunIn, BeyondIn
<1> HIDE DEF known
<1>17. ASSUME NEW i \in Of(breaks', k)
       PROVE  LET b == breaks'[i] IN
              /\ b.of.seen <= b.at /\ b.at <= Len(bars')
              /\ known(b.at) # {} /\ b.of = swings'[Max(known(b.at))]
              /\ b.closes >= ClosesRequired
              /\ b.closes \in RunIn(series, b.of, k, b.at) /\ b.closes + 1 \notin RunIn(series, b.of, k, b.at)
              /\ \A j \in Of(breaks', k) : breaks'[j].of = b.of => i = j
  BY <1>1, <1>13 DEF Earned
<1> QED BY <1>14, <1>15, <1>16, <1>17 DEF BreaksFit

LEMMA StructureIsKept == StructureInv /\ [StructureNext]_svars => StructureInv'
<1> SUFFICES ASSUME StructureInv, [StructureNext]_svars  PROVE StructureInv'
  OBVIOUS
<1>1. CASE StructureNext
  <2>1. PICK bar \in Bars : ConsumeBar(bar)
    BY <1>1 DEF StructureNext
  <2>2. StructureTypes'
    BY <2>1, TypesAreKept
  <2>3. \A k \in Kinds : SwingsFit(k)' /\ StandingFits(k)' /\ BreaksFit(k)'
    BY <2>1, SwingsStayPeaks, StandingStaysNewest, BreaksStayEarned
  <2> QED BY <2>2, <2>3 DEF StructureInv
<1>2. CASE UNCHANGED svars
  <2>1. UNCHANGED <<bars, swings, standing, closes, breaks>>
    BY <1>2 DEF svars
  <2>2. StructureTypes'
    BY <2>1 DEF StructureInv, StructureTypes
  <2>3. ASSUME NEW k \in Kinds  PROVE SwingsFit(k)' /\ StandingFits(k)' /\ BreaksFit(k)'
    <3>1. SwingsFit(k) /\ StandingFits(k) /\ BreaksFit(k)
      BY DEF StructureInv
    <3>0. /\ Before(k)' = Before(k) /\ Peaks(k)' = Peaks(k) /\ Of(breaks, k)' = Of(breaks, k)
          /\ \A n : KnownBy(k, n)' = KnownBy(k, n)
          /\ \A r : Earlier(r, k)' = Earlier(r, k)
      BY <2>1 DEF Before, Peaks, Of, KnownBy, Earlier
    <3>5. \A r : Counts(r, k)' <=> Counts(r, k)
      BY <2>1, <3>0 DEF Counts, Moved
    <3>6. \A x, n : RunIn(bars, x, k, n)' = RunIn(bars, x, k, n)
      BY <2>1 DEF RunIn, BeyondIn
    <3>2. SwingsFit(k)'
      BY <2>1, <3>0, <3>1, <3>5 DEF SwingsFit
    <3>3. StandingFits(k)'
      BY <2>1, <3>1 DEF StandingFits, Before, Previous, RunIs, RunIn, BeyondIn, Of
    <3>4. BreaksFit(k)'
      BY <2>1, <3>0, <3>1, <3>6 DEF BreaksFit
    <3> QED BY <3>2, <3>3, <3>4
  <2> QED BY <2>2, <2>3 DEF StructureInv
<1> QED BY <1>1, <1>2

(***************************************************************************)
(* The swings of any series are its peaks, each known as late as it must   *)
(* be, and a break is of the newest swing, by a run of bars beyond it, and *)
(* once (core/structure/engine.py).                                        *)
(***************************************************************************)
THEOREM StructureIsOfTheSeries == StructureSpec => []StructureIsTrue
<1> QED BY StructureBegins, StructureIsKept, StructureInvIsTrue, PTL DEF StructureSpec
=============================================================================
