------------------------ MODULE OptionsSessionProofs -------------------------
(***************************************************************************)
(* Theorems about the options agent, for any number of days, slots,        *)
(* spreads and exits.  The first part holds whatever fails.  TypeOK is     *)
(* inductive.  On top of it, DecisionInv says where the cycle ids of the   *)
(* journal stand against the slot in progress, which is why no id is       *)
(* written twice; EvidenceInv that a record is borne out by the broker     *)
(* from the moment the process makes it; LatchLoaded that a session knows  *)
(* the kill switch on disk.                                                *)
(*                                                                         *)
(* The second part is of its orders: the agent implements DecisionLog,     *)
(* whatever fails; and where the door answers truthfully and nothing kills *)
(* a session it opens at most one spread a day and never closes a leg more *)
(* often than it opened it.  IntentInv says which cycle ids are entries.   *)
(* OrdersRecorded says that the records of the agent, written or about to  *)
(* be, are all of the orders at the broker; TodayBlocks that a slot which  *)
(* may enter has seen today's entry; ClosesInv that the exits a gather has *)
(* still to send fit in what is open.                                      *)
(***************************************************************************)
EXTENDS OptionsSessionProps, FiniteSetTheorems, TLAPS

USE SessionAssumption

\* There are finitely many cycle ids, so the book has a size.
LEMMA IdsFinite == IsFiniteSet(Ids)
<1>1. Days * SlotsPerDay \in Int /\ MaxExits \in Int
  OBVIOUS
<1>2. IsFiniteSet(Slots) /\ IsFiniteSet(0..MaxExits)
  BY <1>1, FS_Interval DEF Slots
<1> QED BY <1>2, FS_Product DEF Ids

\* A function with one more argument, or one fewer, maps ids to R.
LEMMA WithType ==
  ASSUME NEW f, NEW R, MapsIds(f, R), NEW c \in Ids, NEW x \in R
  PROVE  /\ MapsIds(With(f, c, x), R)
         /\ DOMAIN With(f, c, x) = DOMAIN f \union {c}
         /\ With(f, c, x)[c] = x
         /\ \A d \in DOMAIN f \ {c} : With(f, c, x)[d] = f[d]
BY DEF With, MapsIds

LEMMA WithoutType ==
  ASSUME NEW f, NEW R, MapsIds(f, R), NEW c
  PROVE  /\ MapsIds(Without(f, c), R)
         /\ DOMAIN Without(f, c) = DOMAIN f \ {c}
         /\ \A d \in DOMAIN f \ {c} : Without(f, c)[d] = f[d]
BY DEF Without, MapsIds

LEMMA NothingType == \A R : MapsIds(Nothing, R) /\ DOMAIN Nothing = {}
BY DEF Nothing, MapsIds

\* What a call at the door may come to.
LEMMA OutcomesType ==
  ASSUME NEW c, NEW out \in Outcomes(c)
  PROVE  /\ out.stage \in {"filled", "submitted", "rejected", "breached"}
         /\ out.shape \in Shapes \union {NoOrder}
         /\ AtBroker(c) => out.shape = NoOrder /\ out.stage = "rejected"
         /\ out.stage \in {"submitted", "breached"} => out.shape.status = "working"
         /\ out.stage = "filled" => out.shape.status = "filled"
BY DEF Outcomes, Outcome, Shape, NoOrder, Shapes, Live, Terminal

LEMMA BlankType == Blank \in MemoryType
BY DEF Blank, MemoryType

LEMMA OffType == Off \in AgentType
BY DEF Off, AgentType

\* The slots are 1, 2, ... up to a natural number, and the clock's type.
LEMMA SlotFacts ==
  /\ Days * SlotsPerDay \in Nat
  /\ Slots = {s \in Nat : 1 <= s /\ s <= Days * SlotsPerDay}
  /\ 0..(Days * SlotsPerDay) = Slots \union {0}
<1>1. Days * SlotsPerDay \in Nat
  OBVIOUS
<1> DEFINE N == Days * SlotsPerDay
<1> HIDE DEF N
<1>2. 1..N = {s \in Nat : 1 <= s /\ s <= N} /\ 0..N = (1..N) \union {0}
  BY <1>1 DEF N
<1> QED BY <1>1, <1>2 DEF N, Slots

-----------------------------------------------------------------------------
LEMMA TypeInit == Init => TypeOK
<1> SUFFICES ASSUME Init PROVE TypeOK
  OBVIOUS
<1>1. now \in 0..(Days * SlotsPerDay)
  BY SlotFacts DEF Init
<1>2. MapsIds(unrecorded, Record) /\ MapsIds(journal, Record) /\ MapsIds(orders, Order)
  BY NothingType DEF Init, MapsIds
<1> QED BY <1>1, <1>2, OffType, BlankType DEF TypeOK, Init

LEMMA GoOnType ==
  ASSUME TypeOK, NEW e \in Nat, GoOn(e)
  PROVE  agent' \in AgentType /\ memory' \in MemoryType /\ MapsIds(unrecorded', Record)
<1>1. agent' \in AgentType
  BY OffType DEF GoOn, TypeOK, AgentType
<1> QED BY <1>1, BlankType, NothingType DEF GoOn, Forget, MemoryType

LEMMA ResumeType ==
  ASSUME TypeOK, Resume
  PROVE  agent' \in AgentType /\ memory' \in MemoryType /\ MapsIds(unrecorded', Record)
<1>1. agent' \in AgentType
  BY OffType DEF Resume, TypeOK, AgentType
<1> QED BY <1>1, BlankType, NothingType DEF Resume, Forget, MemoryType

LEMMA SendType ==
  ASSUME TypeOK, NEW c \in Ids, NEW i \in Intent, NEW s \in Structures, Send(c, i, s)
  PROVE  /\ MapsIds(orders', Order) /\ MapsIds(unrecorded', Record)
         /\ DOMAIN unrecorded' = DOMAIN unrecorded \union {c}
<1>1. PICK out \in Outcomes(c) :
        Leaves(c, i, s, out) /\ unrecorded' = With(unrecorded, c, NewRecord(i, s, out.stage))
  BY DEF Send
<1>2. NewRecord(i, s, out.stage) \in Record
  BY OutcomesType DEF NewRecord, Record, Stages, NoOutcome
<1>3. MapsIds(unrecorded', Record) /\ DOMAIN unrecorded' = DOMAIN unrecorded \union {c}
  BY <1>1, <1>2, WithType DEF TypeOK
<1>4. CASE out.shape = NoOrder
  BY <1>1, <1>3, <1>4 DEF Leaves, TypeOK
<1>5. CASE out.shape # NoOrder
  <2>1. out.shape \in Shapes
    BY <1>5, OutcomesType
  <2>2. [intent |-> i, structure |-> s, status |-> out.shape.status, legs |-> out.shape.legs] \in Order
    BY <2>1 DEF Order, Shapes
  <2>3. orders' = With(orders, c, [intent |-> i, structure |-> s,
                                   status |-> out.shape.status, legs |-> out.shape.legs])
    BY <1>1, <1>5 DEF Leaves
  <2>4. MapsIds(orders', Order)
    BY <2>2, <2>3, WithType DEF TypeOK
  <2> QED BY <1>3, <2>4
<1> QED BY <1>4, <1>5

LEMMA BecomesType ==
  ASSUME TypeOK, NEW c \in DOMAIN orders, NEW x \in Shapes, Becomes(c, x)
  PROVE  MapsIds(orders', Order)
<1>1. DOMAIN orders' = DOMAIN orders
  BY DEF Becomes
<1>2. \A d \in DOMAIN orders \ {c} : orders'[d] = orders[d]
  BY DEF Becomes
<1>3. orders'[c] = [orders[c] EXCEPT !.status = x.status, !.legs = x.legs]
  BY DEF Becomes
<1>4. orders[c] \in Order
  BY DEF TypeOK, MapsIds
<1>5. orders'[c].status = x.status /\ orders'[c].legs = x.legs
  BY <1>3, <1>4 DEF Order
<1>6. orders'[c] \in Order
  BY <1>3, <1>4, <1>5 DEF Order, Shapes
<1> QED BY <1>1, <1>2, <1>6 DEF TypeOK, MapsIds

-----------------------------------------------------------------------------
\* Only a session that is off has no slot; one that has entered has its record.
RunningSlot ==
  /\ agent.pc # "off" => agent.slot \in Slots
  /\ agent.pc = "entered" => EntryId(agent.slot) \in DOMAIN unrecorded
TypeInv == TypeOK /\ RunningSlot

\* The ids a slot mints are cycle ids.
LEMMA MintedIds ==
  ASSUME NEW s \in Slots, NEW n \in 0..MaxExits
  PROVE  ExitId(s, n) \in Ids /\ EntryId(s) \in Ids
BY DEF ExitId, EntryId, Ids

LEMMA BookSize == ASSUME TypeOK PROVE Cardinality(Book) \in Nat
<1>1. Book \subseteq Ids
  BY DEF Book, Held, FilledRecords, TypeOK, MapsIds
<1> QED BY <1>1, IdsFinite, FS_Subset, FS_CardinalityType

LEMMA GoOnRuns == ASSUME TypeInv, NEW e, GoOn(e) PROVE RunningSlot'
BY DEF GoOn, RunningSlot, TypeInv, TypeOK, AgentType, Off

LEMMA ResumeRuns == ASSUME TypeInv, Resume PROVE RunningSlot'
BY DEF Resume, RunningSlot, Off

LEMMA MemoryUpdates ==
  ASSUME NEW m \in MemoryType, NEW T \in SUBSET Position, NEW n \in Nat, NEW b \in BOOLEAN
  PROVE  /\ [m EXCEPT !.todo = T, !.open = n, !.capped = b] \in MemoryType
         /\ [m EXCEPT !.todo = T, !.offset = n] \in MemoryType
BY DEF MemoryType

\* The part of a step that is the agent's.
LEMMA AgentTypeStep == ASSUME TypeInv, AgentStep PROVE TypeInv'
<1> USE DEF TypeInv
<1>1. CASE ReadBook
  <2>1. agent' \in AgentType /\ RunningSlot'
    BY <1>1 DEF ReadBook, Due, TypeOK, AgentType, RunningSlot
  <2>2. Managed \subseteq Position
    BY DEF Managed
  <2>3. memory' \in MemoryType
    <3> DEFINE cap == Cardinality(FillsOn(Day(agent.slot))) >= DailyCap
               n == Cardinality(Book)
    <3>1. cap \in BOOLEAN
      OBVIOUS
    <3>2. n \in Nat
      BY BookSize
    <3>3. memory' = [Blank EXCEPT !.todo = Managed, !.open = n, !.capped = cap]
      BY <1>1 DEF ReadBook
    <3> HIDE DEF cap, n
    <3> QED BY <2>2, <3>1, <3>2, <3>3, BlankType, MemoryUpdates
  <2> QED BY <1>1, <2>1, <2>3 DEF ReadBook, TypeOK
<1>2. CASE GatherFails
  <2>1. agent.errors + 1 \in Nat
    BY DEF TypeOK, AgentType
  <2>2. Resume \/ GoOn(agent.errors + 1)
    BY <1>2 DEF GatherFails
  <2>3. agent' \in AgentType /\ memory' \in MemoryType /\ MapsIds(unrecorded', Record) /\ RunningSlot'
    BY <2>1, <2>2, GoOnType, ResumeType, GoOnRuns, ResumeRuns
  <2> QED BY <1>2, <2>3 DEF GatherFails, TypeOK
<1>3. ASSUME NEW p, PassExit(p) PROVE memory' \in MemoryType
  <2>1. memory.todo \ {p} \in SUBSET Position /\ memory.offset + 1 \in Nat
    BY DEF TypeOK, MemoryType
  <2> QED BY <1>3, <2>1, MemoryUpdates DEF PassExit, TypeOK
<1>4. CASE HoldPosition
  <2>1. memory' \in MemoryType
    BY <1>3, <1>4 DEF HoldPosition
  <2> QED BY <1>4, <2>1 DEF HoldPosition, TypeOK, RunningSlot
<1>5. CASE SubmitExit
  <2>1. PICK p \in memory.todo :
          Send(ExitId(agent.slot, memory.offset), "close", p.structure) /\ PassExit(p)
    BY <1>5 DEF SubmitExit
  <2>2. memory' \in MemoryType
    BY <1>3, <2>1
  <2>3. p.structure \in Structures
    BY <2>1 DEF TypeOK, MemoryType, Position
  <2>4. memory.offset \in 0..MaxExits /\ agent.slot \in Slots
    BY <1>5 DEF SubmitExit, TypeOK, MemoryType, RunningSlot
  <2>5. MapsIds(orders', Order) /\ MapsIds(unrecorded', Record)
    BY <2>1, <2>3, <2>4, MintedIds, SendType DEF Intent
  <2> QED BY <1>5, <2>2, <2>5 DEF SubmitExit, TypeOK, RunningSlot
<1>6. CASE FinishGather
  <2>1. Unresolved(Day(agent.slot)) \subseteq Ids
    BY DEF Unresolved, TypeOK, MapsIds
  <2>2. EntryRefused(Day(agent.slot)) \in BOOLEAN
    BY DEF EntryRefused
  <2>3. memory' \in MemoryType
    BY <1>6, <2>1, <2>2 DEF FinishGather, TypeOK, MemoryType
  <2>4. agent' \in AgentType /\ RunningSlot'
    BY <1>6 DEF FinishGather, TypeOK, AgentType, RunningSlot
  <2> QED BY <1>6, <2>3, <2>4 DEF FinishGather, TypeOK
<1>7. ASSUME NEW c, Asking(c) PROVE memory' \in MemoryType
  BY <1>7 DEF Asking, TypeOK, MemoryType
<1>8. CASE ReadBack
  <2>1. PICK c \in memory.asked : Asking(c) /\ AtBroker(c)
                 /\ journal' = [journal EXCEPT ![c].outcome = ShapeOf(orders[c])]
    BY <1>8 DEF ReadBack
  <2>2. orders[c] \in Order
    BY <2>1 DEF AtBroker, TypeOK, MapsIds
  <2>3. ShapeOf(orders[c]) \in Shapes
    BY <2>2 DEF ShapeOf, Order
  <2>4. MapsIds(journal', Record)
    <3>1. DOMAIN journal' = DOMAIN journal /\ \A d \in DOMAIN journal \ {c} : journal'[d] = journal[d]
      BY <2>1
    <3>2. ASSUME c \in DOMAIN journal PROVE journal'[c] \in Record
      <4>1. journal'[c] = [journal[c] EXCEPT !.outcome = ShapeOf(orders[c])]
        BY <2>1, <3>2
      <4>2. journal[c] \in Record
        BY <3>2 DEF TypeOK, MapsIds
      <4> QED BY <2>3, <4>1, <4>2 DEF Record
    <3> QED BY <3>1, <3>2 DEF TypeOK, MapsIds
  <2>5. memory' \in MemoryType
    BY <1>7, <2>1
  <2> QED BY <1>8, <2>4, <2>5 DEF ReadBack, TypeOK, RunningSlot
<1>9. CASE ReadBackFails
  <2>1. memory' \in MemoryType
    BY <1>7, <1>9 DEF ReadBackFails
  <2> QED BY <1>9, <2>1 DEF ReadBackFails, TypeOK, RunningSlot
<1>10. CASE RecordExit
  <2>1. PICK c \in DOMAIN unrecorded :
          /\ Append(c, unrecorded[c])
          /\ unrecorded' = Without(unrecorded, c)
          /\ memory' = [memory EXCEPT !.breached = @ \/ unrecorded[c].stage = "breached"]
    BY <1>10 DEF RecordExit
  <2>2. c \in Ids /\ unrecorded[c] \in Record
    BY <2>1 DEF TypeOK, MapsIds
  <2>3. MapsIds(journal', Record) /\ MapsIds(unrecorded', Record)
    BY <2>1, <2>2, WithType, WithoutType DEF Append, TypeOK
  <2>4. memory' \in MemoryType
    BY <2>1 DEF TypeOK, MemoryType
  <2> QED BY <1>10, <2>3, <2>4 DEF RecordExit, TypeOK, RunningSlot
<1>11. ASSUME Stop, agent.pc # "off"
       PROVE  /\ agent' \in AgentType /\ RunningSlot'
              /\ memory' \in MemoryType /\ MapsIds(unrecorded', Record)
  BY <1>11, BlankType, NothingType DEF Stop, Forget, TypeOK, AgentType, RunningSlot
<1>12. CASE StopAfterExits
  BY <1>11, <1>12 DEF StopAfterExits, ExitsDone, TypeOK
<1>13. CASE SkipEntry
  BY <1>13, GoOnType, GoOnRuns DEF SkipEntry, TypeOK
<1>14. ASSUME agent.pc # "off", NEW r \in Record, Append(EntryId(agent.slot), r)
       PROVE  MapsIds(journal', Record)
  <2>1. EntryId(agent.slot) \in Ids
    BY <1>14, MintedIds DEF RunningSlot
  <2> QED BY <1>14, <2>1, WithType DEF Append, TypeOK
<1>15. CASE NoTrade
  <2>1. NoTradeRecord \in Record
    BY DEF NoTradeRecord, NewRecord, Record, Intent, Stages
  <2>2. MapsIds(journal', Record)
    BY <1>14, <1>15, <2>1 DEF NoTrade, MayEnter, ExitsDone
  <2> QED BY <1>15, <2>2, GoOnType, GoOnRuns DEF NoTrade, TypeOK
<1>16. CASE Enter
  <2>1. PICK s \in Structures : Send(EntryId(agent.slot), "open", s)
    BY <1>16 DEF Enter
  <2>2. /\ MapsIds(orders', Order) /\ MapsIds(unrecorded', Record)
        /\ EntryId(agent.slot) \in DOMAIN unrecorded'
    <3>1. agent.slot \in Slots
      BY <1>16 DEF Enter, MayEnter, ExitsDone, RunningSlot
    <3>2. EntryId(agent.slot) \in Ids
      BY <3>1, MintedIds
    <3> QED BY <2>1, <3>2, SendType DEF Intent
  <2>3. agent' \in AgentType /\ RunningSlot'
    BY <1>16, <2>2 DEF Enter, MayEnter, ExitsDone, TypeOK, AgentType, RunningSlot
  <2> QED BY <1>16, <2>2, <2>3 DEF Enter, TypeOK
<1>17. CASE RecordEntry
  <2>1. unrecorded[EntryId(agent.slot)] \in Record
    BY <1>17 DEF RecordEntry, TypeOK, MapsIds, RunningSlot
  <2>2. MapsIds(journal', Record)
    BY <1>14, <1>17, <2>1 DEF RecordEntry
  <2>3. Stop \/ GoOn(0)
    BY <1>17 DEF RecordEntry
  <2> QED BY <1>11, <1>17, <2>2, <2>3, GoOnType, GoOnRuns DEF RecordEntry, TypeOK
<1>18. CASE Latch
  BY <1>18, OffType DEF Latch, TypeOK, RunningSlot, Off
<1> QED BY <1>1, <1>2, <1>4, <1>5, <1>6, <1>8, <1>9, <1>10, <1>12, <1>13, <1>15, <1>16, <1>17, <1>18
        DEF AgentStep

LEMMA OthersTypeStep ==
  ASSUME TypeInv, Start \/ Tick \/ Death \/ BrokerStep \/ NightStep
  PROVE  TypeInv'
<1> USE DEF TypeInv
<1>1. CASE Start
  <2>1. agent' \in AgentType /\ RunningSlot'
    BY <1>1 DEF Start, TypeOK, AgentType, RunningSlot
  <2> QED BY <1>1, <2>1 DEF Start, TypeOK
<1>2. CASE Tick
  BY <1>2, SlotFacts DEF Tick, TypeOK, RunningSlot
<1>3. CASE SessionDies
  BY <1>3, ResumeType, ResumeRuns DEF SessionDies, TypeOK
<1>4. CASE ProcessDies
  BY <1>4, OffType, BlankType, NothingType DEF ProcessDies, Forget, TypeOK, RunningSlot, Off
<1>5. ASSUME NEW c \in DOMAIN orders, NEW x \in Shapes, Becomes(c, x) PROVE TypeInv'
  BY <1>5, BecomesType DEF Becomes, TypeOK, RunningSlot
<1>6. ASSUME NEW c \in DOMAIN orders, Arrives(c) PROVE TypeInv'
  <2>1. Shape("working", 0) \in Shapes
    BY DEF Shape, Shapes, Live, Terminal
  <2> QED BY <1>5, <1>6, <2>1 DEF Arrives
<1>7. ASSUME NEW c \in DOMAIN orders, Vanishes(c) PROVE TypeInv'
  <2>1. MapsIds(orders', Order)
    BY <1>7, WithoutType DEF Vanishes, TypeOK
  <2> QED BY <1>7, <2>1 DEF Vanishes, TypeOK, RunningSlot
<1>8. ASSUME NEW c \in DOMAIN orders, Moves(c) PROVE TypeInv'
  BY <1>5, <1>8 DEF Moves
<1>9. ASSUME NEW c \in DOMAIN orders, Expires(c) PROVE TypeInv'
  <2>1. orders[c] \in Order /\ orders[c].status \in Live
    BY <1>9 DEF Expires, TypeOK, MapsIds
  <2>2. Shape("canceled", orders[c].legs) \in Shapes
    BY <2>1 DEF Order, Shape, Shapes, Live, Terminal
  <2> QED BY <1>5, <1>9, <2>2 DEF Expires
<1> QED BY <1>1, <1>2, <1>3, <1>4, <1>6, <1>7, <1>8, <1>9 DEF Death, BrokerStep, NightStep

LEMMA TypeInductive == ASSUME TypeInv, [Next]_vars PROVE TypeInv'
<1>1. CASE AgentStep
  BY <1>1, AgentTypeStep
<1>2. CASE Start \/ Tick \/ Death \/ BrokerStep \/ NightStep
  BY <1>2, OthersTypeStep
<1>3. CASE UNCHANGED vars
  BY <1>3 DEF vars, TypeInv, TypeOK, RunningSlot
<1> QED BY <1>1, <1>2, <1>3 DEF Next

\* TypeOK holds, for every value of the constants: among other things a
\* session never restarts more than MaxRestarts times, and every id a slot
\* mints is a cycle id of the calendar.
THEOREM TypeCorrect == Spec => []TypeOK
<1>1. Init => TypeInv
  BY TypeInit DEF Init, Off, TypeInv, RunningSlot
<1>2. TypeInv /\ [Next]_vars => TypeInv'
  BY TypeInductive
<1>3. TypeInv => TypeOK
  BY DEF TypeInv
<1> QED BY <1>1, <1>2, <1>3, PTL DEF Spec

-----------------------------------------------------------------------------
(***************************************************************************)
(* No id is written twice                                                  *)
(***************************************************************************)
\* The journal is behind the slot in progress, and the slot behind the clock,
\* except while it waits for it.
JournalIsBehind ==
  /\ \A c \in DOMAIN journal : c[1] <= now
  /\ agent.pc \in {"waiting", "exiting"} => \A c \in DOMAIN journal : c[1] < agent.slot
  /\ agent.pc \in {"reconciling", "entered"} => \A c \in DOMAIN journal : c[1] <= agent.slot
  /\ agent.pc = "reconciling" => EntryId(agent.slot) \notin DOMAIN journal
  /\ agent.pc \in {"exiting", "reconciling", "entered"} => agent.slot <= now

\* What the process has still to write is of this slot and not in the journal.
RecordsAreNew ==
  /\ \A c \in DOMAIN unrecorded : c[1] = agent.slot /\ c \notin DOMAIN journal
  /\ agent.pc \in {"off", "waiting", "stopping"} => DOMAIN unrecorded = {}
  /\ agent.pc \in {"exiting", "reconciling"} =>
       \A c \in DOMAIN unrecorded : c # EntryId(agent.slot)

\* What the reconciler is about to ask of is in the journal and unsettled.
AskedAreUnsettled ==
  \A c \in memory.asked : c \in DOMAIN journal /\ journal[c].outcome.status \notin Terminal

DecisionInv == JournalIsBehind /\ RecordsAreNew /\ AskedAreUnsettled

(***************************************************************************)
(* Records are borne out by the broker                                     *)
(***************************************************************************)
Has(o, c) == c \in DOMAIN o /\ o[c].status # "flying"

BorneOut(o, c, r) ==
  /\ r.stage \in {"submitted", "breached"} => Has(o, c)
  /\ StageOf(r) = "filled" => c \in DOMAIN o /\ o[c].status = "filled"
  /\ r.outcome.status \in Terminal => c \in DOMAIN o /\ r.outcome = ShapeOf(o[c])

EvidenceInv ==
  /\ \A c \in DOMAIN journal : BorneOut(orders, c, journal[c])
  /\ \A c \in DOMAIN unrecorded :
       BorneOut(orders, c, unrecorded[c]) /\ unrecorded[c].outcome = NoOutcome

(***************************************************************************)
(* The kill switch                                                         *)
(***************************************************************************)
LatchLoaded == latch /\ agent.pc # "off" => agent.latched

Breached == \E c \in DOMAIN journal : journal[c].stage = "breached"

\* Where nothing kills the session, a breach in the journal is on disk or on
\* its way there.
NothingKills == {"dies", "crash"} \intersect Faults = {}

BreachInv ==
  Breached =>
    \/ latch
    \/ agent.pc = "stopping"
    \/ agent.pc = "reconciling" /\ memory.breached

-----------------------------------------------------------------------------
LEMMA IdParts ==
  ASSUME NEW c \in Ids
  PROVE  c[1] \in Nat /\ c[1] \in Slots /\ c[2] \in 0..MaxExits /\ c = <<c[1], c[2]>>
BY SlotFacts DEF Ids

\* The numbers the slot arithmetic is about.
LEMMA Numbers ==
  ASSUME TypeInv
  PROVE  /\ now \in Nat /\ agent.slot \in Nat
         /\ \A c \in DOMAIN journal : c \in Ids /\ c[1] \in Nat
         /\ \A c \in DOMAIN unrecorded : c \in Ids
BY SlotFacts, IdParts DEF TypeInv, TypeOK, AgentType, MapsIds

LEMMA BlankAsks == Blank.asked = {}
BY DEF Blank

\* The journal of the slot so far, and the slot over.
LEMMA SlotOver ==
  ASSUME TypeInv, DecisionInv, NEW e, GoOn(e) \/ Stop, now' = now, agent.slot <= now,
         DOMAIN journal' \subseteq DOMAIN journal \union {EntryId(agent.slot)},
         \A c \in DOMAIN journal : c[1] <= agent.slot
  PROVE  DecisionInv'
<1>1. \A c \in DOMAIN journal' : c[1] <= agent.slot
  <2>1. EntryId(agent.slot)[1] = agent.slot
    BY DEF EntryId
  <2> QED BY <2>1, Numbers
<1>2. /\ DOMAIN unrecorded' = {} /\ memory'.asked = {}
      /\ agent'.pc \in {"waiting", "off", "stopping"}
      /\ agent'.pc = "waiting" => agent'.slot = agent.slot + 1
  <2>1. Forget => DOMAIN unrecorded' = {} /\ memory'.asked = {}
    BY NothingType, BlankAsks DEF Forget
  <2>2. CASE GoOn(e)
    <3>1. CASE agent' = Off
      BY <2>1, <2>2, <3>1 DEF GoOn, Off
    <3>2. CASE agent' = [agent EXCEPT !.pc = "waiting", !.slot = @ + 1, !.errors = e]
      BY <2>1, <2>2, <3>2 DEF GoOn, TypeInv, TypeOK, AgentType
    <3> QED BY <2>2, <3>1, <3>2 DEF GoOn
  <2>3. CASE Stop
    BY <2>1, <2>3 DEF Stop, TypeInv, TypeOK, AgentType
  <2> QED BY <2>2, <2>3
<1>3. \A c \in DOMAIN journal' : c[1] \in Nat
  <2>1. EntryId(agent.slot)[1] = agent.slot
    BY DEF EntryId
  <2> QED BY <2>1, Numbers
<1>4. JournalIsBehind'
  BY <1>1, <1>2, <1>3, Numbers DEF JournalIsBehind
<1> QED BY <1>2, <1>4 DEF DecisionInv, RecordsAreNew, AskedAreUnsettled

\* A session that resumes waits for a slot ahead of the clock.
LEMMA Resumed ==
  ASSUME TypeInv, DecisionInv, Resume, now' = now, journal' = journal
  PROVE  DecisionInv'
<1>1. /\ DOMAIN unrecorded' = {} /\ memory'.asked = {}
      /\ agent'.pc \in {"waiting", "off"}
      /\ agent'.pc = "waiting" => agent'.slot = now + 1
  BY NothingType, BlankAsks DEF Resume, Forget, Off
<1>2. JournalIsBehind'
  BY <1>1, Numbers DEF DecisionInv, JournalIsBehind
<1> QED BY <1>1, <1>2 DEF DecisionInv, RecordsAreNew, AskedAreUnsettled

\* A call at the door adds its record, and nothing else.
LEMMA SendRecords ==
  ASSUME TypeInv, NEW c \in Ids, NEW i, NEW s, Send(c, i, s)
  PROVE  DOMAIN unrecorded' = DOMAIN unrecorded \union {c}
BY DEF Send, With, TypeInv, TypeOK

DecisionStep ==
  \A c \in DOMAIN journal :
    /\ c \in DOMAIN journal'
    /\ journal'[c].stage = journal[c].stage
    /\ journal[c].outcome.status \in Terminal => journal'[c] = journal[c]

LEMMA Appended ==
  ASSUME TypeInv, NEW c \in Ids, NEW r \in Record, Append(c, r), c \notin DOMAIN journal
  PROVE  DecisionStep /\ DOMAIN journal' = DOMAIN journal \union {c}
<1>1. \A d \in DOMAIN journal : d \in DOMAIN journal' /\ journal'[d] = journal[d]
  BY DEF Append, With
<1>2. DOMAIN journal' = DOMAIN journal \union {c}
  BY DEF Append, With
<1> QED BY <1>1, <1>2 DEF DecisionStep

LEMMA DecisionAgentStep ==
  ASSUME TypeInv, DecisionInv, AgentStep
  PROVE  DecisionInv' /\ DecisionStep
<1>0. journal' = journal => DecisionStep
  BY DEF DecisionStep
<1>1. CASE ReadBook
  <2>1. /\ agent'.pc = "exiting" /\ agent'.slot = agent.slot /\ memory'.asked = {}
        /\ agent.pc = "waiting" /\ agent.slot <= now
    BY <1>1 DEF ReadBook, Due, Blank, TypeInv, TypeOK, AgentType
  <2> QED BY <1>0, <1>1, <2>1
          DEF ReadBook, DecisionInv, JournalIsBehind, RecordsAreNew, AskedAreUnsettled
<1>2. CASE GatherFails
  <2>1. \/ GoOn(agent.errors + 1)
        \/ Resume
    BY <1>2 DEF GatherFails
  <2>2. agent.slot <= now /\ \A c \in DOMAIN journal : c[1] <= agent.slot
    BY <1>2, Numbers DEF GatherFails, Due, DecisionInv, JournalIsBehind
  <2> QED BY <1>0, <1>2, <2>1, <2>2, SlotOver, Resumed DEF GatherFails
<1>3. CASE HoldPosition
  <2>1. memory'.asked = memory.asked
    BY <1>3 DEF HoldPosition, PassExit, TypeInv, TypeOK, MemoryType
  <2> QED BY <1>0, <1>3, <2>1
          DEF HoldPosition, DecisionInv, JournalIsBehind, RecordsAreNew, AskedAreUnsettled
<1>4. CASE SubmitExit
  <2> DEFINE c == ExitId(agent.slot, memory.offset)
  <2>1. PICK p : Send(c, "close", p.structure) /\ PassExit(p)
    BY <1>4 DEF SubmitExit
  <2>2. memory'.asked = memory.asked
    BY <2>1 DEF PassExit, TypeInv, TypeOK, MemoryType
  <2>3. agent.slot \in Slots /\ memory.offset \in 0..MaxExits /\ memory.offset < MaxExits
    BY <1>4 DEF SubmitExit, TypeInv, TypeOK, MemoryType, RunningSlot
  <2>4. c \in Ids /\ c[1] = agent.slot /\ c # EntryId(agent.slot)
    <3>1. c \in Ids
      BY <2>3, MintedIds
    <3>2. c = <<agent.slot, memory.offset>> /\ EntryId(agent.slot) = <<agent.slot, MaxExits>>
      BY DEF ExitId, EntryId
    <3>3. memory.offset # MaxExits
      BY <2>3
    <3> QED BY <3>1, <3>2, <3>3
  <2>5. c \notin DOMAIN journal
    BY <1>4, <2>4, Numbers DEF SubmitExit, DecisionInv, JournalIsBehind
  <2>6. DOMAIN unrecorded' = DOMAIN unrecorded \union {c}
    BY <2>1, <2>4, SendRecords
  <2>7. RecordsAreNew'
    BY <1>4, <2>4, <2>5, <2>6 DEF SubmitExit, DecisionInv, RecordsAreNew
  <2> QED BY <1>0, <1>4, <2>2, <2>7 DEF SubmitExit, DecisionInv, JournalIsBehind, AskedAreUnsettled
<1>5. CASE FinishGather
  <2>1. agent'.pc = "reconciling" /\ agent'.slot = agent.slot /\ memory'.asked = Unresolved(Day(agent.slot))
    BY <1>5 DEF FinishGather, TypeInv, TypeOK, AgentType, MemoryType
  <2>2. AskedAreUnsettled'
    BY <1>5, <2>1 DEF FinishGather, AskedAreUnsettled, Unresolved, IsWorking
  <2>3. JournalIsBehind'
    BY <1>5, <2>1, Numbers DEF FinishGather, DecisionInv, JournalIsBehind, EntryId
  <2>4. RecordsAreNew'
    BY <1>5, <2>1 DEF FinishGather, DecisionInv, RecordsAreNew
  <2> QED BY <1>0, <1>5, <2>2, <2>3, <2>4 DEF FinishGather, DecisionInv
<1>6. CASE ReadBack
  <2>1. PICK c \in memory.asked : Asking(c) /\ journal' = [journal EXCEPT ![c].outcome = ShapeOf(orders[c])]
    BY <1>6 DEF ReadBack
  <2>2. /\ memory'.asked = memory.asked \ {c} /\ DOMAIN journal' = DOMAIN journal
        /\ \A d \in DOMAIN journal \ {c} : journal'[d] = journal[d]
    BY <2>1 DEF Asking, TypeInv, TypeOK, MemoryType
  <2>3. c \in DOMAIN journal /\ journal[c].outcome.status \notin Terminal
    BY <2>1 DEF DecisionInv, AskedAreUnsettled
  <2>4. journal'[c].stage = journal[c].stage
    <3>1. journal[c] \in Record
      BY <2>3 DEF TypeInv, TypeOK, MapsIds
    <3>2. journal'[c] = [journal[c] EXCEPT !.outcome = ShapeOf(orders[c])]
      BY <2>1, <2>3
    <3> QED BY <3>1, <3>2 DEF Record
  <2>5. DecisionStep
    BY <2>2, <2>3, <2>4 DEF DecisionStep
  <2>6. AskedAreUnsettled'
    BY <2>2 DEF DecisionInv, AskedAreUnsettled
  <2> QED BY <1>6, <2>2, <2>5, <2>6 DEF ReadBack, DecisionInv, JournalIsBehind, RecordsAreNew
<1>7. CASE ReadBackFails
  <2>1. memory'.asked \subseteq memory.asked
    BY <1>7 DEF ReadBackFails, Asking, TypeInv, TypeOK, MemoryType
  <2> QED BY <1>0, <1>7, <2>1
          DEF ReadBackFails, DecisionInv, JournalIsBehind, RecordsAreNew, AskedAreUnsettled
<1>8. CASE RecordExit
  <2>1. PICK c \in DOMAIN unrecorded :
          /\ Append(c, unrecorded[c])
          /\ unrecorded' = Without(unrecorded, c)
          /\ memory' = [memory EXCEPT !.breached = @ \/ unrecorded[c].stage = "breached"]
    BY <1>8 DEF RecordExit
  <2>2. /\ c \in Ids /\ unrecorded[c] \in Record /\ c[1] = agent.slot
        /\ c \notin DOMAIN journal /\ c # EntryId(agent.slot)
    BY <1>8 DEF RecordExit, DecisionInv, RecordsAreNew, TypeInv, TypeOK, MapsIds
  <2>3. DecisionStep /\ DOMAIN journal' = DOMAIN journal \union {c}
    BY <2>1, <2>2, Appended
  <2>4. DOMAIN unrecorded' = DOMAIN unrecorded \ {c}
    BY <2>1 DEF Without
  <2>5. memory'.asked = memory.asked /\ memory.asked = {}
    BY <1>8, <2>1 DEF RecordExit, TypeInv, TypeOK, MemoryType
  <2>6. JournalIsBehind'
    BY <1>8, <2>2, <2>3, Numbers DEF RecordExit, DecisionInv, JournalIsBehind
  <2>7. RecordsAreNew'
    BY <1>8, <2>3, <2>4 DEF RecordExit, DecisionInv, RecordsAreNew
  <2> QED BY <2>3, <2>5, <2>6, <2>7 DEF DecisionInv, AskedAreUnsettled
<1>9. ASSUME agent.pc = "reconciling"
      PROVE  agent.slot <= now /\ \A c \in DOMAIN journal : c[1] <= agent.slot
  BY <1>9 DEF DecisionInv, JournalIsBehind
<1>10. CASE StopAfterExits
  BY <1>0, <1>9, <1>10, SlotOver DEF StopAfterExits, ExitsDone
<1>11. CASE SkipEntry
  BY <1>0, <1>9, <1>11, SlotOver DEF SkipEntry, ExitsDone
<1>12. CASE NoTrade
  <2>1. EntryId(agent.slot) \in Ids /\ EntryId(agent.slot) \notin DOMAIN journal
    BY <1>12, MintedIds DEF NoTrade, MayEnter, ExitsDone, TypeInv, RunningSlot, DecisionInv, JournalIsBehind
  <2>2. NoTradeRecord \in Record
    BY DEF NoTradeRecord, NewRecord, Record, Intent, Stages
  <2>3. DecisionStep /\ DOMAIN journal' = DOMAIN journal \union {EntryId(agent.slot)}
    BY <1>12, <2>1, <2>2, Appended DEF NoTrade
  <2> QED BY <1>9, <1>12, <2>3, SlotOver DEF NoTrade, MayEnter, ExitsDone
<1>13. CASE Enter
  <2> DEFINE c == EntryId(agent.slot)
  <2>1. PICK s : Send(c, "open", s)
    BY <1>13 DEF Enter
  <2>2. c \in Ids /\ c[1] = agent.slot /\ c \notin DOMAIN journal
    BY <1>13, MintedIds
       DEF Enter, MayEnter, ExitsDone, TypeInv, RunningSlot, DecisionInv, JournalIsBehind, EntryId
  <2>3. DOMAIN unrecorded' = DOMAIN unrecorded \union {c}
    BY <2>1, <2>2, SendRecords
  <2>4. agent'.pc = "entered" /\ agent'.slot = agent.slot
    BY <1>13 DEF Enter, TypeInv, TypeOK, AgentType
  <2>5. JournalIsBehind'
    BY <1>13, <2>4 DEF Enter, MayEnter, ExitsDone, DecisionInv, JournalIsBehind
  <2>6. RecordsAreNew'
    BY <1>13, <2>2, <2>3, <2>4 DEF Enter, DecisionInv, RecordsAreNew
  <2> QED BY <1>0, <1>13, <2>5, <2>6 DEF Enter, DecisionInv, AskedAreUnsettled
<1>14. CASE RecordEntry
  <2> DEFINE c == EntryId(agent.slot)
  <2>1. /\ c \in DOMAIN unrecorded /\ agent.slot <= now
        /\ Append(c, unrecorded[c]) /\ (Stop \/ GoOn(0)) /\ now' = now
    BY <1>14 DEF RecordEntry, TypeInv, RunningSlot, DecisionInv, JournalIsBehind
  <2>2. c \in Ids /\ unrecorded[c] \in Record /\ c \notin DOMAIN journal
    BY <2>1 DEF TypeInv, TypeOK, MapsIds, DecisionInv, RecordsAreNew
  <2>3. DecisionStep /\ DOMAIN journal' = DOMAIN journal \union {c}
    BY <2>1, <2>2, Appended
  <2>4. \A d \in DOMAIN journal : d[1] <= agent.slot
    BY <1>14 DEF RecordEntry, DecisionInv, JournalIsBehind
  <2> QED BY <2>1, <2>3, <2>4, SlotOver
<1>15. CASE Latch
  BY <1>0, <1>15 DEF Latch, Off, DecisionInv, JournalIsBehind, RecordsAreNew, AskedAreUnsettled
<1> QED BY <1>1, <1>2, <1>3, <1>4, <1>5, <1>6, <1>7, <1>8, <1>10, <1>11, <1>12, <1>13, <1>14, <1>15
        DEF AgentStep

LEMMA DecisionOthersStep ==
  ASSUME TypeInv, DecisionInv, Start \/ Tick \/ Death \/ BrokerStep \/ NightStep
  PROVE  DecisionInv' /\ DecisionStep
<1>0. journal' = journal => DecisionStep
  BY DEF DecisionStep
<1>1. CASE Start
  <2>1. agent'.pc = "waiting" /\ agent'.slot = now + 1 /\ DOMAIN unrecorded = {}
    BY <1>1 DEF Start, DecisionInv, RecordsAreNew
  <2>2. JournalIsBehind'
    BY <1>1, <2>1, Numbers DEF Start, DecisionInv, JournalIsBehind
  <2> QED BY <1>0, <1>1, <2>1, <2>2 DEF Start, DecisionInv, RecordsAreNew, AskedAreUnsettled
<1>2. CASE Tick
  <2>1. JournalIsBehind'
    BY <1>2, Numbers DEF Tick, DecisionInv, JournalIsBehind
  <2> QED BY <1>0, <1>2, <2>1 DEF Tick, DecisionInv, RecordsAreNew, AskedAreUnsettled
<1>3. CASE SessionDies
  BY <1>0, <1>3, Resumed DEF SessionDies
<1>4. CASE ProcessDies
  <2>1. DOMAIN unrecorded' = {} /\ memory'.asked = {} /\ agent'.pc = "off"
    BY <1>4, NothingType, BlankAsks DEF ProcessDies, Forget, Off
  <2> QED BY <1>0, <1>4, <2>1
          DEF ProcessDies, DecisionInv, JournalIsBehind, RecordsAreNew, AskedAreUnsettled
<1>5. CASE BrokerStep \/ NightStep
  <2>1. UNCHANGED <<now, agent, memory, unrecorded, journal>>
    BY <1>5 DEF BrokerStep, NightStep, Arrives, Vanishes, Moves, Expires, Becomes
  <2> QED BY <1>0, <2>1 DEF DecisionInv, JournalIsBehind, RecordsAreNew, AskedAreUnsettled
<1> QED BY <1>1, <1>2, <1>3, <1>4, <1>5 DEF Death

LEMMA DecisionInductive ==
  ASSUME TypeInv, DecisionInv, [Next]_vars
  PROVE  DecisionInv' /\ DecisionStep
<1>1. CASE AgentStep
  BY <1>1, DecisionAgentStep
<1>2. CASE Start \/ Tick \/ Death \/ BrokerStep \/ NightStep
  BY <1>2, DecisionOthersStep
<1>3. CASE UNCHANGED vars
  BY <1>3 DEF vars, DecisionInv, DecisionStep, JournalIsBehind, RecordsAreNew, AskedAreUnsettled
<1> QED BY <1>1, <1>2, <1>3 DEF Next

\* No decision is lost, overwritten or revised once settled, whatever crashes,
\* resumes, fails or arrives late.
THEOREM JournalIsFinal == Spec => DecisionsAreFinal
<1>1. Init => TypeInv
  BY TypeInit DEF Init, Off, TypeInv, RunningSlot
<1>2. Init => DecisionInv
  BY NothingType, BlankAsks
     DEF Init, Off, DecisionInv, JournalIsBehind, RecordsAreNew, AskedAreUnsettled
<1>3. TypeInv /\ [Next]_vars => TypeInv'
  BY TypeInductive
<1>4. TypeInv /\ DecisionInv /\ [Next]_vars => DecisionInv'
  BY DecisionInductive
<1>5. TypeInv /\ DecisionInv /\ [Next]_vars =>
        [\A c \in DOMAIN journal :
           /\ c \in DOMAIN journal'
           /\ journal'[c].stage = journal[c].stage
           /\ journal[c].outcome.status \in Terminal => journal'[c] = journal[c]]_vars
  BY DecisionInductive DEF DecisionStep
<1> QED BY <1>1, <1>2, <1>3, <1>4, <1>5, PTL DEF Spec, DecisionsAreFinal

-----------------------------------------------------------------------------
(***************************************************************************)
(* The kill switch                                                         *)
(***************************************************************************)
LEMMA LatchInductive == ASSUME TypeInv, LatchLoaded, [Next]_vars PROVE LatchLoaded'
<1> USE DEF TypeInv, LatchLoaded
<1>1. ASSUME NEW e, GoOn(e), latch' = latch, agent.pc # "off" PROVE LatchLoaded'
  BY <1>1 DEF GoOn, Off, TypeOK, AgentType
<1>2. ASSUME Resume, latch' = latch PROVE LatchLoaded'
  BY <1>2 DEF Resume, Off
<1>3. ASSUME Stop, latch' = latch, agent.pc # "off" PROVE LatchLoaded'
  BY <1>3 DEF Stop, TypeOK, AgentType
<1>4. CASE Start
  BY <1>4 DEF Start
<1>5. CASE ReadBook
  BY <1>5 DEF ReadBook, Due, TypeOK, AgentType
<1>6. CASE GatherFails
  <2>1. Resume \/ GoOn(agent.errors + 1)
    BY <1>6 DEF GatherFails
  <2> QED BY <1>1, <1>2, <1>6, <2>1 DEF GatherFails, Due
<1>7. CASE FinishGather
  BY <1>7 DEF FinishGather, TypeOK, AgentType
<1>8. CASE StopAfterExits
  BY <1>3, <1>8 DEF StopAfterExits, ExitsDone
<1>9. CASE SkipEntry
  BY <1>1, <1>9 DEF SkipEntry, ExitsDone
<1>10. CASE NoTrade
  BY <1>1, <1>10 DEF NoTrade, MayEnter, ExitsDone
<1>11. CASE Enter
  BY <1>11 DEF Enter, MayEnter, ExitsDone, TypeOK, AgentType
<1>12. CASE RecordEntry
  <2>1. Stop \/ GoOn(0)
    BY <1>12 DEF RecordEntry
  <2> QED BY <1>1, <1>3, <1>12, <2>1 DEF RecordEntry
<1>13. CASE Latch
  BY <1>13 DEF Latch, Off
<1>14. CASE SessionDies
  BY <1>2, <1>14 DEF SessionDies
<1>15. CASE ProcessDies
  BY <1>15 DEF ProcessDies, Off
<1>16. CASE Tick \/ HoldPosition \/ SubmitExit \/ ReadBack \/ ReadBackFails \/ RecordExit
            \/ BrokerStep \/ NightStep \/ UNCHANGED vars
  <2>1. UNCHANGED <<agent, latch>>
    BY <1>16 DEF Tick, HoldPosition, SubmitExit, ReadBack, ReadBackFails, RecordExit, BrokerStep,
                 NightStep, Arrives, Vanishes, Moves, Expires, Becomes, vars
  <2> QED BY <2>1
<1> QED BY <1>4, <1>5, <1>6, <1>7, <1>8, <1>9, <1>10, <1>11, <1>12, <1>13, <1>14, <1>15, <1>16
        DEF Next, AgentStep, Death

\* Only an entry opens: every other step adds at most a closing order.
LEMMA OnlyEntryOpens ==
  ASSUME TypeInv, [Next]_vars, ~Enter, NEW c
  PROVE  ~Opened(c)
<1>1. DOMAIN orders' \subseteq DOMAIN orders => ~Opened(c)
  BY DEF Opened
<1>2. CASE SubmitExit
  <2>1. PICK p \in memory.todo : Send(ExitId(agent.slot, memory.offset), "close", p.structure)
    BY <1>2 DEF SubmitExit
  <2>2. orders' = orders \/ \E x :
          orders' = With(orders, ExitId(agent.slot, memory.offset),
                         [intent |-> "close", structure |-> p.structure,
                          status |-> x.status, legs |-> x.legs])
    BY <2>1 DEF Send, Leaves
  <2> QED BY <1>1, <2>2 DEF With, Opened
<1>3. CASE BrokerStep \/ NightStep
  BY <1>1, <1>3 DEF BrokerStep, NightStep, Arrives, Vanishes, Moves, Expires, Becomes, Without
<1>4. CASE Start \/ Tick \/ Death \/ UNCHANGED vars
  BY <1>1, <1>4 DEF Start, Tick, Death, SessionDies, ProcessDies, vars
<1>5. CASE ReadBook \/ GatherFails \/ HoldPosition \/ FinishGather \/ ReadBack \/ ReadBackFails
           \/ RecordExit \/ StopAfterExits \/ SkipEntry \/ NoTrade \/ RecordEntry \/ Latch
  <2>1. orders' = orders
    BY <1>5 DEF ReadBook, GatherFails, HoldPosition, FinishGather, ReadBack, ReadBackFails,
                RecordExit, StopAfterExits, SkipEntry, NoTrade, RecordEntry, Latch
  <2> QED BY <1>1, <2>1
<1> QED BY <1>2, <1>3, <1>4, <1>5 DEF Next, AgentStep

\* Once the kill switch is on disk no session of the supervisor opens anything,
\* however many die and resume in between.
THEOREM KillSwitchHolds == Spec => NoOpenWhileLatched
<1>1. Init => TypeInv /\ LatchLoaded
  BY TypeInit DEF Init, Off, TypeInv, RunningSlot, LatchLoaded
<1>2. TypeInv /\ [Next]_vars => TypeInv'
  BY TypeInductive
<1>3. TypeInv /\ LatchLoaded /\ [Next]_vars => LatchLoaded'
  BY LatchInductive
<1>4. TypeInv /\ LatchLoaded /\ [Next]_vars => [latch => \A c \in Ids : ~Opened(c)]_vars
  <2>1. LatchLoaded /\ latch => ~Enter
    BY DEF LatchLoaded, Enter, MayEnter, ExitsDone
  <2> QED BY <2>1, OnlyEntryOpens
<1> QED BY <1>1, <1>2, <1>3, <1>4, PTL DEF Spec, NoOpenWhileLatched

-----------------------------------------------------------------------------
(***************************************************************************)
(* Evidence                                                                *)
(***************************************************************************)
\* What the broker has it keeps, and what it settled stays settled.
Keeps(o, p) ==
  \A c \in DOMAIN o :
    Has(o, c) => Has(p, c) /\ (o[c].status \in Terminal => p[c] = o[c])

LEMMA SendKeeps ==
  ASSUME TypeInv, NEW c \in Ids, NEW i, NEW s, Send(c, i, s)
  PROVE  /\ Keeps(orders, orders')
         /\ \E r : /\ unrecorded' = With(unrecorded, c, r)
                   /\ BorneOut(orders', c, r) /\ r.outcome = NoOutcome
<1>1. PICK out \in Outcomes(c) :
        Leaves(c, i, s, out) /\ unrecorded' = With(unrecorded, c, NewRecord(i, s, out.stage))
  BY DEF Send
<1> DEFINE r == NewRecord(i, s, out.stage)
<1>2. /\ r.stage = out.stage /\ r.outcome = NoOutcome
      /\ StageOf(r) = out.stage /\ r.outcome.status \notin Terminal
  BY DEF NewRecord, NoOutcome, StageOf, Terminal
<1>3. CASE out.shape = NoOrder
  <2>1. orders' = orders /\ out.stage = "rejected"
    BY <1>1, <1>3, OutcomesType DEF Leaves, NoOrder
  <2> QED BY <1>1, <1>2, <2>1 DEF Keeps, BorneOut
<1>4. CASE out.shape # NoOrder
  <2>1. ~Has(orders, c)
    BY <1>4, OutcomesType DEF Has, AtBroker
  <2>2. orders' = With(orders, c, [intent |-> i, structure |-> s,
                                   status |-> out.shape.status, legs |-> out.shape.legs])
    BY <1>1, <1>4 DEF Leaves
  <2>3. Keeps(orders, orders')
    BY <2>1, <2>2 DEF Keeps, Has, With
  <2>4. c \in DOMAIN orders' /\ orders'[c].status = out.shape.status
    BY <2>2 DEF With
  <2>5. BorneOut(orders', c, r)
    BY <1>2, <2>4, OutcomesType DEF BorneOut, Has
  <2> QED BY <1>1, <1>2, <2>3, <2>5
<1> QED BY <1>3, <1>4

LEMMA BrokerKeeps == ASSUME TypeInv, [Next]_vars PROVE Keeps(orders, orders')
<1>1. orders' = orders => Keeps(orders, orders')
  BY DEF Keeps
<1>2. CASE SubmitExit
  <2>1. PICK p : Send(ExitId(agent.slot, memory.offset), "close", p.structure)
    BY <1>2 DEF SubmitExit
  <2>2. ExitId(agent.slot, memory.offset) \in Ids
    BY <1>2, MintedIds DEF SubmitExit, TypeInv, TypeOK, MemoryType, RunningSlot
  <2> QED BY <2>1, <2>2, SendKeeps
<1>3. CASE Enter
  <2>1. EntryId(agent.slot) \in Ids
    BY <1>3, MintedIds DEF Enter, MayEnter, ExitsDone, TypeInv, RunningSlot
  <2> QED BY <1>3, <2>1, SendKeeps DEF Enter
<1>4. ASSUME NEW c \in DOMAIN orders, NEW x \in Shapes, Becomes(c, x),
             orders[c].status \in Live, x.status # "flying"
      PROVE  Keeps(orders, orders')
  <2>1. orders[c].status \notin Terminal
    BY <1>4 DEF Live, Terminal
  <2>2. DOMAIN orders' = DOMAIN orders /\ \A d \in DOMAIN orders \ {c} : orders'[d] = orders[d]
    BY <1>4 DEF Becomes
  <2>3. orders'[c].status = x.status
    <3>1. orders[c] \in Order
      BY DEF TypeInv, TypeOK, MapsIds
    <3>2. orders'[c] = [orders[c] EXCEPT !.status = x.status, !.legs = x.legs]
      BY <1>4 DEF Becomes
    <3> QED BY <3>1, <3>2 DEF Order
  <2> QED BY <1>4, <2>1, <2>2, <2>3 DEF Keeps, Has
<1>5. ASSUME NEW c \in DOMAIN orders, Arrives(c) \/ Moves(c) \/ Expires(c)
      PROVE  Keeps(orders, orders')
  <2>1. orders[c] \in Order
    BY DEF TypeInv, TypeOK, MapsIds
  <2>2. Shape("working", 0) \in Shapes /\ Shape("working", 0).status # "flying"
    BY DEF Shape, Shapes, Live, Terminal
  <2>3. orders[c].status \in Live => /\ Shape("canceled", orders[c].legs) \in Shapes
                                     /\ Shape("canceled", orders[c].legs).status # "flying"
    BY <2>1 DEF Order, Shape, Shapes, Live, Terminal
  <2>4. CASE Arrives(c)
    BY <1>4, <2>2, <2>4 DEF Arrives, Live
  <2>5. CASE Moves(c)
    BY <1>4, <2>5 DEF Moves, Live
  <2>6. CASE Expires(c)
    BY <1>4, <2>3, <2>6 DEF Expires
  <2> QED BY <1>5, <2>4, <2>5, <2>6
<1>6. ASSUME NEW c \in DOMAIN orders, Vanishes(c) PROVE Keeps(orders, orders')
  BY <1>6 DEF Vanishes, Keeps, Has, Without
<1>7. CASE BrokerStep \/ NightStep
  BY <1>5, <1>6, <1>7 DEF BrokerStep, NightStep
<1>8. CASE Start \/ Tick \/ Death \/ UNCHANGED vars
  BY <1>1, <1>8 DEF Start, Tick, Death, SessionDies, ProcessDies, vars
<1>9. CASE ReadBook \/ GatherFails \/ HoldPosition \/ FinishGather \/ ReadBack \/ ReadBackFails
           \/ RecordExit \/ StopAfterExits \/ SkipEntry \/ NoTrade \/ RecordEntry \/ Latch
  BY <1>1, <1>9 DEF ReadBook, GatherFails, HoldPosition, FinishGather, ReadBack, ReadBackFails,
                    RecordExit, StopAfterExits, SkipEntry, NoTrade, RecordEntry, Latch
<1> QED BY <1>2, <1>3, <1>7, <1>8, <1>9 DEF Next, AgentStep

LEMMA StillBorneOut ==
  ASSUME NEW o, NEW p, Keeps(o, p), NEW c, NEW r, BorneOut(o, c, r)
  PROVE  BorneOut(p, c, r)
<1>1. StageOf(r) = "filled" => c \in DOMAIN p /\ p[c].status = "filled"
  BY DEF BorneOut, Keeps, Has, Terminal
<1>2. r.outcome.status \in Terminal => c \in DOMAIN p /\ r.outcome = ShapeOf(p[c])
  <2> SUFFICES ASSUME r.outcome.status \in Terminal PROVE c \in DOMAIN p /\ r.outcome = ShapeOf(p[c])
    OBVIOUS
  <2>1. c \in DOMAIN o /\ r.outcome = ShapeOf(o[c])
    BY DEF BorneOut
  <2>2. o[c].status \in Terminal /\ o[c].status # "flying"
    BY <2>1 DEF ShapeOf, Terminal
  <2> QED BY <2>1, <2>2 DEF Keeps, Has
<1>3. r.stage \in {"submitted", "breached"} => Has(p, c)
  BY DEF BorneOut, Keeps, Has
<1> QED BY <1>1, <1>2, <1>3 DEF BorneOut

LEMMA ForgetsRecords == ASSUME Forget PROVE DOMAIN unrecorded' = {}
BY NothingType DEF Forget

LEMMA SendEvidence ==
  ASSUME TypeInv, EvidenceInv, Keeps(orders, orders'), NEW c \in Ids, NEW i, NEW s, Send(c, i, s),
         journal' = journal
  PROVE  EvidenceInv'
<1>1. PICK r : /\ unrecorded' = With(unrecorded, c, r)
               /\ BorneOut(orders', c, r) /\ r.outcome = NoOutcome
  BY SendKeeps
<1>2. /\ DOMAIN unrecorded' = DOMAIN unrecorded \union {c} /\ unrecorded'[c] = r
      /\ \A d \in DOMAIN unrecorded \ {c} : unrecorded'[d] = unrecorded[d]
  BY <1>1 DEF With
<1>3. \A d \in DOMAIN unrecorded' :
        BorneOut(orders', d, unrecorded'[d]) /\ unrecorded'[d].outcome = NoOutcome
  BY <1>1, <1>2, StillBorneOut DEF EvidenceInv
<1>4. \A d \in DOMAIN journal' : BorneOut(orders', d, journal'[d])
  BY StillBorneOut DEF EvidenceInv
<1> QED BY <1>3, <1>4 DEF EvidenceInv

LEMMA EvidenceInductive ==
  ASSUME TypeInv, DecisionInv, EvidenceInv, [Next]_vars
  PROVE  EvidenceInv'
<1>1. Keeps(orders, orders')
  BY BrokerKeeps
<1>2. ASSUME DOMAIN unrecorded' = {} \/ unrecorded' = unrecorded
      PROVE  \A c \in DOMAIN unrecorded' :
               BorneOut(orders', c, unrecorded'[c]) /\ unrecorded'[c].outcome = NoOutcome
  BY <1>1, <1>2, StillBorneOut DEF EvidenceInv
<1>3. ASSUME NEW c, NEW r, Append(c, r), BorneOut(orders', c, r)
      PROVE  \A d \in DOMAIN journal' : BorneOut(orders', d, journal'[d])
  BY <1>1, <1>3, StillBorneOut DEF Append, With, EvidenceInv
<1>4. journal' = journal => \A d \in DOMAIN journal' : BorneOut(orders', d, journal'[d])
  BY <1>1, StillBorneOut DEF EvidenceInv
<1>5. CASE SubmitExit
  <2>1. PICK p : Send(ExitId(agent.slot, memory.offset), "close", p.structure)
    BY <1>5 DEF SubmitExit
  <2>2. ExitId(agent.slot, memory.offset) \in Ids /\ journal' = journal
    BY <1>5, MintedIds DEF SubmitExit, TypeInv, TypeOK, MemoryType, RunningSlot
  <2> QED BY <1>1, <2>1, <2>2, SendEvidence
<1>6. CASE Enter
  <2>1. EntryId(agent.slot) \in Ids /\ journal' = journal
    BY <1>6, MintedIds DEF Enter, MayEnter, ExitsDone, TypeInv, RunningSlot
  <2> QED BY <1>1, <1>6, <2>1, SendEvidence DEF Enter
<1>7. CASE ReadBack
  <2>1. PICK c \in memory.asked : AtBroker(c) /\ journal' = [journal EXCEPT ![c].outcome = ShapeOf(orders[c])]
    BY <1>7 DEF ReadBack
  <2>2. c \in DOMAIN journal /\ journal[c].outcome.status \notin Terminal
    BY <2>1 DEF DecisionInv, AskedAreUnsettled
  <2>3. orders' = orders /\ unrecorded' = unrecorded
    BY <1>7 DEF ReadBack
  <2>4. \A d \in DOMAIN journal \ {c} : journal'[d] = journal[d]
    BY <2>1
  <2> DEFINE r == journal'[c]
  <2>5. r.stage = journal[c].stage /\ r.outcome = ShapeOf(orders[c])
    <3>1. journal[c] \in Record
      BY <2>2 DEF TypeInv, TypeOK, MapsIds
    <3>2. r = [journal[c] EXCEPT !.outcome = ShapeOf(orders[c])]
      BY <2>1, <2>2
    <3> QED BY <3>1, <3>2 DEF Record
  <2>6. Has(orders, c) /\ ShapeOf(orders[c]).status = orders[c].status
    BY <2>1 DEF AtBroker, Has, ShapeOf
  <2>7. BorneOut(orders, c, journal[c])
    BY <2>2 DEF EvidenceInv
  <2> HIDE DEF r
  <2>8. StageOf(r) = "filled" => orders[c].status = "filled"
    BY <2>5, <2>6, <2>7 DEF StageOf, BorneOut
  <2>9. BorneOut(orders, c, r)
    BY <2>5, <2>6, <2>8 DEF BorneOut, Has
  <2>10. DOMAIN journal' = DOMAIN journal
    BY <2>1
  <2> QED BY <2>3, <2>4, <2>9, <2>10 DEF EvidenceInv, r
<1>8. CASE RecordExit
  <2>1. PICK c \in DOMAIN unrecorded :
          Append(c, unrecorded[c]) /\ unrecorded' = Without(unrecorded, c)
    BY <1>8 DEF RecordExit
  <2>2. BorneOut(orders', c, unrecorded[c])
    BY <1>1, StillBorneOut DEF EvidenceInv
  <2>3. \A d \in DOMAIN unrecorded' :
          BorneOut(orders', d, unrecorded'[d]) /\ unrecorded'[d].outcome = NoOutcome
    BY <1>1, <2>1, StillBorneOut DEF Without, EvidenceInv
  <2> QED BY <1>3, <2>1, <2>2, <2>3 DEF EvidenceInv
<1>9. CASE NoTrade
  <2>1. BorneOut(orders', EntryId(agent.slot), NoTradeRecord)
    BY DEF BorneOut, NoTradeRecord, NewRecord, StageOf, NoOutcome, Terminal
  <2>2. DOMAIN unrecorded' = {}
    BY <1>9, ForgetsRecords DEF NoTrade, GoOn
  <2> QED BY <1>2, <1>3, <1>9, <2>1, <2>2 DEF NoTrade, EvidenceInv
<1>10. CASE RecordEntry
  <2> DEFINE c == EntryId(agent.slot)
  <2>1. c \in DOMAIN unrecorded /\ Append(c, unrecorded[c])
    BY <1>10 DEF RecordEntry, TypeInv, RunningSlot
  <2>2. BorneOut(orders', c, unrecorded[c])
    BY <1>1, <2>1, StillBorneOut DEF EvidenceInv
  <2>3. DOMAIN unrecorded' = {}
    BY <1>10, ForgetsRecords DEF RecordEntry, Stop, GoOn
  <2> QED BY <1>2, <1>3, <2>1, <2>2, <2>3 DEF EvidenceInv
<1>11. CASE GatherFails \/ StopAfterExits \/ SkipEntry \/ SessionDies \/ ProcessDies
  <2>1. Forget /\ journal' = journal
    BY <1>11 DEF GatherFails, StopAfterExits, SkipEntry, SessionDies, ProcessDies, Stop, GoOn, Resume
  <2> QED BY <1>2, <1>4, <2>1, ForgetsRecords DEF EvidenceInv
<1>12. CASE Start \/ Tick \/ ReadBook \/ HoldPosition \/ FinishGather \/ ReadBackFails \/ Latch
            \/ BrokerStep \/ NightStep \/ UNCHANGED vars
  <2>1. UNCHANGED <<journal, unrecorded>>
    BY <1>12 DEF Start, Tick, ReadBook, HoldPosition, FinishGather, ReadBackFails, Latch, BrokerStep,
                 NightStep, Arrives, Vanishes, Moves, Expires, Becomes, vars
  <2> QED BY <1>2, <1>4, <2>1 DEF EvidenceInv
<1> QED BY <1>5, <1>6, <1>7, <1>8, <1>9, <1>10, <1>11, <1>12 DEF Next, AgentStep, Death

\* What the journal says of an order is so at the broker, in every state.
THEOREM JournalIsTrue == Spec => []JournalIsEvidence
<1>1. Init => TypeInv /\ DecisionInv
  <2>1. Init => TypeInv
    BY TypeInit DEF Init, Off, TypeInv, RunningSlot
  <2> QED BY <2>1, NothingType, BlankAsks
          DEF Init, Off, DecisionInv, JournalIsBehind, RecordsAreNew, AskedAreUnsettled
<1>2. Init => EvidenceInv
  BY NothingType DEF Init, EvidenceInv
<1>3. TypeInv /\ DecisionInv /\ [Next]_vars => TypeInv' /\ DecisionInv'
  BY TypeInductive, DecisionInductive
<1>4. TypeInv /\ DecisionInv /\ EvidenceInv /\ [Next]_vars => EvidenceInv'
  BY EvidenceInductive
<1>5. EvidenceInv => JournalIsEvidence
  BY DEF EvidenceInv, JournalIsEvidence, BorneOut, Has, AtBroker
<1> QED BY <1>1, <1>2, <1>3, <1>4, <1>5, PTL DEF Spec

-----------------------------------------------------------------------------
(***************************************************************************)
(* A breach ends in the kill switch                                        *)
(***************************************************************************)
LEMMA BreachInductive ==
  ASSUME NothingKills, TypeInv, DecisionInv, BreachInv, [Next]_vars
  PROVE  BreachInv'
<1>1. latch => latch'
  BY DEF Next, AgentStep, Start, Tick, ReadBook, GatherFails, HoldPosition, SubmitExit, FinishGather,
         ReadBack, ReadBackFails, RecordExit, StopAfterExits, SkipEntry, NoTrade, Enter, RecordEntry,
         Latch, Death, SessionDies, ProcessDies, BrokerStep, NightStep, Arrives, Vanishes, Moves,
         Expires, Becomes, vars
<1>2. CASE latch
  BY <1>1, <1>2 DEF BreachInv
<1>3. CASE ~latch
  <2> USE <1>3 DEF BreachInv
  <2>1. journal' = journal => (Breached' <=> Breached)
    BY DEF Breached
  <2>2. ASSUME NEW c, NEW r, Append(c, r), r.stage # "breached", Breached' PROVE Breached
    BY <2>2 DEF Append, With, Breached
  <2>3. CASE RecordExit
    <3>1. PICK c \in DOMAIN unrecorded :
            /\ Append(c, unrecorded[c])
            /\ memory' = [memory EXCEPT !.breached = @ \/ unrecorded[c].stage = "breached"]
      BY <2>3 DEF RecordExit
    <3>2. agent'.pc = "reconciling" /\ agent.pc = "reconciling"
      BY <2>3 DEF RecordExit
    <3>3. memory'.breached = (memory.breached \/ unrecorded[c].stage = "breached")
      BY <3>1 DEF TypeInv, TypeOK, MemoryType
    <3> QED BY <2>2, <3>1, <3>2, <3>3
  <2>4. CASE RecordEntry
    <3> DEFINE c == EntryId(agent.slot)
    <3>1. CASE unrecorded[c].stage = "breached"
      BY <2>4, <3>1 DEF RecordEntry, Stop, TypeInv, TypeOK, AgentType
    <3>2. CASE unrecorded[c].stage # "breached"
      BY <2>2, <2>4, <3>2 DEF RecordEntry
    <3> QED BY <3>1, <3>2
  <2>5. CASE NoTrade
    <3>1. NoTradeRecord.stage # "breached"
      BY DEF NoTradeRecord, NewRecord
    <3> QED BY <2>2, <2>5, <3>1 DEF NoTrade, MayEnter, ExitsDone
  <2>6. CASE ReadBack
    <3>1. PICK c \in memory.asked : Asking(c) /\ journal' = [journal EXCEPT ![c].outcome = ShapeOf(orders[c])]
      BY <2>6 DEF ReadBack
    <3>2. DecisionStep /\ DOMAIN journal' = DOMAIN journal
      BY <2>6, <3>1, DecisionInductive
    <3>3. Breached' => Breached
      BY <3>2 DEF DecisionStep, Breached
    <3>4. memory'.breached = memory.breached /\ agent' = agent
      BY <2>6, <3>1 DEF ReadBack, Asking, TypeInv, TypeOK, MemoryType
    <3> QED BY <3>3, <3>4
  <2>7. CASE ReadBackFails
    <3>1. memory'.breached = memory.breached /\ agent' = agent /\ journal' = journal
      BY <2>7 DEF ReadBackFails, Asking, TypeInv, TypeOK, MemoryType
    <3> QED BY <2>1, <3>1
  <2>8. CASE StopAfterExits
    BY <2>8 DEF StopAfterExits, Stop, TypeInv, TypeOK, AgentType
  <2>9. CASE Latch
    BY <2>9 DEF Latch
  <2>10. CASE Tick \/ BrokerStep \/ NightStep \/ UNCHANGED vars
    <3>1. UNCHANGED <<agent, memory, journal>>
      BY <2>10 DEF Tick, BrokerStep, NightStep, Arrives, Vanishes, Moves, Expires, Becomes, vars
    <3> QED BY <2>1, <3>1
  <2>11. CASE Start \/ ReadBook \/ HoldPosition \/ SubmitExit \/ FinishGather \/ GatherFails
    BY <2>1, <2>11 DEF Start, ReadBook, Due, HoldPosition, SubmitExit, FinishGather, GatherFails
  <2>12. CASE SkipEntry \/ Enter
    BY <2>1, <2>12 DEF SkipEntry, Enter, MayEnter, ExitsDone
  <2>13. CASE Death
    BY <2>13 DEF Death, SessionDies, ProcessDies, NothingKills
  <2> QED BY <2>3, <2>4, <2>5, <2>6, <2>7, <2>8, <2>9, <2>10, <2>11, <2>12, <2>13 DEF Next, AgentStep
<1> QED BY <1>2, <1>3

\* Where no session dies, a journalled breach is the end of opening orders:
\* nothing opens between the breach and the kill switch, nor ever after.
THEOREM BreachStops == ASSUME NothingKills PROVE Spec => BreachBlocksOpens
<1>1. Init => TypeInv /\ DecisionInv
  <2>1. Init => TypeInv
    BY TypeInit DEF Init, Off, TypeInv, RunningSlot
  <2> QED BY <2>1, NothingType, BlankAsks
          DEF Init, Off, DecisionInv, JournalIsBehind, RecordsAreNew, AskedAreUnsettled
<1>2. Init => LatchLoaded /\ BreachInv
  BY NothingType DEF Init, Off, LatchLoaded, BreachInv, Breached
<1>3. TypeInv /\ DecisionInv /\ [Next]_vars => TypeInv' /\ DecisionInv'
  BY TypeInductive, DecisionInductive
<1>4. TypeInv /\ LatchLoaded /\ [Next]_vars => LatchLoaded'
  BY LatchInductive
<1>5. TypeInv /\ DecisionInv /\ BreachInv /\ [Next]_vars => BreachInv'
  BY BreachInductive
<1>6. TypeInv /\ LatchLoaded /\ BreachInv /\ [Next]_vars =>
        [(\E c \in DOMAIN journal : journal[c].stage = "breached") => \A c \in Ids : ~Opened(c)]_vars
  <2>1. Breached /\ BreachInv /\ LatchLoaded => ~Enter
    BY DEF Breached, BreachInv, LatchLoaded, Enter, MayEnter, ExitsDone
  <2> QED BY <2>1, OnlyEntryOpens DEF Breached
<1> QED BY <1>1, <1>2, <1>3, <1>4, <1>5, <1>6, PTL DEF Spec, BreachBlocksOpens

-----------------------------------------------------------------------------
(* The orders of the agent.                                                *)

(***************************************************************************)
(* Entries and exits have ids of their own                                 *)
(***************************************************************************)
IsEntry(c) == c[2] = MaxExits

IntentInv ==
  /\ \A c \in DOMAIN orders : orders[c].intent = "open" <=> IsEntry(c)
  /\ \A c \in DOMAIN journal : journal[c].intent = "open" <=> IsEntry(c)
  /\ \A c \in DOMAIN unrecorded : unrecorded[c].intent = "open" <=> IsEntry(c)

\* What an order of the broker keeps, whatever the broker does.
LEMMA BecomesKeepsIntent ==
  ASSUME TypeOK, NEW c \in DOMAIN orders, NEW x, Becomes(c, x)
  PROVE  /\ DOMAIN orders' = DOMAIN orders
         /\ \A d \in DOMAIN orders : /\ orders'[d].intent = orders[d].intent
                                     /\ orders'[d].structure = orders[d].structure
         /\ orders'[c].status = x.status /\ orders'[c].legs = x.legs
         /\ \A d \in DOMAIN orders \ {c} : orders'[d] = orders[d]
<1>1. /\ DOMAIN orders' = DOMAIN orders
      /\ \A d \in DOMAIN orders \ {c} : orders'[d] = orders[d]
      /\ orders'[c] = [orders[c] EXCEPT !.status = x.status, !.legs = x.legs]
  BY DEF Becomes
<1>2. orders[c] \in Order
  BY DEF TypeOK, MapsIds
<1>3. /\ orders'[c].intent = orders[c].intent /\ orders'[c].structure = orders[c].structure
      /\ orders'[c].status = x.status /\ orders'[c].legs = x.legs
  BY <1>1, <1>2 DEF Order
<1> QED BY <1>1, <1>3

LEMMA BrokerMoves ==
  ASSUME TypeInv, BrokerStep \/ NightStep
  PROVE  /\ UNCHANGED <<now, agent, memory, unrecorded, journal, latch>>
         /\ DOMAIN orders' \subseteq DOMAIN orders
         /\ \A d \in DOMAIN orders' : /\ orders'[d].intent = orders[d].intent
                                      /\ orders'[d].structure = orders[d].structure
<1>1. ASSUME NEW c \in DOMAIN orders, NEW x, Becomes(c, x)
      PROVE  /\ UNCHANGED <<now, agent, memory, unrecorded, journal, latch>>
             /\ DOMAIN orders' \subseteq DOMAIN orders
             /\ \A d \in DOMAIN orders' : /\ orders'[d].intent = orders[d].intent
                                          /\ orders'[d].structure = orders[d].structure
  <2>1. UNCHANGED <<now, agent, memory, unrecorded, journal, latch>>
    BY <1>1 DEF Becomes
  <2> QED BY <1>1, <2>1, BecomesKeepsIntent DEF TypeInv
<1>2. ASSUME NEW c \in DOMAIN orders, Vanishes(c)
      PROVE  /\ UNCHANGED <<now, agent, memory, unrecorded, journal, latch>>
             /\ DOMAIN orders' \subseteq DOMAIN orders
             /\ \A d \in DOMAIN orders' : /\ orders'[d].intent = orders[d].intent
                                          /\ orders'[d].structure = orders[d].structure
  BY <1>2 DEF Vanishes, Without
<1> QED BY <1>1, <1>2 DEF BrokerStep, NightStep, Arrives, Moves, Expires

\* What a call that came to out puts at the broker and in the process.
SentAs(c, i, s, out) ==
  /\ DOMAIN unrecorded' = DOMAIN unrecorded \union {c}
  /\ unrecorded'[c] = NewRecord(i, s, out.stage)
  /\ \A d \in DOMAIN unrecorded \ {c} : unrecorded'[d] = unrecorded[d]
  /\ \A d \in DOMAIN orders \ {c} : d \in DOMAIN orders' /\ orders'[d] = orders[d]
  /\ DOMAIN orders' \subseteq DOMAIN orders \union {c}
  /\ out.shape = NoOrder => orders' = orders
  /\ out.shape # NoOrder =>
       /\ c \in DOMAIN orders' /\ ~AtBroker(c)
       /\ orders'[c].intent = i /\ orders'[c].structure = s
       /\ orders'[c].status = out.shape.status /\ orders'[c].legs = out.shape.legs

LEMMA SendParts ==
  ASSUME TypeInv, NEW c \in Ids, NEW i, NEW s, Send(c, i, s)
  PROVE  \E out \in Outcomes(c) : SentAs(c, i, s, out)
<1> USE DEF SentAs
<1>1. PICK out \in Outcomes(c) :
        Leaves(c, i, s, out) /\ unrecorded' = With(unrecorded, c, NewRecord(i, s, out.stage))
  BY DEF Send
<1>2. /\ DOMAIN unrecorded' = DOMAIN unrecorded \union {c}
      /\ unrecorded'[c] = NewRecord(i, s, out.stage)
      /\ \A d \in DOMAIN unrecorded \ {c} : unrecorded'[d] = unrecorded[d]
  BY <1>1 DEF With
<1>3. CASE out.shape = NoOrder
  BY <1>1, <1>2, <1>3 DEF Leaves
<1>4. CASE out.shape # NoOrder
  <2>1. ~AtBroker(c)
    BY <1>4, OutcomesType
  <2>2. orders' = With(orders, c, [intent |-> i, structure |-> s,
                                   status |-> out.shape.status, legs |-> out.shape.legs])
    BY <1>1, <1>4 DEF Leaves
  <2>3. /\ DOMAIN orders' = DOMAIN orders \union {c}
        /\ orders'[c] = [intent |-> i, structure |-> s,
                         status |-> out.shape.status, legs |-> out.shape.legs]
        /\ \A d \in DOMAIN orders \ {c} : orders'[d] = orders[d]
    BY <2>2 DEF With
  <2> QED BY <1>2, <1>4, <2>1, <2>3
<1> QED BY <1>3, <1>4

\* The id of an exit is never that of an entry.
LEMMA ExitsAreNoEntries ==
  ASSUME TypeInv, SubmitExit
  PROVE  /\ ExitId(agent.slot, memory.offset) \in Ids
         /\ ExitId(agent.slot, memory.offset)[1] = agent.slot
         /\ ExitId(agent.slot, memory.offset)[2] = memory.offset
         /\ ~IsEntry(ExitId(agent.slot, memory.offset))
<1>1. agent.slot \in Slots /\ memory.offset \in 0..MaxExits /\ memory.offset < MaxExits
  BY DEF SubmitExit, TypeInv, TypeOK, MemoryType, RunningSlot
<1> QED BY <1>1, MintedIds DEF ExitId, IsEntry

LEMMA EntriesAreEntries ==
  ASSUME NEW s \in Slots
  PROVE  EntryId(s) \in Ids /\ EntryId(s)[1] = s /\ IsEntry(EntryId(s))
BY MintedIds DEF EntryId, IsEntry

LEMMA IntentAppended ==
  ASSUME IntentInv, NEW c, NEW r, Append(c, r), r.intent = "open" <=> IsEntry(c)
  PROVE  \A d \in DOMAIN journal' : journal'[d].intent = "open" <=> IsEntry(d)
BY DEF Append, With, IntentInv

LEMMA IntentSent ==
  ASSUME TypeInv, IntentInv, NEW c \in Ids, NEW i, NEW s, Send(c, i, s),
         i = "open" <=> IsEntry(c), journal' = journal
  PROVE  IntentInv'
<1>1. PICK out \in Outcomes(c) : SentAs(c, i, s, out)
  BY SendParts
<1>2. \A d \in DOMAIN unrecorded' : unrecorded'[d].intent = "open" <=> IsEntry(d)
  BY <1>1 DEF SentAs, NewRecord, IntentInv
<1>3. \A d \in DOMAIN orders' : orders'[d].intent = "open" <=> IsEntry(d)
  BY <1>1 DEF SentAs, IntentInv
<1> QED BY <1>2, <1>3 DEF IntentInv

LEMMA IntentInductive ==
  ASSUME TypeInv, DecisionInv, IntentInv, [Next]_vars
  PROVE  IntentInv'
<1>1. CASE SubmitExit
  <2>1. PICK p \in memory.todo : Send(ExitId(agent.slot, memory.offset), "close", p.structure)
    BY <1>1 DEF SubmitExit
  <2>2. journal' = journal
    BY <1>1 DEF SubmitExit
  <2>3. ExitId(agent.slot, memory.offset) \in Ids /\ ~IsEntry(ExitId(agent.slot, memory.offset))
    BY <1>1, ExitsAreNoEntries
  <2> HIDE DEF IntentInv
  <2> QED BY <2>1, <2>2, <2>3, IntentSent
<1>2. CASE Enter
  <2>1. PICK s \in Structures : Send(EntryId(agent.slot), "open", s)
    BY <1>2 DEF Enter
  <2>2. journal' = journal /\ agent.slot \in Slots
    BY <1>2 DEF Enter, MayEnter, ExitsDone, TypeInv, RunningSlot
  <2>3. EntryId(agent.slot) \in Ids /\ IsEntry(EntryId(agent.slot))
    BY <2>2, EntriesAreEntries
  <2> QED BY <2>1, <2>2, <2>3, IntentSent
<1>3. CASE ReadBack
  <2>1. PICK c \in memory.asked : journal' = [journal EXCEPT ![c].outcome = ShapeOf(orders[c])]
    BY <1>3 DEF ReadBack
  <2>2. c \in DOMAIN journal /\ journal[c] \in Record
    BY <2>1 DEF DecisionInv, AskedAreUnsettled, TypeInv, TypeOK, MapsIds
  <2>3. journal'[c] = [journal[c] EXCEPT !.outcome = ShapeOf(orders[c])]
    BY <2>1, <2>2
  <2>4. journal'[c].intent = journal[c].intent
    BY <2>2, <2>3 DEF Record
  <2>5. DOMAIN journal' = DOMAIN journal /\ \A d \in DOMAIN journal \ {c} : journal'[d] = journal[d]
    BY <2>1
  <2>6. orders' = orders /\ unrecorded' = unrecorded
    BY <1>3 DEF ReadBack
  <2> QED BY <2>2, <2>4, <2>5, <2>6 DEF IntentInv
<1>4. CASE RecordExit
  <2>1. PICK c \in DOMAIN unrecorded : Append(c, unrecorded[c]) /\ unrecorded' = Without(unrecorded, c)
    BY <1>4 DEF RecordExit
  <2>2. orders' = orders
    BY <1>4 DEF RecordExit
  <2>3. \A d \in DOMAIN journal' : journal'[d].intent = "open" <=> IsEntry(d)
    BY <2>1, IntentAppended DEF IntentInv
  <2> QED BY <2>1, <2>2, <2>3 DEF IntentInv, Without
<1>5. CASE NoTrade
  <2>1. IsEntry(EntryId(agent.slot)) /\ NoTradeRecord.intent = "open"
    BY DEF IsEntry, EntryId, NoTradeRecord, NewRecord
  <2>2. \A d \in DOMAIN journal' : journal'[d].intent = "open" <=> IsEntry(d)
    BY <1>5, <2>1, IntentAppended DEF NoTrade
  <2>3. DOMAIN unrecorded' = {} /\ orders' = orders
    BY <1>5, ForgetsRecords DEF NoTrade, GoOn
  <2> QED BY <2>2, <2>3 DEF IntentInv
<1>6. CASE RecordEntry
  <2> DEFINE c == EntryId(agent.slot)
  <2>1. c \in DOMAIN unrecorded /\ Append(c, unrecorded[c]) /\ IsEntry(c)
    BY <1>6 DEF RecordEntry, TypeInv, RunningSlot, IsEntry, EntryId
  <2>2. \A d \in DOMAIN journal' : journal'[d].intent = "open" <=> IsEntry(d)
    BY <2>1, IntentAppended DEF IntentInv
  <2>3. DOMAIN unrecorded' = {} /\ orders' = orders
    BY <1>6, ForgetsRecords DEF RecordEntry, Stop, GoOn
  <2> QED BY <2>2, <2>3 DEF IntentInv
<1>7. CASE GatherFails \/ StopAfterExits \/ SkipEntry \/ SessionDies \/ ProcessDies
  <2>1. Forget /\ journal' = journal /\ orders' = orders
    BY <1>7 DEF GatherFails, StopAfterExits, SkipEntry, SessionDies, ProcessDies, Stop, GoOn, Resume
  <2> QED BY <2>1, ForgetsRecords DEF IntentInv
<1>8. CASE BrokerStep \/ NightStep
  BY <1>8, BrokerMoves DEF IntentInv
<1>9. CASE Start \/ Tick \/ ReadBook \/ HoldPosition \/ FinishGather \/ ReadBackFails \/ Latch
           \/ UNCHANGED vars
  <2>1. UNCHANGED <<journal, unrecorded, orders>>
    BY <1>9 DEF Start, Tick, ReadBook, HoldPosition, FinishGather, ReadBackFails, Latch, vars
  <2> QED BY <2>1 DEF IntentInv
<1> QED BY <1>1, <1>2, <1>3, <1>4, <1>5, <1>6, <1>7, <1>8, <1>9 DEF Next, AgentStep, Death

\* What the reconciler asks about has been sent and not been heard of.
AskedWereSent == \A c \in memory.asked : c \in DOMAIN journal /\ journal[c].stage = "submitted"

LEMMA AskedInductive ==
  ASSUME TypeInv, DecisionInv, AskedWereSent, [Next]_vars
  PROVE  AskedWereSent'
<1>1. DecisionStep
  BY DecisionInductive
<1>2. ASSUME memory'.asked \subseteq memory.asked PROVE AskedWereSent'
  BY <1>1, <1>2 DEF AskedWereSent, DecisionStep
<1>3. CASE FinishGather
  <2>1. memory'.asked = Unresolved(Day(agent.slot)) /\ journal' = journal
    BY <1>3 DEF FinishGather, TypeInv, TypeOK, MemoryType
  <2>2. ASSUME NEW r, IsWorking(r) PROVE r.stage = "submitted"
    BY <2>2 DEF IsWorking, StageOf
  <2> QED BY <2>1, <2>2 DEF AskedWereSent, Unresolved
<1>4. CASE Forget
  BY <1>2, <1>4, BlankAsks DEF Forget
<1>5. CASE GatherFails \/ StopAfterExits \/ SkipEntry \/ NoTrade \/ RecordEntry \/ SessionDies \/ ProcessDies
  BY <1>4, <1>5 DEF GatherFails, StopAfterExits, SkipEntry, NoTrade, RecordEntry, SessionDies, ProcessDies,
                    Stop, GoOn, Resume
<1>6. CASE ReadBook
  <2>1. memory'.asked = Blank.asked
    BY <1>6 DEF ReadBook, Blank
  <2> QED BY <1>2, <2>1, BlankAsks
<1>7. CASE HoldPosition \/ SubmitExit
  BY <1>2, <1>7 DEF HoldPosition, SubmitExit, PassExit, TypeInv, TypeOK, MemoryType
<1>8. CASE ReadBack \/ ReadBackFails
  BY <1>2, <1>8 DEF ReadBack, ReadBackFails, Asking, TypeInv, TypeOK, MemoryType
<1>9. CASE RecordExit
  BY <1>2, <1>9 DEF RecordExit, TypeInv, TypeOK, MemoryType
<1>10. CASE Start \/ Tick \/ Enter \/ Latch \/ BrokerStep \/ NightStep \/ UNCHANGED vars
  <2>1. memory' = memory
    BY <1>10, BrokerMoves DEF Start, Tick, Enter, Latch, vars
  <2> QED BY <1>2, <2>1
<1> QED BY <1>3, <1>5, <1>6, <1>7, <1>8, <1>9, <1>10 DEF Next, AgentStep, Death

-----------------------------------------------------------------------------
(***************************************************************************)
(* The agent implements the decision log                                   *)
(***************************************************************************)
\* The refinement mapping of Log, by name.
Written == [c \in Ids |-> WhatIsWritten(c)]
Truth == [c \in Ids |-> WhatIsTrue(c)]
Opening == {c \in DOMAIN orders : orders[c].intent = "open"}

LogStutters == UNCHANGED <<Written, Truth, Opening, latch>>

LEMMA LogActions ==
  ASSUME NEW c \in Ids
  PROVE  /\ (/\ Written[c] = "nothing"
             /\ \E what \in {"made", "sent", "settled"} :
                  /\ what = "sent" => Truth[c] # "absent"
                  /\ what = "settled" => Truth[c] = "settled"
                  /\ Written' = [Written EXCEPT ![c] = what]
             /\ UNCHANGED <<Truth, Opening, latch>>) => Log!Write(c)
         /\ (/\ Written[c] = "sent" /\ Truth[c] = "settled"
             /\ Written' = [Written EXCEPT ![c] = "settled"]
             /\ UNCHANGED <<Truth, Opening, latch>>) => Log!Learn(c)
         /\ (/\ Truth[c] = "absent"
             /\ \E what \in {"absent", "live", "settled"} : Truth' = [Truth EXCEPT ![c] = what]
             /\ Opening' \in {Opening, Opening \union {c}}
             /\ latch => Opening' = Opening
             /\ UNCHANGED <<Written, latch>>) => Log!SendOut(c)
         /\ (/\ Truth[c] # "settled"
             /\ \E what \in {"live", "settled"} : Truth' = [Truth EXCEPT ![c] = what]
             /\ UNCHANGED <<Written, Opening, latch>>) => Log!Settle(c)
         /\ (/\ Truth[c] = "absent" /\ Opening' = Opening \ {c}
             /\ UNCHANGED <<Written, Truth, latch>>) => Log!Forgets(c)
BY DEF Log!Write, Log!Justified, Log!Learn, Log!SendOut, Log!Settle, Log!Forgets, Written, Truth, Opening

\* A decision of the log is a step of the log.
LEMMA LogNexts ==
  ASSUME NEW c \in Ids,
         Log!Write(c) \/ Log!Learn(c) \/ Log!SendOut(c) \/ Log!Settle(c) \/ Log!Forgets(c)
  PROVE  Log!LogNext
BY DEF Log!LogNext

LEMMA SameJournal == ASSUME journal' = journal PROVE Written' = Written
BY DEF Written, WhatIsWritten

LEMMA SameOrders == ASSUME orders' = orders PROVE Truth' = Truth /\ Opening' = Opening
BY DEF Truth, WhatIsTrue, AtBroker, Opening

\* A step that touches the order of one decision.
LEMMA OneOrder ==
  ASSUME NEW c \in Ids,
         \A d \in Ids \ {c} : /\ d \in DOMAIN orders' <=> d \in DOMAIN orders
                              /\ d \in DOMAIN orders => orders'[d] = orders[d]
  PROVE  Truth' = [Truth EXCEPT ![c] = WhatIsTrue(c)']
<1>1. \A d \in Ids \ {c} : WhatIsTrue(d)' = WhatIsTrue(d)
  BY DEF WhatIsTrue, AtBroker
<1> QED BY <1>1 DEF Truth

LEMMA OneRecord ==
  ASSUME NEW c \in Ids,
         \A d \in Ids \ {c} : /\ d \in DOMAIN journal' <=> d \in DOMAIN journal
                              /\ d \in DOMAIN journal => journal'[d] = journal[d]
  PROVE  Written' = [Written EXCEPT ![c] = WhatIsWritten(c)']
<1>1. \A d \in Ids \ {c} : WhatIsWritten(d)' = WhatIsWritten(d)
  BY DEF WhatIsWritten
<1> QED BY <1>1 DEF Written

\* A record the broker bears out is written as the log allows.
LEMMA WritingIsLogged ==
  ASSUME TypeInv, NEW c \in Ids, NEW r, Append(c, r), c \notin DOMAIN journal,
         BorneOut(orders, c, r), r.outcome = NoOutcome, UNCHANGED <<orders, latch>>
  PROVE  Log!LogNext
<1>1. /\ c \in DOMAIN journal' /\ journal'[c] = r
      /\ \A d \in Ids \ {c} : /\ d \in DOMAIN journal' <=> d \in DOMAIN journal
                              /\ d \in DOMAIN journal => journal'[d] = journal[d]
  BY DEF Append, With
<1>2. Written' = [Written EXCEPT ![c] = WhatIsWritten(c)']
  BY <1>1, OneRecord
<1>3. Written[c] = "nothing"
  BY DEF Written, WhatIsWritten
<1>4. r.outcome.status \notin Terminal
  BY DEF NoOutcome, Terminal
<1>5. WhatIsWritten(c)' = IF StageOf(r) = "filled" THEN "settled"
                          ELSE IF r.stage \in {"submitted", "breached"} THEN "sent" ELSE "made"
  BY <1>1, <1>4 DEF WhatIsWritten
<1>6. StageOf(r) = "filled" => Truth[c] = "settled"
  BY DEF BorneOut, Truth, WhatIsTrue, AtBroker, Terminal
<1>7. r.stage \in {"submitted", "breached"} => Truth[c] # "absent"
  BY DEF BorneOut, Has, Truth, WhatIsTrue, AtBroker
<1>8. \E what \in {"made", "sent", "settled"} :
        /\ what = "sent" => Truth[c] # "absent"
        /\ what = "settled" => Truth[c] = "settled"
        /\ Written' = [Written EXCEPT ![c] = what]
  BY <1>2, <1>5, <1>6, <1>7
<1>9. UNCHANGED <<Truth, Opening, latch>>
  BY SameOrders
<1> QED BY <1>3, <1>8, <1>9, LogActions, LogNexts

\* What the door leaves at the broker is a decision sent out, or nothing.
LEMMA SendingIsLogged ==
  ASSUME TypeInv, IntentInv, NEW c \in Ids, NEW i \in Intent, NEW s, Send(c, i, s),
         i = "open" <=> IsEntry(c), i = "open" => ~latch, UNCHANGED <<journal, latch>>
  PROVE  Log!LogNext \/ LogStutters
<1>1. PICK out \in Outcomes(c) : SentAs(c, i, s, out)
  BY SendParts
<1>2. CASE out.shape = NoOrder
  BY <1>1, <1>2, SameJournal, SameOrders DEF SentAs, LogStutters
<1>3. CASE out.shape # NoOrder
  <2>1. Truth' = [Truth EXCEPT ![c] = WhatIsTrue(c)']
    BY <1>1, OneOrder DEF SentAs
  <2>2. WhatIsTrue(c)' \in {"absent", "live", "settled"} /\ Truth[c] = "absent"
    BY <1>1, <1>3 DEF SentAs, WhatIsTrue, Truth
  <2>3. Opening' = IF i = "open" THEN Opening \union {c} ELSE Opening
    BY <1>1, <1>3 DEF SentAs, Opening, IntentInv
  <2>4. Written' = Written
    BY SameJournal
  <2> QED BY <2>1, <2>2, <2>3, <2>4, LogActions, LogNexts
<1> QED BY <1>2, <1>3

\* What the reconciler reads back is learnt, or was already written.
LEMMA ReadingIsLogged ==
  ASSUME TypeInv, DecisionInv, AskedWereSent, EvidenceInv, ReadBack
  PROVE  Log!LogNext \/ LogStutters
<1>1. PICK c \in memory.asked :
        AtBroker(c) /\ journal' = [journal EXCEPT ![c].outcome = ShapeOf(orders[c])]
  BY DEF ReadBack
<1>2. /\ c \in DOMAIN journal /\ journal[c] \in Record /\ c \in Ids
      /\ journal[c].outcome.status \notin Terminal /\ journal[c].stage = "submitted"
  BY DEF DecisionInv, AskedAreUnsettled, AskedWereSent, TypeInv, TypeOK, MapsIds
<1>3. /\ DOMAIN journal' = DOMAIN journal
      /\ \A d \in DOMAIN journal \ {c} : journal'[d] = journal[d]
      /\ journal'[c] = [journal[c] EXCEPT !.outcome = ShapeOf(orders[c])]
  BY <1>1, <1>2
<1>4. journal'[c].stage = "submitted" /\ journal'[c].outcome = ShapeOf(orders[c])
  BY <1>2, <1>3 DEF Record
<1>5. ShapeOf(orders[c]).status = orders[c].status
  BY DEF ShapeOf
<1>6. Written' = [Written EXCEPT ![c] = WhatIsWritten(c)']
  BY <1>2, <1>3, OneRecord
<1>7. UNCHANGED <<Truth, Opening, latch>>
  BY SameOrders DEF ReadBack
<1>8. Written[c] = "sent"
  BY <1>2 DEF Written, WhatIsWritten, StageOf, Terminal
<1>9. CASE orders[c].status \in Terminal
  <2>1. WhatIsWritten(c)' = "settled"
    BY <1>2, <1>3, <1>4, <1>5, <1>9 DEF WhatIsWritten
  <2>2. Truth[c] = "settled"
    BY <1>1, <1>2, <1>9 DEF Truth, WhatIsTrue
  <2> QED BY <1>2, <1>6, <1>7, <1>8, <2>1, <2>2, LogActions, LogNexts
<1>10. CASE orders[c].status \notin Terminal
  <2>1. WhatIsWritten(c)' = "sent"
    BY <1>2, <1>3, <1>4, <1>5, <1>10 DEF WhatIsWritten, StageOf, Terminal
  <2>2. Written' = Written
    BY <1>2, <1>6, <1>8, <2>1 DEF Written
  <2> QED BY <1>7, <2>2 DEF LogStutters
<1> QED BY <1>9, <1>10

\* What happens to an order at the broker happens to its decision.
LEMMA SettlingIsLogged ==
  ASSUME TypeInv, BrokerStep \/ NightStep
  PROVE  Log!LogNext \/ LogStutters
<1>1. ASSUME NEW c \in DOMAIN orders, NEW x \in Shapes, Becomes(c, x),
             orders[c].status \in Live, x.status # "flying"
      PROVE  Log!LogNext
  <2>1. c \in Ids
    BY DEF TypeInv, TypeOK, MapsIds
  <2>2. /\ DOMAIN orders' = DOMAIN orders
        /\ \A d \in DOMAIN orders \ {c} : orders'[d] = orders[d]
        /\ \A d \in DOMAIN orders : orders'[d].intent = orders[d].intent
        /\ orders'[c].status = x.status
    BY <1>1, BecomesKeepsIntent DEF TypeInv
  <2>3. Truth' = [Truth EXCEPT ![c] = WhatIsTrue(c)']
    BY <2>1, <2>2, OneOrder
  <2>4. WhatIsTrue(c)' \in {"live", "settled"}
    BY <1>1, <2>2 DEF WhatIsTrue, AtBroker
  <2>5. Truth[c] # "settled"
    BY <1>1, <2>1 DEF Truth, WhatIsTrue, Live, Terminal
  <2>6. Opening' = Opening
    BY <2>2 DEF Opening
  <2>7. Written' = Written /\ latch' = latch
    BY <1>1, SameJournal DEF Becomes
  <2> QED BY <2>1, <2>3, <2>4, <2>5, <2>6, <2>7, LogActions, LogNexts
<1>2. ASSUME NEW c \in DOMAIN orders, Arrives(c) PROVE Log!LogNext
  <2>1. Shape("working", 0) \in Shapes /\ Shape("working", 0).status # "flying"
    BY DEF Shape, Shapes, Live, Terminal
  <2> QED BY <1>1, <1>2, <2>1 DEF Arrives, Live
<1>3. ASSUME NEW c \in DOMAIN orders, Moves(c) PROVE Log!LogNext
  BY <1>1, <1>3 DEF Moves, Live
<1>4. ASSUME NEW c \in DOMAIN orders, Expires(c) PROVE Log!LogNext
  <2>1. orders[c] \in Order /\ orders[c].status \in Live
    BY <1>4 DEF Expires, TypeInv, TypeOK, MapsIds
  <2>2. Shape("canceled", orders[c].legs) \in Shapes /\ Shape("canceled", orders[c].legs).status # "flying"
    BY <2>1 DEF Order, Shape, Shapes, Live, Terminal
  <2> QED BY <1>1, <1>4, <2>1, <2>2 DEF Expires
<1>5. ASSUME NEW c \in DOMAIN orders, Vanishes(c) PROVE Log!LogNext
  <2>1. c \in Ids /\ Truth[c] = "absent"
    BY <1>5 DEF Vanishes, TypeInv, TypeOK, MapsIds, Truth, WhatIsTrue, AtBroker
  <2>2. /\ DOMAIN orders' = DOMAIN orders \ {c}
        /\ \A d \in DOMAIN orders \ {c} : orders'[d] = orders[d]
    BY <1>5 DEF Vanishes, Without
  <2>3. Truth' = [Truth EXCEPT ![c] = WhatIsTrue(c)']
    BY <2>1, <2>2, OneOrder
  <2>4. WhatIsTrue(c)' = "absent"
    BY <2>2 DEF WhatIsTrue, AtBroker
  <2>5. Truth' = Truth
    BY <2>1, <2>3, <2>4 DEF Truth
  <2>6. Opening' = Opening \ {c}
    BY <2>2 DEF Opening
  <2>7. Written' = Written /\ latch' = latch
    BY <1>5, SameJournal DEF Vanishes
  <2> QED BY <2>1, <2>5, <2>6, <2>7, LogActions, LogNexts
<1> QED BY <1>2, <1>3, <1>4, <1>5 DEF BrokerStep, NightStep

\* Every step of the agent, its environment and its faults is a step of the log.
LEMMA LogStep ==
  ASSUME TypeInv, DecisionInv, LatchLoaded, EvidenceInv, IntentInv, AskedWereSent, [Next]_vars
  PROVE  Log!LogNext \/ LogStutters
<1>1. CASE SubmitExit
  <2>1. PICK p : Send(ExitId(agent.slot, memory.offset), "close", p.structure)
    BY <1>1 DEF SubmitExit
  <2>2. UNCHANGED <<journal, latch>>
    BY <1>1 DEF SubmitExit
  <2> QED BY <1>1, <2>1, <2>2, ExitsAreNoEntries, SendingIsLogged DEF Intent
<1>2. CASE Enter
  <2>1. PICK s : Send(EntryId(agent.slot), "open", s)
    BY <1>2 DEF Enter
  <2>2. UNCHANGED <<journal, latch>> /\ agent.slot \in Slots /\ ~latch
    BY <1>2 DEF Enter, MayEnter, ExitsDone, TypeInv, RunningSlot, LatchLoaded
  <2> QED BY <2>1, <2>2, EntriesAreEntries, SendingIsLogged DEF Intent
<1>3. CASE ReadBack
  BY <1>3, ReadingIsLogged
<1>4. CASE RecordExit
  <2>1. PICK c \in DOMAIN unrecorded : Append(c, unrecorded[c])
    BY <1>4 DEF RecordExit
  <2>2. c \in Ids /\ c \notin DOMAIN journal
    BY DEF TypeInv, TypeOK, MapsIds, DecisionInv, RecordsAreNew
  <2>3. BorneOut(orders, c, unrecorded[c]) /\ unrecorded[c].outcome = NoOutcome
    BY DEF EvidenceInv
  <2>4. UNCHANGED <<orders, latch>>
    BY <1>4 DEF RecordExit
  <2> QED BY <2>1, <2>2, <2>3, <2>4, WritingIsLogged
<1>5. CASE NoTrade
  <2>1. EntryId(agent.slot) \in Ids /\ EntryId(agent.slot) \notin DOMAIN journal
    BY <1>5, MintedIds DEF NoTrade, MayEnter, ExitsDone, TypeInv, RunningSlot, DecisionInv, JournalIsBehind
  <2>2. BorneOut(orders, EntryId(agent.slot), NoTradeRecord) /\ NoTradeRecord.outcome = NoOutcome
    BY DEF BorneOut, NoTradeRecord, NewRecord, StageOf, NoOutcome, Terminal
  <2>3. UNCHANGED <<orders, latch>> /\ Append(EntryId(agent.slot), NoTradeRecord)
    BY <1>5 DEF NoTrade
  <2> QED BY <2>1, <2>2, <2>3, WritingIsLogged
<1>6. CASE RecordEntry
  <2> DEFINE c == EntryId(agent.slot)
  <2>1. c \in DOMAIN unrecorded /\ Append(c, unrecorded[c]) /\ UNCHANGED <<orders, latch>>
    BY <1>6 DEF RecordEntry, TypeInv, RunningSlot
  <2>2. c \in Ids /\ c \notin DOMAIN journal
    BY <2>1 DEF TypeInv, TypeOK, MapsIds, DecisionInv, RecordsAreNew
  <2>3. BorneOut(orders, c, unrecorded[c]) /\ unrecorded[c].outcome = NoOutcome
    BY <2>1 DEF EvidenceInv
  <2> QED BY <2>1, <2>2, <2>3, WritingIsLogged
<1>7. CASE Latch
  <2>1. latch' = TRUE /\ UNCHANGED <<Written, Truth, Opening>>
    BY <1>7, SameJournal, SameOrders DEF Latch
  <2> QED BY <2>1 DEF Log!LogNext, Log!Trip, Written, Truth, Opening
<1>8. CASE BrokerStep \/ NightStep
  BY <1>8, SettlingIsLogged
<1>9. CASE Start \/ Tick \/ Death \/ ReadBook \/ GatherFails \/ HoldPosition \/ FinishGather
           \/ ReadBackFails \/ StopAfterExits \/ SkipEntry \/ UNCHANGED vars
  <2>1. UNCHANGED <<journal, orders, latch>>
    BY <1>9 DEF Start, Tick, Death, SessionDies, ProcessDies, ReadBook, GatherFails, HoldPosition,
                FinishGather, ReadBackFails, StopAfterExits, SkipEntry, vars
  <2> QED BY <2>1, SameJournal, SameOrders DEF LogStutters
<1> QED BY <1>1, <1>2, <1>3, <1>4, <1>5, <1>6, <1>7, <1>8, <1>9 DEF Next, AgentStep

LEMMA LogBegins == ASSUME Init PROVE Log!LogInit
<1>1. DOMAIN journal = {} /\ DOMAIN orders = {} /\ latch = FALSE
  BY NothingType DEF Init
<1> QED BY <1>1 DEF Log!LogInit, WhatIsWritten, WhatIsTrue, AtBroker

LEMMA OrdersBegin == ASSUME Init PROVE IntentInv /\ AskedWereSent
<1>1. DOMAIN journal = {} /\ DOMAIN orders = {} /\ DOMAIN unrecorded = {} /\ memory.asked = {}
  BY NothingType, BlankAsks DEF Init
<1> QED BY <1>1 DEF IntentInv, AskedWereSent

\* What every theorem about the orders rests on, and it holds.
Ground == TypeInv /\ DecisionInv /\ LatchLoaded /\ EvidenceInv /\ IntentInv /\ AskedWereSent

LEMMA GroundHolds == Spec => []Ground
<1>1. Init => Ground
  <2> SUFFICES ASSUME Init PROVE Ground
    OBVIOUS
  <2>1. TypeInv
    BY TypeInit DEF Init, Off, TypeInv, RunningSlot
  <2>2. DecisionInv
    BY NothingType, BlankAsks
       DEF Init, Off, DecisionInv, JournalIsBehind, RecordsAreNew, AskedAreUnsettled
  <2>3. LatchLoaded /\ EvidenceInv
    BY NothingType DEF Init, Off, LatchLoaded, EvidenceInv
  <2> QED BY <2>1, <2>2, <2>3, OrdersBegin DEF Ground
<1>2. Ground /\ [Next]_vars => Ground'
  BY TypeInductive, DecisionInductive, LatchInductive, EvidenceInductive, IntentInductive,
     AskedInductive DEF Ground
<1> QED BY <1>1, <1>2, PTL DEF Spec

\* The agent implements the decision log, with every fault at once: a decision
\* is written once, as sent only when its order is at the broker and as settled
\* only when it is settled there, and nothing opens once the switch is tripped.
THEOREM AgentKeepsLog == Spec => KeepsLog
<1>1. Init => Log!LogInit
  BY LogBegins
<1>2. Ground /\ [Next]_vars => [Log!LogNext]_(Log!lvars)
  BY LogStep DEF Ground, LogStutters, Log!lvars, Written, Truth, Opening
<1> QED BY <1>1, <1>2, GroundHolds, PTL DEF Spec, KeepsLog, Log!LogSpec

-----------------------------------------------------------------------------
(***************************************************************************)
(* The agent has a record of every order                                   *)
(***************************************************************************)
\* The door says what became of a request.
Truthful == "unknown" \notin Faults

\* What an order and its record say of each other.
Matches(o, r) ==
  /\ o.intent = r.intent /\ o.structure = r.structure /\ o.status # "flying"
  /\ r.stage \in {"submitted", "filled", "breached"} \/ o.status = "rejected"
  /\ r.stage = "breached" => o.legs >= 1

\* Only exits are forgotten, by a gather that raises after it has sent them.
OrdersRecorded ==
  \A c \in DOMAIN orders :
    \/ c \in DOMAIN journal /\ Matches(orders[c], journal[c])
    \/ c \in DOMAIN unrecorded /\ Matches(orders[c], unrecorded[c])
    \/ "lost" \in Faults /\ ~IsEntry(c)

\* The exits of a gather are numbered as they are sent; an entry is alone.
RecordsInOrder ==
  /\ agent.pc = "exiting" => \A c \in DOMAIN unrecorded : c[2] < memory.offset
  /\ agent.pc = "entered" => DOMAIN unrecorded = {EntryId(agent.slot)}

LEMMA TruthfulOutcomes ==
  ASSUME Truthful, NEW c, NEW out \in Outcomes(c), out.shape # NoOrder
  PROVE  /\ out.shape.status # "flying"
         /\ out.stage \in {"submitted", "filled", "breached"} \/ out.shape.status = "rejected"
         /\ out.stage = "breached" => out.shape.legs = 1
BY DEF Truthful, Outcomes, Outcome, Shape, NoOrder

LEMMA OrderInductive ==
  ASSUME TypeInv, DecisionInv, RecordsInOrder, [Next]_vars
  PROVE  RecordsInOrder'
<1>1. CASE agent'.pc \notin {"exiting", "entered"}
  BY <1>1 DEF RecordsInOrder
<1>2. CASE UNCHANGED <<agent, memory, unrecorded>>
  BY <1>2 DEF RecordsInOrder
<1>3. CASE ReadBook
  <2>1. DOMAIN unrecorded' = {} /\ agent'.pc # "entered"
    BY <1>3 DEF ReadBook, Due, DecisionInv, RecordsAreNew, TypeInv, TypeOK, AgentType
  <2> QED BY <2>1 DEF RecordsInOrder
<1>4. CASE HoldPosition \/ SubmitExit
  <2>1. agent'.pc = "exiting" /\ agent.pc = "exiting"
    BY <1>4 DEF HoldPosition, SubmitExit
  <2>2. memory'.offset = memory.offset + 1 /\ memory.offset \in Nat
    BY <1>4 DEF HoldPosition, SubmitExit, PassExit, TypeInv, TypeOK, MemoryType
  <2>3. \A c \in DOMAIN unrecorded : c[2] \in Nat /\ c[2] < memory.offset
    BY <2>1, Numbers, IdParts DEF RecordsInOrder
  <2>4. CASE HoldPosition
    BY <2>1, <2>2, <2>3, <2>4 DEF HoldPosition, RecordsInOrder
  <2>5. CASE SubmitExit
    <3> DEFINE c == ExitId(agent.slot, memory.offset)
    <3>1. DOMAIN unrecorded' = DOMAIN unrecorded \union {c} /\ c[2] = memory.offset
      BY <2>5, ExitsAreNoEntries, SendRecords DEF SubmitExit
    <3> QED BY <2>1, <2>2, <2>3, <3>1 DEF RecordsInOrder
  <2> QED BY <1>4, <2>4, <2>5
<1>5. CASE Enter
  <2>1. agent'.pc = "entered" /\ agent'.slot = agent.slot /\ DOMAIN unrecorded = {} /\ agent.slot \in Slots
    BY <1>5 DEF Enter, MayEnter, ExitsDone, TypeInv, TypeOK, AgentType, RunningSlot
  <2>2. DOMAIN unrecorded' = {EntryId(agent.slot)}
    BY <1>5, <2>1, EntriesAreEntries, SendRecords DEF Enter
  <2> QED BY <2>1, <2>2 DEF RecordsInOrder
<1>6. ASSUME NEW e, GoOn(e) PROVE agent'.pc \notin {"exiting", "entered"}
  BY <1>6 DEF GoOn, Off, TypeInv, TypeOK, AgentType
<1>7. Stop \/ Resume => agent'.pc \notin {"exiting", "entered"}
  BY DEF Stop, Resume, Off, TypeInv, TypeOK, AgentType
<1>8. CASE GatherFails \/ StopAfterExits \/ SkipEntry \/ NoTrade \/ RecordEntry \/ SessionDies \/ ProcessDies
  <2>1. ProcessDies => agent'.pc \notin {"exiting", "entered"}
    BY DEF ProcessDies, Off
  <2>2. ~ProcessDies => Stop \/ Resume \/ \E e : GoOn(e)
    BY <1>8 DEF GatherFails, StopAfterExits, SkipEntry, NoTrade, RecordEntry, SessionDies
  <2> QED BY <1>1, <1>6, <1>7, <2>1, <2>2
<1>9. CASE Start \/ FinishGather \/ Latch
  <2>1. Start \/ Latch => agent'.pc \notin {"exiting", "entered"}
    BY DEF Start, Latch, Off
  <2>2. FinishGather => agent'.pc = "reconciling"
    BY DEF FinishGather, TypeInv, TypeOK, AgentType
  <2> QED BY <1>1, <1>9, <2>1, <2>2
<1>10. CASE ReadBack \/ ReadBackFails \/ RecordExit
  <2>1. agent'.pc \notin {"exiting", "entered"}
    BY <1>10 DEF ReadBack, ReadBackFails, RecordExit, Asking
  <2> QED BY <1>1, <2>1
<1>11. CASE Tick \/ BrokerStep \/ NightStep \/ UNCHANGED vars
  BY <1>2, <1>11, BrokerMoves DEF Tick, vars
<1> QED BY <1>3, <1>4, <1>5, <1>8, <1>9, <1>10, <1>11 DEF Next, AgentStep, Death

LEMMA RecordedSend ==
  ASSUME Truthful, TypeInv, OrdersRecorded, NEW c \in Ids, NEW i, NEW s, Send(c, i, s),
         c \notin DOMAIN journal, c \notin DOMAIN unrecorded, journal' = journal,
         i = "open" <=> IsEntry(c), IntentInv
  PROVE  OrdersRecorded'
<1>1. PICK out \in Outcomes(c) : SentAs(c, i, s, out)
  BY SendParts
<1>2. ASSUME NEW d \in DOMAIN orders', d # c
      PROVE  \/ d \in DOMAIN journal' /\ Matches(orders'[d], journal'[d])
             \/ d \in DOMAIN unrecorded' /\ Matches(orders'[d], unrecorded'[d])
             \/ "lost" \in Faults /\ ~IsEntry(d)
  BY <1>1, <1>2 DEF SentAs, OrdersRecorded
<1>3. CASE out.shape = NoOrder
  <2>1. orders' = orders
    BY <1>1, <1>3 DEF SentAs
  <2>2. c \in DOMAIN orders => "lost" \in Faults /\ ~IsEntry(c)
    BY DEF OrdersRecorded
  <2> QED BY <1>2, <2>1, <2>2 DEF OrdersRecorded
<1>4. CASE out.shape # NoOrder
  <2>1. /\ out.shape.status # "flying"
        /\ out.stage \in {"submitted", "filled", "breached"} \/ out.shape.status = "rejected"
        /\ out.stage = "breached" => out.shape.legs = 1
    BY <1>4, TruthfulOutcomes
  <2>2. Matches(orders'[c], unrecorded'[c]) /\ c \in DOMAIN unrecorded'
    BY <1>1, <1>4, <2>1 DEF SentAs, Matches, NewRecord
  <2> QED BY <1>2, <2>2 DEF OrdersRecorded
<1> QED BY <1>3, <1>4

\* An order that moves still matches its record.
LEMMA StillMatches ==
  ASSUME TypeInv, NEW c \in DOMAIN orders, NEW x \in Shapes, Becomes(c, x), x.status # "flying",
         orders[c].status \in Live, x.legs >= orders[c].legs, NEW r, Matches(orders[c], r)
  PROVE  Matches(orders'[c], r)
<1>1. /\ orders'[c].intent = orders[c].intent /\ orders'[c].structure = orders[c].structure
      /\ orders'[c].status = x.status /\ orders'[c].legs = x.legs
  BY BecomesKeepsIntent DEF TypeInv
<1>2. orders[c].status # "rejected"
  BY DEF Live
<1>3. orders[c] \in Order
  BY DEF TypeInv, TypeOK, MapsIds
<1>4. orders[c].legs \in Nat /\ x.legs \in Nat
  BY <1>3 DEF Order, Shapes
<1>5. r.stage = "breached" => x.legs >= 1
  BY <1>4 DEF Matches
<1> QED BY <1>1, <1>2, <1>5 DEF Matches

LEMMA RecordedMoves ==
  ASSUME TypeInv, OrdersRecorded, BrokerStep \/ NightStep
  PROVE  OrdersRecorded'
<1>1. UNCHANGED <<journal, unrecorded>>
  BY BrokerMoves
<1>2. ASSUME NEW c \in DOMAIN orders, NEW x \in Shapes, Becomes(c, x), x.status # "flying",
             orders[c].status \in Live, x.legs >= orders[c].legs
      PROVE  OrdersRecorded'
  <2>1. DOMAIN orders' = DOMAIN orders /\ \A d \in DOMAIN orders \ {c} : orders'[d] = orders[d]
    BY <1>2, BecomesKeepsIntent DEF TypeInv
  <2>2. \A r : Matches(orders[c], r) => Matches(orders'[c], r)
    BY <1>2, StillMatches
  <2> QED BY <1>1, <2>1, <2>2 DEF OrdersRecorded
<1>3. ASSUME NEW c \in DOMAIN orders, Arrives(c) PROVE OrdersRecorded'
  <2>1. Shape("working", 0) \in Shapes /\ Shape("working", 0).status # "flying"
    BY DEF Shape, Shapes, Live, Terminal
  <2>2. orders[c].legs = 0 /\ Shape("working", 0).legs = 0
    BY <1>3 DEF Arrives, TypeInv, TypeOK, MapsIds, Order, Shapes, Shape
  <2>3. Shape("working", 0).legs >= orders[c].legs /\ orders[c].status \in Live
    BY <1>3, <2>2 DEF Arrives, Live
  <2> QED BY <1>2, <1>3, <2>1, <2>3 DEF Arrives
<1>4. ASSUME NEW c \in DOMAIN orders, Moves(c) PROVE OrdersRecorded'
  BY <1>2, <1>4 DEF Moves, Live
<1>5. ASSUME NEW c \in DOMAIN orders, Expires(c) PROVE OrdersRecorded'
  <2>1. orders[c] \in Order /\ orders[c].status \in Live
    BY <1>5 DEF Expires, TypeInv, TypeOK, MapsIds
  <2>2. Shape("canceled", orders[c].legs) \in Shapes /\ Shape("canceled", orders[c].legs).status # "flying"
    BY <2>1 DEF Order, Shape, Shapes, Live, Terminal
  <2>3. Shape("canceled", orders[c].legs).legs >= orders[c].legs
    BY <2>1 DEF Shape, Order
  <2> QED BY <1>2, <1>5, <2>1, <2>2, <2>3 DEF Expires
<1>6. ASSUME NEW c \in DOMAIN orders, Vanishes(c) PROVE OrdersRecorded'
  <2>1. DOMAIN orders' \subseteq DOMAIN orders /\ \A d \in DOMAIN orders' : orders'[d] = orders[d]
    BY <1>6 DEF Vanishes, Without
  <2> QED BY <1>1, <2>1 DEF OrdersRecorded
<1> QED BY <1>3, <1>4, <1>5, <1>6 DEF BrokerStep, NightStep

LEMMA RecordedAppend ==
  ASSUME OrdersRecorded, NEW c, c \notin DOMAIN journal, orders' = orders,
         \/ c \in DOMAIN unrecorded /\ Append(c, unrecorded[c])
         \/ c \notin DOMAIN unrecorded /\ \E r : Append(c, r),
         \A d \in DOMAIN unrecorded \ {c} : d \in DOMAIN unrecorded' /\ unrecorded'[d] = unrecorded[d]
  PROVE  OrdersRecorded'
<1>1. /\ \A d \in DOMAIN journal : d \in DOMAIN journal' /\ journal'[d] = journal[d]
      /\ c \in DOMAIN unrecorded => c \in DOMAIN journal' /\ journal'[c] = unrecorded[c]
  BY DEF Append, With
<1> QED BY <1>1 DEF OrdersRecorded

\* No order is left without its record by a session that is not killed.
LEMMA RecordedInductive ==
  ASSUME Truthful, NothingKills, TypeInv, DecisionInv, IntentInv, RecordsInOrder, OrdersRecorded,
         [Next]_vars
  PROVE  OrdersRecorded'
<1>1. ASSUME DOMAIN unrecorded = {}, orders' = orders, journal' = journal PROVE OrdersRecorded'
  BY <1>1 DEF OrdersRecorded
<1>2. CASE SubmitExit
  <2> DEFINE c == ExitId(agent.slot, memory.offset)
  <2>1. PICK p : Send(c, "close", p.structure)
    BY <1>2 DEF SubmitExit
  <2>2. c \in Ids /\ c[1] = agent.slot /\ c[2] = memory.offset /\ ~IsEntry(c)
    BY <1>2, ExitsAreNoEntries
  <2>3. c \notin DOMAIN journal
    BY <1>2, <2>2, Numbers DEF SubmitExit, DecisionInv, JournalIsBehind
  <2>4. c \notin DOMAIN unrecorded
    <3>1. memory.offset \in Nat
      BY DEF TypeInv, TypeOK, MemoryType
    <3> QED BY <1>2, <2>2, <3>1 DEF SubmitExit, RecordsInOrder
  <2>5. journal' = journal
    BY <1>2 DEF SubmitExit
  <2> HIDE DEF c
  <2> QED BY <2>1, <2>2, <2>3, <2>4, <2>5, RecordedSend
<1>3. CASE Enter
  <2> DEFINE c == EntryId(agent.slot)
  <2>1. PICK s : Send(c, "open", s)
    BY <1>3 DEF Enter
  <2>2. agent.slot \in Slots /\ journal' = journal /\ DOMAIN unrecorded = {} /\ c \notin DOMAIN journal
    BY <1>3 DEF Enter, MayEnter, ExitsDone, TypeInv, RunningSlot, DecisionInv, JournalIsBehind
  <2>3. c \in Ids /\ IsEntry(c)
    BY <2>2, EntriesAreEntries
  <2> HIDE DEF c
  <2> QED BY <2>1, <2>2, <2>3, RecordedSend
<1>4. CASE ReadBack
  <2>1. PICK c \in memory.asked : journal' = [journal EXCEPT ![c].outcome = ShapeOf(orders[c])]
    BY <1>4 DEF ReadBack
  <2>2. c \in DOMAIN journal /\ journal[c] \in Record
    BY <2>1 DEF DecisionInv, AskedAreUnsettled, TypeInv, TypeOK, MapsIds
  <2>3. journal'[c] = [journal[c] EXCEPT !.outcome = ShapeOf(orders[c])]
    BY <2>1, <2>2
  <2>4. /\ journal'[c].intent = journal[c].intent /\ journal'[c].structure = journal[c].structure
        /\ journal'[c].stage = journal[c].stage
    BY <2>2, <2>3 DEF Record
  <2>5. DOMAIN journal' = DOMAIN journal /\ \A d \in DOMAIN journal \ {c} : journal'[d] = journal[d]
    BY <2>1
  <2>6. orders' = orders /\ unrecorded' = unrecorded
    BY <1>4 DEF ReadBack
  <2>7. \A o : Matches(o, journal[c]) => Matches(o, journal'[c])
    BY <2>4 DEF Matches
  <2> QED BY <2>5, <2>6, <2>7 DEF OrdersRecorded
<1>5. CASE RecordExit
  <2>1. PICK c \in DOMAIN unrecorded : Append(c, unrecorded[c]) /\ unrecorded' = Without(unrecorded, c)
    BY <1>5 DEF RecordExit
  <2>2. c \notin DOMAIN journal /\ orders' = orders
    BY <1>5 DEF RecordExit, DecisionInv, RecordsAreNew
  <2>3. \A d \in DOMAIN unrecorded \ {c} : d \in DOMAIN unrecorded' /\ unrecorded'[d] = unrecorded[d]
    BY <2>1 DEF Without
  <2> QED BY <2>1, <2>2, <2>3, RecordedAppend
<1>6. CASE NoTrade
  <2>1. DOMAIN unrecorded = {} /\ orders' = orders /\ Append(EntryId(agent.slot), NoTradeRecord)
    BY <1>6 DEF NoTrade, MayEnter, ExitsDone
  <2>2. EntryId(agent.slot) \notin DOMAIN journal
    BY <1>6 DEF NoTrade, MayEnter, ExitsDone, DecisionInv, JournalIsBehind
  <2> QED BY <2>1, <2>2, RecordedAppend
<1>7. CASE RecordEntry
  <2> DEFINE c == EntryId(agent.slot)
  <2>1. DOMAIN unrecorded = {c} /\ Append(c, unrecorded[c]) /\ orders' = orders
    BY <1>7 DEF RecordEntry, RecordsInOrder
  <2>2. c \notin DOMAIN journal
    BY <2>1 DEF DecisionInv, RecordsAreNew
  <2> QED BY <2>1, <2>2, RecordedAppend
<1>8. CASE GatherFails
  <2>1. orders' = orders /\ journal' = journal
    BY <1>8 DEF GatherFails
  <2>2. CASE Due
    BY <1>1, <2>1, <2>2 DEF Due, DecisionInv, RecordsAreNew
  <2>3. CASE agent.pc = "exiting" /\ "lost" \in Faults
    <3>1. \A c \in DOMAIN unrecorded : ~IsEntry(c)
      <4>1. \A c \in DOMAIN unrecorded : c \in Ids /\ c[1] = agent.slot /\ c # EntryId(agent.slot)
        BY <2>3, Numbers DEF DecisionInv, RecordsAreNew
      <4> QED BY <4>1, IdParts DEF IsEntry, EntryId
    <3> QED BY <2>1, <2>3, <3>1 DEF OrdersRecorded
  <2> QED BY <1>8, <2>2, <2>3 DEF GatherFails
<1>9. CASE StopAfterExits \/ SkipEntry
  BY <1>1, <1>9 DEF StopAfterExits, SkipEntry, ExitsDone
<1>10. CASE BrokerStep \/ NightStep
  BY <1>10, RecordedMoves
<1>11. CASE Start \/ Tick \/ ReadBook \/ HoldPosition \/ FinishGather \/ ReadBackFails \/ Latch
            \/ UNCHANGED vars
  <2>1. UNCHANGED <<journal, unrecorded, orders>>
    BY <1>11 DEF Start, Tick, ReadBook, HoldPosition, FinishGather, ReadBackFails, Latch, vars
  <2> QED BY <2>1 DEF OrdersRecorded
<1>12. ~Death
  BY DEF NothingKills, Death, SessionDies, ProcessDies
<1> QED BY <1>2, <1>3, <1>4, <1>5, <1>6, <1>7, <1>8, <1>9, <1>10, <1>11, <1>12 DEF Next, AgentStep

-----------------------------------------------------------------------------
(***************************************************************************)
(* One entry a session                                                     *)
(***************************************************************************)
Counted == {"submitted", "filled"}

\* A slot whose gather is over has been told of today's entry, if there is one.
TodayBlocks ==
  (/\ agent.pc = "reconciling"
   /\ \E c \in DOMAIN journal : /\ journal[c].intent = "open"
                                /\ Day(c[1]) = Day(agent.slot)
                                /\ StageOf(journal[c]) \in Counted) => memory.blocked

LEMMA DayType == ASSUME NEW s \in Nat PROVE Day(s) \in Int
<1>1. s - 1 \in Int /\ SlotsPerDay \in Nat \ {0}
  OBVIOUS
<1>2. (s - 1) \div SlotsPerDay \in Int
  BY <1>1
<1> QED BY <1>2 DEF Day

\* No session has passed since an entry of today.
LEMMA EnteredToday ==
  ASSUME TypeInv, Spacing >= 1, NEW c \in DOMAIN journal, journal[c].intent = "open",
         Day(c[1]) = Day(agent.slot), StageOf(journal[c]) \in Counted
  PROVE  EntryRefused(Day(agent.slot))
<1>1. Day(agent.slot) \in EntryDays
  BY DEF EntryDays, Counted
<1>2. \A d \in DOMAIN journal : Day(d[1]) \in Int
  BY Numbers, DayType
<1>3. Day(agent.slot) \in Int
  BY Numbers, DayType
<1>4. SessionsSince(Day(agent.slot)) = {}
  BY <1>1, <1>2, <1>3 DEF SessionsSince
<1>5. Cardinality(SessionsSince(Day(agent.slot))) < Spacing
  BY <1>4, FS_EmptySet
<1> QED BY <1>1, <1>5 DEF EntryRefused

LEMMA TodayInductive ==
  ASSUME Spacing >= 1, TypeInv, DecisionInv, IntentInv, TodayBlocks, [Next]_vars
  PROVE  TodayBlocks'
<1> USE DEF TodayBlocks
<1>1. CASE agent'.pc # "reconciling"
  BY <1>1
<1>2. CASE FinishGather
  <2>1. memory'.blocked = EntryRefused(Day(agent.slot))
    BY <1>2 DEF FinishGather, TypeInv, TypeOK, MemoryType
  <2>2. agent'.slot = agent.slot /\ journal' = journal
    BY <1>2 DEF FinishGather, TypeInv, TypeOK, AgentType
  <2> QED BY <2>1, <2>2, EnteredToday
<1>3. CASE ReadBack
  <2>1. PICK c \in memory.asked :
          Asking(c) /\ journal' = [journal EXCEPT ![c].outcome = ShapeOf(orders[c])]
    BY <1>3 DEF ReadBack
  <2>2. c \in DOMAIN journal /\ journal[c] \in Record /\ journal[c].outcome.status \notin Terminal
    BY <2>1 DEF DecisionInv, AskedAreUnsettled, TypeInv, TypeOK, MapsIds
  <2>3. journal'[c] = [journal[c] EXCEPT !.outcome = ShapeOf(orders[c])]
    BY <2>1, <2>2
  <2>4. journal'[c].intent = journal[c].intent /\ journal'[c].stage = journal[c].stage
    BY <2>2, <2>3 DEF Record
  <2>5. StageOf(journal'[c]) \in Counted => StageOf(journal[c]) \in Counted
    BY <2>2, <2>4 DEF StageOf, Counted, Terminal
  <2>6. DOMAIN journal' = DOMAIN journal /\ \A d \in DOMAIN journal \ {c} : journal'[d] = journal[d]
    BY <2>1
  <2>7. agent' = agent /\ memory'.blocked = memory.blocked
    BY <1>3, <2>1 DEF ReadBack, Asking, TypeInv, TypeOK, MemoryType
  <2> QED BY <2>4, <2>5, <2>6, <2>7
<1>4. CASE ReadBackFails
  <2>1. agent' = agent /\ journal' = journal /\ memory'.blocked = memory.blocked
    BY <1>4 DEF ReadBackFails, Asking, TypeInv, TypeOK, MemoryType
  <2> QED BY <2>1
<1>5. CASE RecordExit
  <2>1. PICK c \in DOMAIN unrecorded :
          /\ Append(c, unrecorded[c])
          /\ memory' = [memory EXCEPT !.breached = @ \/ unrecorded[c].stage = "breached"]
    BY <1>5 DEF RecordExit
  <2>2. agent' = agent /\ agent.pc = "reconciling" /\ memory'.blocked = memory.blocked
    BY <1>5, <2>1 DEF RecordExit, TypeInv, TypeOK, MemoryType
  <2>3. c \in Ids /\ c[1] = agent.slot /\ c # EntryId(agent.slot)
    BY <2>2, Numbers DEF DecisionInv, RecordsAreNew
  <2>4. unrecorded[c].intent # "open"
    BY <2>3, IdParts DEF IsEntry, EntryId, IntentInv
  <2>5. \A d \in DOMAIN journal' : d # c => d \in DOMAIN journal /\ journal'[d] = journal[d]
    BY <2>1 DEF Append, With
  <2>6. journal'[c] = unrecorded[c]
    BY <2>1 DEF Append, With
  <2> QED BY <2>2, <2>4, <2>5, <2>6
<1>6. CASE Tick \/ BrokerStep \/ NightStep \/ UNCHANGED vars
  <2>1. UNCHANGED <<agent, memory, journal>>
    BY <1>6, BrokerMoves DEF Tick, vars
  <2> QED BY <2>1
<1>7. ASSUME NEW e, GoOn(e) PROVE agent'.pc # "reconciling"
  BY <1>7 DEF GoOn, Off, TypeInv, TypeOK, AgentType
<1>8. Stop \/ Resume => agent'.pc # "reconciling"
  BY DEF Stop, Resume, Off, TypeInv, TypeOK, AgentType
<1>9. CASE GatherFails \/ StopAfterExits \/ SkipEntry \/ NoTrade \/ RecordEntry \/ SessionDies
  <2>1. Stop \/ Resume \/ \E e : GoOn(e)
    BY <1>9 DEF GatherFails, StopAfterExits, SkipEntry, NoTrade, RecordEntry, SessionDies
  <2> QED BY <1>1, <1>7, <1>8, <2>1
<1>10. CASE Start \/ ReadBook \/ HoldPosition \/ SubmitExit \/ Enter \/ Latch \/ ProcessDies
  <2>1. Start \/ Latch \/ ProcessDies => agent'.pc # "reconciling"
    BY DEF Start, Latch, ProcessDies, Off
  <2>2. HoldPosition \/ SubmitExit => agent'.pc # "reconciling"
    BY DEF HoldPosition, SubmitExit
  <2>3. ReadBook \/ Enter => agent'.pc # "reconciling"
    BY DEF ReadBook, Enter, TypeInv, TypeOK, AgentType
  <2> QED BY <1>1, <1>10, <2>1, <2>2, <2>3
<1> QED BY <1>2, <1>3, <1>4, <1>5, <1>6, <1>9, <1>10 DEF Next, AgentStep, Death

\* An entry the broker did not reject is one the slot has been told of.
LEMMA EntryIsKnown ==
  ASSUME TypeInv, EvidenceInv, IntentInv, OrdersRecorded, LatchLoaded, BreachInv, MayEnter,
         NEW d \in DOMAIN orders, orders[d].intent = "open", orders[d].status # "rejected"
  PROVE  d \in DOMAIN journal /\ journal[d].intent = "open" /\ StageOf(journal[d]) \in Counted
<1>1. DOMAIN unrecorded = {} /\ IsEntry(d)
  BY DEF MayEnter, ExitsDone, IntentInv
<1>2. d \in DOMAIN journal /\ Matches(orders[d], journal[d])
  BY <1>1 DEF OrdersRecorded
<1>3. journal[d].intent = "open" /\ journal[d].stage \in {"submitted", "filled", "breached"}
  BY <1>2 DEF Matches
<1>4. journal[d].stage # "breached"
  <2>1. agent.pc = "reconciling" /\ ~agent.latched /\ ~memory.breached
    BY DEF MayEnter, ExitsDone
  <2> QED BY <1>2, <2>1 DEF Breached, BreachInv, LatchLoaded
<1>5. journal[d].outcome.status # "rejected"
  <2>1. BorneOut(orders, d, journal[d])
    BY <1>2 DEF EvidenceInv
  <2> QED BY <2>1 DEF BorneOut, Terminal, ShapeOf
<1> QED BY <1>2, <1>3, <1>4, <1>5 DEF StageOf, Counted

\* What the broker's orders for two entries must be for both to be real.
LEMMA EntriesStayApart ==
  ASSUME Ground, Ground', OrdersRecorded, OneEntryPerSession, [Next]_vars,
         NEW c \in DOMAIN orders, NEW d \in DOMAIN orders, c \in DOMAIN orders', d \in DOMAIN orders',
         {orders'[c].intent, orders'[d].intent} = {"open"}, Day(c[1]) = Day(d[1]),
         {orders'[c].status, orders'[d].status} \intersect {"rejected", "flying"} = {}
  PROVE  c = d
<1>1. orders[c].intent = "open" /\ orders[d].intent = "open" /\ IsEntry(c) /\ IsEntry(d)
  BY DEF Ground, IntentInv
<1>2. orders[c].status # "flying" /\ orders[d].status # "flying"
  BY <1>1 DEF OrdersRecorded, Matches
<1>3. Keeps(orders, orders')
  BY BrokerKeeps DEF Ground
<1>4. orders[c].status # "rejected" /\ orders[d].status # "rejected"
  BY <1>2, <1>3 DEF Keeps, Has, Terminal
<1> QED BY <1>1, <1>2, <1>4 DEF OneEntryPerSession

LEMMA OneEntryInductive ==
  ASSUME Ground, Ground', BreachInv, OrdersRecorded, TodayBlocks, OneEntryPerSession, [Next]_vars
  PROVE  OneEntryPerSession'
<1> SUFFICES ASSUME NEW c \in DOMAIN orders', NEW d \in DOMAIN orders',
                    {orders'[c].intent, orders'[d].intent} = {"open"},
                    Day(c[1]) = Day(d[1]),
                    {orders'[c].status, orders'[d].status} \intersect {"rejected", "flying"} = {}
             PROVE  c = d
  BY DEF OneEntryPerSession
<1>1. CASE ~Enter
  <2>1. c \in DOMAIN orders /\ d \in DOMAIN orders
    BY <1>1, OnlyEntryOpens DEF Ground, Opened
  <2> QED BY <2>1, EntriesStayApart
<1>2. CASE Enter
  <2> DEFINE e == EntryId(agent.slot)
  <2>1. PICK s : Send(e, "open", s)
    BY <1>2 DEF Enter
  <2>2. MayEnter /\ ~memory.blocked /\ agent.pc = "reconciling" /\ agent.slot \in Slots
    BY <1>2 DEF Enter, MayEnter, ExitsDone, Ground, TypeInv, RunningSlot
  <2>3. e \in Ids /\ e[1] = agent.slot
    BY <2>2, EntriesAreEntries
  <2>4. DOMAIN orders' \subseteq DOMAIN orders \union {e}
    BY <2>1, <2>3, SendParts DEF SentAs, Ground
  <2>5. ASSUME NEW x \in DOMAIN orders, orders'[x].intent = "open", x \in DOMAIN orders',
               orders'[x].status \notin {"rejected", "flying"}, x # e
        PROVE  Day(x[1]) # Day(e[1])
    <3>1. orders[x].intent = "open"
      BY <2>5 DEF Ground, IntentInv
    <3>2. orders[x].status # "rejected"
      <4>1. Keeps(orders, orders')
        BY BrokerKeeps DEF Ground
      <4> QED BY <2>5, <4>1 DEF Keeps, Has, Terminal
    <3>3. x \in DOMAIN journal /\ journal[x].intent = "open" /\ StageOf(journal[x]) \in Counted
      BY <2>2, <3>1, <3>2, EntryIsKnown DEF Ground
    <3> QED BY <2>2, <2>3, <3>3 DEF TodayBlocks
  <2>6. c # e => c \in DOMAIN orders /\ Day(c[1]) # Day(e[1])
    BY <2>4, <2>5
  <2>7. d # e => d \in DOMAIN orders /\ Day(d[1]) # Day(e[1])
    BY <2>4, <2>5
  <2>8. c # e /\ d # e => c = d
    BY <2>6, <2>7, EntriesStayApart
  <2> QED BY <2>6, <2>7, <2>8
<1> QED BY <1>1, <1>2

\* Everything the theorems about orders rest on, for an honest door and
\* sessions that are not killed.
Orderly == Ground /\ BreachInv /\ OrdersRecorded /\ RecordsInOrder

LEMMA OrderlyHolds == ASSUME NothingKills, Truthful PROVE Spec => []Orderly
<1>1. Init => BreachInv /\ OrdersRecorded /\ RecordsInOrder
  BY NothingType DEF Init, Off, BreachInv, Breached, OrdersRecorded, RecordsInOrder
<1>2. Ground /\ BreachInv /\ [Next]_vars => BreachInv'
  BY BreachInductive DEF Ground
<1>3. Ground /\ RecordsInOrder /\ [Next]_vars => RecordsInOrder'
  BY OrderInductive DEF Ground
<1>4. Ground /\ RecordsInOrder /\ OrdersRecorded /\ [Next]_vars => OrdersRecorded'
  BY RecordedInductive DEF Ground
<1> QED BY <1>1, <1>2, <1>3, <1>4, GroundHolds, PTL DEF Spec, Orderly

\* Of the opening orders of a day, however many slots and sessions it has, all
\* but one are rejected by the broker, whatever else a gather, a read or the
\* venue does.
THEOREM OneEntryADay ==
  ASSUME NothingKills, Truthful, Spacing >= 1
  PROVE  Spec => []OneEntryPerSession
<1>1. Init => TodayBlocks /\ OneEntryPerSession
  BY DEF Init, Off, TodayBlocks, OneEntryPerSession
<1>2. Orderly /\ TodayBlocks /\ [Next]_vars => TodayBlocks'
  BY TodayInductive DEF Orderly, Ground
<1>3. Orderly /\ Orderly' /\ TodayBlocks /\ OneEntryPerSession /\ [Next]_vars => OneEntryPerSession'
  BY OneEntryInductive DEF Orderly
<1> QED BY <1>1, <1>2, <1>3, OrderlyHolds, PTL DEF Spec

-----------------------------------------------------------------------------
(***************************************************************************)
(* No leg is closed more often than it was opened                          *)
(***************************************************************************)
\* The positions of s whose exit the gather has still to decide on.
Pending(s) == {p \in memory.todo : p.structure = s}

Room(s, n) == Cardinality(Closing(s, n)) + Cardinality(Pending(s)) <= Cardinality(Placed("open", s, n))

ClosesInv == \A s \in Structures, n \in 1..2 : n = 1 \/ ~CloseBreached(s) => Room(s, n)

\* A set of positions of one spread is no larger than the set of their ids.
LEMMA PositionsOf ==
  ASSUME NEW s, NEW P, \A p \in P : p \in Position /\ p.structure = s
  PROVE  /\ IsFiniteSet(P) /\ IsFiniteSet({p.id : p \in P}) /\ {p.id : p \in P} \subseteq Ids
         /\ Cardinality(P) <= Cardinality({p.id : p \in P})
<1> DEFINE A == {p.id : p \in P}
           f == [c \in A |-> [id |-> c, structure |-> s]]
<1>1. A \subseteq Ids
  BY DEF Position
<1>2. IsFiniteSet(A)
  BY <1>1, IdsFinite, FS_Subset
<1>3. \A p \in P : p = [id |-> p.id, structure |-> s]
  BY DEF Position
<1>4. f \in Surjection(A, P)
  <2>1. f \in [A -> P]
    BY <1>3
  <2>2. \A p \in P : p.id \in A /\ f[p.id] = p
    BY <1>3
  <2> QED BY <2>1, <2>2 DEF Surjection
<1> QED BY <1>1, <1>2, <1>4, FS_Surjection

LEMMA CountsFinite ==
  ASSUME TypeInv
  PROVE  \A s, n : /\ IsFiniteSet(Closing(s, n)) /\ Cardinality(Closing(s, n)) \in Nat
                   /\ IsFiniteSet(Pending(s)) /\ Cardinality(Pending(s)) \in Nat
                   /\ \A i : IsFiniteSet(Placed(i, s, n)) /\ Cardinality(Placed(i, s, n)) \in Nat
<1> TAKE s, n
<1>1. DOMAIN orders \subseteq Ids
  BY DEF TypeInv, TypeOK, MapsIds
<1>2. IsFiniteSet(Closing(s, n)) /\ \A i : IsFiniteSet(Placed(i, s, n))
  <2>1. Closing(s, n) \subseteq Ids /\ \A i : Placed(i, s, n) \subseteq Ids
    BY <1>1 DEF Closing, Placed
  <2> QED BY <2>1, IdsFinite, FS_Subset
<1>3. IsFiniteSet(Pending(s))
  <2>1. \A p \in Pending(s) : p \in Position /\ p.structure = s
    BY DEF Pending, TypeInv, TypeOK, MemoryType
  <2> QED BY <2>1, PositionsOf
<1> QED BY <1>2, <1>3, FS_CardinalityType

LEMMA RoomKept ==
  ASSUME TypeInv, TypeInv', NEW s, NEW n, Room(s, n), Closing(s, n)' \subseteq Closing(s, n),
         Pending(s)' \subseteq Pending(s), Placed("open", s, n) \subseteq Placed("open", s, n)'
  PROVE  Room(s, n)'
<1>1. /\ Cardinality(Closing(s, n)') <= Cardinality(Closing(s, n))
      /\ Cardinality(Pending(s)') <= Cardinality(Pending(s))
      /\ Cardinality(Placed("open", s, n)) <= Cardinality(Placed("open", s, n)')
      /\ Cardinality(Closing(s, n)') \in Nat /\ Cardinality(Pending(s)') \in Nat
      /\ Cardinality(Placed("open", s, n)') \in Nat
  <2>1. IsFiniteSet(Placed("open", s, n)')
    <3>1. DOMAIN orders' \subseteq Ids
      BY DEF TypeInv, TypeOK, MapsIds
    <3>2. Placed("open", s, n)' \subseteq Ids
      BY <3>1 DEF Placed
    <3> QED BY <3>2, IdsFinite, FS_Subset
  <2> QED BY <2>1, CountsFinite, FS_Subset, FS_CardinalityType
<1>2. /\ Cardinality(Closing(s, n)) \in Nat /\ Cardinality(Pending(s)) \in Nat
      /\ Cardinality(Placed("open", s, n)) \in Nat
  BY CountsFinite
<1> QED BY <1>1, <1>2 DEF Room

\* A record in the journal keeps what it was made with.
LEMMA RecordsKept ==
  ASSUME TypeInv, DecisionInv, [Next]_vars
  PROVE  \A c \in DOMAIN journal : /\ c \in DOMAIN journal'
                                   /\ journal'[c].intent = journal[c].intent
                                   /\ journal'[c].structure = journal[c].structure
                                   /\ journal'[c].stage = journal[c].stage
<1>1. ASSUME NEW c, NEW r, Append(c, r), c \notin DOMAIN journal
      PROVE  \A d \in DOMAIN journal : d \in DOMAIN journal' /\ journal'[d] = journal[d]
  BY <1>1 DEF Append, With
<1>2. CASE RecordExit
  <2>1. PICK c \in DOMAIN unrecorded : Append(c, unrecorded[c])
    BY <1>2 DEF RecordExit
  <2> QED BY <1>1, <2>1 DEF DecisionInv, RecordsAreNew
<1>3. CASE NoTrade
  BY <1>1, <1>3 DEF NoTrade, MayEnter, ExitsDone, DecisionInv, JournalIsBehind
<1>4. CASE RecordEntry
  BY <1>1, <1>4 DEF RecordEntry, DecisionInv, RecordsAreNew, TypeInv, RunningSlot
<1>5. CASE ReadBack
  <2>1. PICK c \in memory.asked : journal' = [journal EXCEPT ![c].outcome = ShapeOf(orders[c])]
    BY <1>5 DEF ReadBack
  <2>2. c \in DOMAIN journal /\ journal[c] \in Record
    BY <2>1 DEF DecisionInv, AskedAreUnsettled, TypeInv, TypeOK, MapsIds
  <2>3. journal'[c] = [journal[c] EXCEPT !.outcome = ShapeOf(orders[c])]
    BY <2>1, <2>2
  <2>4. /\ journal'[c].intent = journal[c].intent /\ journal'[c].structure = journal[c].structure
        /\ journal'[c].stage = journal[c].stage
    BY <2>2, <2>3 DEF Record
  <2>5. DOMAIN journal' = DOMAIN journal /\ \A d \in DOMAIN journal \ {c} : journal'[d] = journal[d]
    BY <2>1
  <2> QED BY <2>4, <2>5
<1>6. CASE ~(RecordExit \/ NoTrade \/ RecordEntry \/ ReadBack)
  <2>1. journal' = journal
    BY <1>6, BrokerMoves
       DEF Next, AgentStep, Start, Tick, ReadBook, GatherFails, HoldPosition, SubmitExit, FinishGather,
           ReadBackFails, StopAfterExits, SkipEntry, Enter, Latch, Death, SessionDies, ProcessDies, vars
  <2> QED BY <2>1
<1> QED BY <1>2, <1>3, <1>4, <1>5, <1>6

\* A set of cycle ids has an oldest one: what is before it is least.
LEMMA OldestId ==
  ASSUME NEW T \in SUBSET Ids, T # {}
  PROVE  \E c \in T : \A d \in T : ~Before(d, c)
<1> DEFINE Older(c) == {d \in T : Before(d, c)}
           Olders == {Older(c) : c \in T}
<1>1. \A c \in T : c[1] \in Nat /\ c[2] \in Nat
  BY IdParts
<1>2. IsFiniteSet(T)
  BY IdsFinite, FS_Subset
<1>3. Olders \subseteq SUBSET T /\ Olders # {}
  OBVIOUS
<1>4. IsWellFoundedOn(StrictSubsetOrdering(T), SUBSET T)
  BY <1>2, FS_StrictSubsetOrderingWellFounded, FS_FiniteSubsetsOfFinite
<1>5. PICK S \in Olders : \A R \in Olders : ~(<<R, S>> \in StrictSubsetOrdering(T))
  BY <1>3, <1>4, WFMin
<1>6. PICK c \in T : S = Older(c)
  BY <1>5
<1>7. ASSUME NEW d \in T, Before(d, c) PROVE FALSE
  <2>1. Older(d) \subseteq Older(c)
    BY <1>1, <1>7 DEF Before
  <2>2. d \in Older(c) /\ d \notin Older(d)
    BY <1>1, <1>7 DEF Before
  <2>3. <<Older(d), Older(c)>> \in StrictSubsetOrdering(T)
    BY <2>1, <2>2 DEF StrictSubsetOrdering
  <2> QED BY <1>5, <1>6, <2>3
<1> QED BY <1>6, <1>7

\* No more records are held than the broker has complete spreads.
LEMMA HeldFits ==
  ASSUME TypeInv, NEW s, Held(s) # {}
  PROVE  /\ IsFiniteSet(Held(s)) /\ Held(s) \subseteq Ids
         /\ Cardinality(Held(s)) <= Lots(s)
<1>1. FilledRecords(s) \subseteq Ids /\ Held(s) \subseteq FilledRecords(s)
  BY DEF FilledRecords, Held, TypeInv, TypeOK, MapsIds
<1>2. PICK c \in Held(s) : \A d \in Held(s) : ~Before(d, c)
  BY <1>1, OldestId
<1> DEFINE N == {d \in FilledRecords(s) : ~Before(d, c)}
<1>3. Held(s) \subseteq N /\ Cardinality(N) <= Lots(s)
  BY <1>1, <1>2 DEF Held
<1>4. IsFiniteSet(N)
  BY <1>1, IdsFinite, FS_Subset
<1>5. Cardinality(Held(s)) <= Cardinality(N) /\ IsFiniteSet(Held(s))
  BY <1>3, <1>4, FS_Subset
<1>6. Cardinality(Held(s)) \in Nat /\ Cardinality(N) \in Nat /\ Lots(s) \in Int
  <2>1. \A i, n : Cardinality(Placed(i, s, n)) \in Nat
    BY CountsFinite
  <2>2. LegQuantity(s, 1) \in Int /\ LegQuantity(s, 2) \in Int
    BY <2>1 DEF LegQuantity
  <2> QED BY <1>4, <1>5, <2>2, FS_CardinalityType DEF Lots
<1> HIDE DEF N
<1> QED BY <1>1, <1>3, <1>5, <1>6

\* A live close the journal does not count as working is a breached one.
LEMMA LiveCloseIsKnown ==
  ASSUME Orderly, "lost" \notin Faults, DOMAIN unrecorded = {}, NEW s, s \notin WorkingCloses,
         NEW c \in DOMAIN orders, orders[c].intent = "close", orders[c].structure = s,
         orders[c].status \in Live
  PROVE  orders[c].legs >= 1 /\ CloseBreached(s)
<1>1. c \in DOMAIN journal /\ Matches(orders[c], journal[c])
  BY DEF Orderly, OrdersRecorded
<1>2. /\ journal[c].intent = "close" /\ journal[c].structure = s
      /\ journal[c].stage \in {"submitted", "filled", "breached"}
  BY <1>1 DEF Matches, Live
<1>3. BorneOut(orders, c, journal[c])
  BY <1>1 DEF Orderly, Ground, EvidenceInv
<1>4. orders[c].status \notin Terminal
  BY DEF Live, Terminal
<1>5. journal[c].outcome.status \notin Terminal
  BY <1>3, <1>4 DEF BorneOut, ShapeOf
<1>6. StageOf(journal[c]) = journal[c].stage
  BY <1>5 DEF StageOf, Terminal
<1>7. journal[c].stage # "filled"
  BY <1>3, <1>4, <1>6 DEF BorneOut, Terminal
<1>8. journal[c].stage # "submitted"
  BY <1>1, <1>2, <1>5, <1>6 DEF IsWorking, WorkingCloses
<1> QED BY <1>1, <1>2, <1>7, <1>8 DEF Matches, CloseBreached

\* The exits a book read asks for fit in what is open beside those that work.
LEMMA ReadBookFits ==
  ASSUME Orderly, Orderly', "lost" \notin Faults, ReadBook, NEW s \in Structures, NEW n \in 1..2,
         n = 1 \/ ~CloseBreached(s), Room(s, n)
  PROVE  Room(s, n)'
<1>1. memory'.todo = Managed /\ orders' = orders
  BY DEF ReadBook, Blank
<1>2. Closing(s, n)' = Closing(s, n) /\ Placed("open", s, n)' = Placed("open", s, n)
  BY <1>1 DEF Closing, Placed
<1>3. TypeInv /\ TypeInv'
  BY DEF Orderly, Ground
<1>4. CASE Pending(s)' = {}
  BY <1>2, <1>3, <1>4, RoomKept
<1>5. CASE Pending(s)' # {}
  <2>1. s \notin WorkingCloses
    BY <1>1, <1>5 DEF Pending, Managed
  <2>2. {p.id : p \in Pending(s)'} \subseteq Held(s)
    BY <1>1 DEF Pending, Managed
  <2>3. \A p \in Pending(s)' : p \in Position /\ p.structure = s
    BY <1>1 DEF Pending, Managed
  <2>4. Held(s) # {}
    BY <1>5, <2>2
  <2>5. IsFiniteSet(Held(s)) /\ Cardinality(Held(s)) <= Lots(s)
    BY <1>3, <2>4, HeldFits
  <2>6. /\ IsFiniteSet(Pending(s)') /\ IsFiniteSet({p.id : p \in Pending(s)'})
        /\ Cardinality(Pending(s)') <= Cardinality({p.id : p \in Pending(s)'})
    BY <2>3, PositionsOf
  <2>7. Cardinality({p.id : p \in Pending(s)'}) <= Cardinality(Held(s))
    BY <2>2, <2>5, FS_Subset
  <2>8. Closing(s, n) \subseteq Placed("close", s, n)
    <3>1. DOMAIN unrecorded = {}
      BY DEF ReadBook, Due, Orderly, Ground, DecisionInv, RecordsAreNew
    <3>2. ASSUME NEW c \in Closing(s, n), orders[c].status \in Live PROVE orders[c].legs >= n
      <4>1. /\ c \in DOMAIN orders /\ orders[c].intent = "close" /\ orders[c].structure = s
        BY DEF Closing
      <4>2. orders[c].legs >= 1 /\ CloseBreached(s)
        BY <2>1, <3>1, <3>2, <4>1, LiveCloseIsKnown
      <4> QED BY <4>2
    <3> QED BY <3>2 DEF Closing, Placed
  <2>9. /\ Cardinality(Closing(s, n)) <= Cardinality(Placed("close", s, n))
        /\ Cardinality(Closing(s, n)) \in Nat
        /\ \A i, m : Cardinality(Placed(i, s, m)) \in Nat
    BY <1>3, <2>8, CountsFinite, FS_Subset
  <2>10. /\ Cardinality(Pending(s)') \in Nat /\ Cardinality(Held(s)) \in Nat
         /\ Cardinality({p.id : p \in Pending(s)'}) \in Nat
    BY <2>5, <2>6, FS_CardinalityType
  <2>11. LegQuantity(s, 1) \in Int /\ LegQuantity(s, 2) \in Int
    BY <2>9 DEF LegQuantity
  <2>12. Lots(s) <= LegQuantity(s, n) /\ Lots(s) \in Int
    BY <2>11 DEF Lots
  <2>13. Cardinality(Pending(s)') <= Cardinality(Placed("open", s, n)) - Cardinality(Placed("close", s, n))
    BY <2>5, <2>6, <2>7, <2>9, <2>10, <2>11, <2>12 DEF LegQuantity
  <2> QED BY <1>2, <2>9, <2>10, <2>13 DEF Room
<1> QED BY <1>4, <1>5

\* An exit sent is one exit less to send.
LEMMA SubmitExitFits ==
  ASSUME Orderly, Orderly', "lost" \notin Faults, SubmitExit, NEW s \in Structures, NEW n \in 1..2,
         Room(s, n)
  PROVE  Room(s, n)'
<1> DEFINE c == ExitId(agent.slot, memory.offset)
<1>1. PICK p \in memory.todo : Send(c, "close", p.structure) /\ PassExit(p)
  BY DEF SubmitExit
<1>2. TypeInv /\ TypeInv' /\ c \in Ids /\ c[1] = agent.slot /\ c[2] = memory.offset /\ ~IsEntry(c)
  BY ExitsAreNoEntries DEF Orderly, Ground
<1>3. c \notin DOMAIN orders
  <2>1. c \notin DOMAIN journal
    BY <1>2, Numbers DEF SubmitExit, Orderly, Ground, DecisionInv, JournalIsBehind
  <2>2. c \notin DOMAIN unrecorded
    <3>1. memory.offset \in Nat
      BY <1>2 DEF TypeInv, TypeOK, MemoryType
    <3> QED BY <1>2, <3>1 DEF SubmitExit, Orderly, RecordsInOrder
  <2> QED BY <2>1, <2>2 DEF Orderly, OrdersRecorded
<1>4. memory'.todo = memory.todo \ {p}
  BY <1>1, <1>2 DEF PassExit, TypeInv, TypeOK, MemoryType
<1> HIDE DEF c
<1>5. PICK out \in Outcomes(c) : SentAs(c, "close", p.structure, out)
  BY <1>1, <1>2, SendParts
<1>6. /\ \A d \in DOMAIN orders : d \in DOMAIN orders' /\ orders'[d] = orders[d]
      /\ DOMAIN orders' \subseteq DOMAIN orders \union {c}
      /\ c \in DOMAIN orders' => orders'[c].structure = p.structure
  BY <1>3, <1>5 DEF SentAs
<1>7. Placed("open", s, n) \subseteq Placed("open", s, n)'
  BY <1>6 DEF Placed
<1>8. CASE p.structure # s
  <2>1. Closing(s, n)' \subseteq Closing(s, n)
    BY <1>6, <1>8 DEF Closing
  <2>2. Pending(s)' \subseteq Pending(s)
    BY <1>4 DEF Pending
  <2> QED BY <1>2, <1>7, <2>1, <2>2, RoomKept
<1>9. CASE p.structure = s
  <2>1. Closing(s, n)' \subseteq Closing(s, n) \union {c} /\ c \notin Closing(s, n)
    BY <1>3, <1>6 DEF Closing
  <2>2. Pending(s)' = Pending(s) \ {p} /\ p \in Pending(s)
    BY <1>4, <1>9 DEF Pending
  <2>3. /\ IsFiniteSet(Closing(s, n)) /\ Cardinality(Closing(s, n)) \in Nat
        /\ IsFiniteSet(Pending(s)) /\ Cardinality(Pending(s)) \in Nat
        /\ Cardinality(Placed("open", s, n)) \in Nat
    BY <1>2, CountsFinite
  <2>4. /\ IsFiniteSet(Closing(s, n) \union {c})
        /\ Cardinality(Closing(s, n) \union {c}) = Cardinality(Closing(s, n)) + 1
    BY <2>1, <2>3, FS_AddElement
  <2>5. Cardinality(Closing(s, n)') <= Cardinality(Closing(s, n)) + 1 /\ Cardinality(Closing(s, n)') \in Nat
    BY <2>1, <2>4, FS_Subset, FS_CardinalityType
  <2>6. Cardinality(Pending(s)') = Cardinality(Pending(s)) - 1
    BY <2>2, <2>3, FS_RemoveElement
  <2>7. /\ Cardinality(Placed("open", s, n)) <= Cardinality(Placed("open", s, n)')
        /\ Cardinality(Placed("open", s, n)') \in Nat
    <3>1. DOMAIN orders' \subseteq Ids
      BY <1>2 DEF TypeInv, TypeOK, MapsIds
    <3>2. Placed("open", s, n)' \subseteq Ids
      BY <3>1 DEF Placed
    <3> QED BY <1>7, <3>2, IdsFinite, FS_Subset, FS_CardinalityType
  <2> QED BY <2>3, <2>5, <2>6, <2>7 DEF Room
<1> QED BY <1>8, <1>9

\* An entry opens.
LEMMA EnterFits ==
  ASSUME Orderly, Orderly', Enter, NEW s \in Structures, NEW n \in 1..2, Room(s, n)
  PROVE  Room(s, n)'
<1> DEFINE e == EntryId(agent.slot)
<1>1. PICK x : Send(e, "open", x)
  BY DEF Enter
<1>2. TypeInv /\ TypeInv' /\ agent.slot \in Slots /\ agent.pc = "reconciling" /\ DOMAIN unrecorded = {}
  BY DEF Enter, MayEnter, ExitsDone, Orderly, Ground, TypeInv, RunningSlot
<1>3. e \in Ids /\ IsEntry(e)
  BY <1>2, EntriesAreEntries
<1>4. e \notin DOMAIN orders
  BY <1>2, <1>3 DEF Orderly, OrdersRecorded, Ground, DecisionInv, JournalIsBehind
<1> HIDE DEF e
<1>5. PICK out \in Outcomes(e) : SentAs(e, "open", x, out)
  BY <1>1, <1>2, <1>3, SendParts
<1>6. /\ \A d \in DOMAIN orders : d \in DOMAIN orders' /\ orders'[d] = orders[d]
      /\ DOMAIN orders' \subseteq DOMAIN orders \union {e}
      /\ e \in DOMAIN orders' => orders'[e].intent = "open"
  BY <1>4, <1>5 DEF SentAs
<1>7. Placed("open", s, n) \subseteq Placed("open", s, n)' /\ Closing(s, n)' \subseteq Closing(s, n)
  BY <1>6 DEF Placed, Closing
<1>8. Pending(s)' \subseteq Pending(s)
  BY DEF Enter, Pending
<1> QED BY <1>2, <1>7, <1>8, RoomKept

\* What the broker does to a live order takes no leg away and revives nothing.
LEMMA BrokerFits ==
  ASSUME Orderly, Orderly', BrokerStep \/ NightStep, NEW s \in Structures, NEW n \in 1..2, Room(s, n)
  PROVE  Room(s, n)'
<1>1. TypeInv /\ TypeInv' /\ Pending(s)' \subseteq Pending(s)
  BY BrokerMoves DEF Orderly, Ground, Pending
<1>2. ASSUME NEW c \in DOMAIN orders PROVE orders[c].legs \in Nat
  <2>1. orders[c] \in Order
    BY <1>1 DEF TypeInv, TypeOK, MapsIds
  <2> QED BY <2>1 DEF Order
<1>3. ASSUME NEW c \in DOMAIN orders, NEW x, Becomes(c, x), orders[c].status \in Live,
             x.legs >= orders[c].legs, x.legs \in Nat
      PROVE  Closing(s, n)' \subseteq Closing(s, n) /\ Placed("open", s, n) \subseteq Placed("open", s, n)'
  <2>1. /\ DOMAIN orders' = DOMAIN orders
        /\ \A d \in DOMAIN orders : /\ orders'[d].intent = orders[d].intent
                                    /\ orders'[d].structure = orders[d].structure
        /\ orders'[c].legs = x.legs
        /\ \A d \in DOMAIN orders \ {c} : orders'[d] = orders[d]
    BY <1>1, <1>3, BecomesKeepsIntent DEF TypeInv
  <2>2. orders[c].legs \in Nat
    BY <1>2
  <2> QED BY <1>3, <2>1, <2>2 DEF Closing, Placed
<1>4. ASSUME NEW c \in DOMAIN orders, Arrives(c)
      PROVE  Closing(s, n)' \subseteq Closing(s, n) /\ Placed("open", s, n) \subseteq Placed("open", s, n)'
  <2>1. orders[c] \in Order /\ orders[c].status = "flying"
    BY <1>1, <1>4 DEF Arrives, TypeInv, TypeOK, MapsIds
  <2>2. orders[c].legs = 0 /\ Shape("working", 0).legs = 0
    BY <2>1 DEF Order, Shapes, Shape
  <2> QED BY <1>3, <1>4, <2>1, <2>2 DEF Arrives, Live
<1>5. ASSUME NEW c \in DOMAIN orders, Moves(c)
      PROVE  Closing(s, n)' \subseteq Closing(s, n) /\ Placed("open", s, n) \subseteq Placed("open", s, n)'
  <2>1. PICK x \in Shapes : x.legs >= orders[c].legs /\ Becomes(c, x) /\ orders[c].status = "working"
    BY <1>5 DEF Moves
  <2>2. x.legs \in Nat
    BY DEF Shapes
  <2> QED BY <1>3, <2>1, <2>2 DEF Live
<1>6. ASSUME NEW c \in DOMAIN orders, Expires(c)
      PROVE  Closing(s, n)' \subseteq Closing(s, n) /\ Placed("open", s, n) \subseteq Placed("open", s, n)'
  <2>1. orders[c].legs \in Nat
    BY <1>2
  <2>2. Shape("canceled", orders[c].legs).legs = orders[c].legs
    BY DEF Shape
  <2> QED BY <1>3, <1>6, <2>1, <2>2 DEF Expires
<1>7. ASSUME NEW c \in DOMAIN orders, Vanishes(c)
      PROVE  Closing(s, n)' \subseteq Closing(s, n) /\ Placed("open", s, n) \subseteq Placed("open", s, n)'
  <2>1. orders[c] \in Order /\ orders[c].status = "flying"
    BY <1>1, <1>7 DEF Vanishes, TypeInv, TypeOK, MapsIds
  <2>2. orders[c].legs = 0
    BY <2>1 DEF Order, Shapes
  <2>3. DOMAIN orders' = DOMAIN orders \ {c} /\ \A d \in DOMAIN orders' : orders'[d] = orders[d]
    BY <1>7 DEF Vanishes, Without
  <2> QED BY <2>2, <2>3 DEF Closing, Placed
<1> QED BY <1>1, <1>4, <1>5, <1>6, <1>7, RoomKept DEF BrokerStep, NightStep

LEMMA ClosesInductive ==
  ASSUME NothingKills, "lost" \notin Faults, Orderly, Orderly', ClosesInv, [Next]_vars
  PROVE  ClosesInv'
<1> SUFFICES ASSUME NEW s \in Structures, NEW n \in 1..2, n = 1 \/ ~CloseBreached(s)'
             PROVE  Room(s, n)'
  BY DEF ClosesInv
<1>1. CloseBreached(s) => CloseBreached(s)'
  BY RecordsKept DEF CloseBreached, Orderly, Ground
<1>2. Room(s, n) /\ (n = 1 \/ ~CloseBreached(s))
  BY <1>1 DEF ClosesInv
<1>3. CASE ReadBook
  BY <1>2, <1>3, ReadBookFits
<1>4. CASE SubmitExit
  BY <1>2, <1>4, SubmitExitFits
<1>5. CASE Enter
  BY <1>2, <1>5, EnterFits
<1>6. CASE BrokerStep \/ NightStep
  BY <1>2, <1>6, BrokerFits
<1>7. ASSUME orders' = orders, memory'.todo \subseteq memory.todo PROVE Room(s, n)'
  <2>1. Closing(s, n)' = Closing(s, n) /\ Placed("open", s, n)' = Placed("open", s, n)
    BY <1>7 DEF Closing, Placed
  <2>2. Pending(s)' \subseteq Pending(s)
    BY <1>7 DEF Pending
  <2> QED BY <1>2, <2>1, <2>2, RoomKept DEF Orderly, Ground
<1>8. Forget => memory'.todo \subseteq memory.todo
  BY DEF Forget, Blank
<1>9. CASE GatherFails \/ StopAfterExits \/ SkipEntry \/ NoTrade \/ RecordEntry
  <2>1. Forget /\ orders' = orders
    BY <1>9 DEF GatherFails, StopAfterExits, SkipEntry, NoTrade, RecordEntry, Stop, GoOn, Resume
  <2> QED BY <1>7, <1>8, <2>1
<1>10. CASE HoldPosition \/ FinishGather \/ ReadBack \/ ReadBackFails \/ RecordExit
  <2>1. orders' = orders
    BY <1>10 DEF HoldPosition, FinishGather, ReadBack, ReadBackFails, RecordExit
  <2>2. memory \in MemoryType
    BY DEF Orderly, Ground, TypeInv, TypeOK
  <2>3. memory'.todo \subseteq memory.todo
    BY <1>10, <2>2 DEF HoldPosition, PassExit, FinishGather, ReadBack, ReadBackFails, RecordExit,
                       Asking, MemoryType
  <2> QED BY <1>7, <2>1, <2>3
<1>11. CASE Start \/ Tick \/ Latch \/ UNCHANGED vars
  BY <1>7, <1>11 DEF Start, Tick, Latch, vars
<1>12. ~Death
  BY DEF NothingKills, Death, SessionDies, ProcessDies
<1> QED BY <1>3, <1>4, <1>5, <1>6, <1>9, <1>10, <1>11, <1>12 DEF Next, AgentStep

\* However fills and partial fills are spread over the orders of a structure,
\* and whatever slots, sessions and failed reads come between, its closes fit
\* in what was opened: no mirror position.
THEOREM ClosesFit ==
  ASSUME NothingKills, Truthful, "lost" \notin Faults
  PROVE  Spec => []ClosesNeverExceedOpens
<1>1. Init => ClosesInv
  <2> SUFFICES ASSUME Init, NEW s \in Structures, NEW n \in 1..2 PROVE Room(s, n)
    BY DEF ClosesInv
  <2>1. Closing(s, n) = {} /\ Pending(s) = {} /\ Placed("open", s, n) = {}
    BY DEF Init, Blank, Closing, Pending, Placed
  <2> QED BY <2>1, FS_EmptySet DEF Room
<1>2. Orderly /\ Orderly' /\ ClosesInv /\ [Next]_vars => ClosesInv'
  BY ClosesInductive
<1>3. Orderly /\ ClosesInv => ClosesNeverExceedOpens
  BY CountsFinite DEF Orderly, Ground, ClosesInv, Room, ClosesNeverExceedOpens
<1> QED BY <1>1, <1>2, <1>3, OrderlyHolds, PTL DEF Spec
=============================================================================
