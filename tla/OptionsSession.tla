--------------------------- MODULE OptionsSession ---------------------------
(***************************************************************************)
(* The options agent over several trading days: the supervisor of          *)
(* live/cli.py, the slot loop of agent/runner.py, the gather of            *)
(* live/wiring.py that reads the book and submits exits, the entry cycle   *)
(* of agent/cycle.py, the reconciler of journal/reconcile.py and the       *)
(* kill switch kept in journal/state.json.                                 *)
(*                                                                         *)
(* The door to the broker is one step here: OrderDoor shows what a call    *)
(* may come to (KeepsPromise), and Outcomes lists it.  Every position is   *)
(* one lot; structures do not share contracts; the journal is the history  *)
(* Journal.read_through returns, one entry a cycle id (JournalFile has the *)
(* lines).  Faults names what may go wrong in a run:                       *)
(*   "gather"   the chain, the account or the broker's book cannot be read *)
(*   "lost"     gather raises after it has submitted exits                 *)
(*   "readback" a reconciling read fails                                   *)
(*   "partial"  the broker fills one leg of a spread                       *)
(*   "unknown"  the door raises and the order may exist or still arrive    *)
(*   "dies"     an exception escapes the session, the supervisor resumes   *)
(*   "crash"    the process dies                                           *)
(***************************************************************************)
EXTENDS Integers, FiniteSets

CONSTANTS
  Days, SlotsPerDay,   \* the slots of session_slots, day after day
  FullSlots,           \* how many of a day's slots come before the entry cutoff
  Structures,          \* the spreads the rule may propose
  NoStructure,
  MaxExits,            \* exit cycle ids a slot can mint
  Spacing,             \* min_sessions_between_entries
  MaxConcurrent,       \* max_concurrent
  DailyCap,            \* daily_trade_cap
  MaxErrors,           \* MAX_CONSECUTIVE_ERRORS
  MaxRestarts,         \* MAX_RESTARTS
  Faults

ASSUME SessionAssumption ==
  /\ {Days, SlotsPerDay, MaxExits, MaxErrors} \subseteq Nat \ {0}
  /\ {FullSlots, Spacing, MaxConcurrent, DailyCap, MaxRestarts} \subseteq Nat
  /\ NoStructure \notin Structures

VARIABLES
  now,         \* the last slot whose time has come
  agent,       \* pc, slot, errors in a row, restarts used, kill switch as loaded
  memory,      \* what the slot in progress has read
  unrecorded,  \* cycle records that exist only in the process
  journal,     \* cycle_id -> record, as Journal.read gives it before settling
  latch,       \* killswitch_tripped in journal/state.json
  orders       \* the broker's book: cycle_id -> order

vars == <<now, agent, memory, unrecorded, journal, latch, orders>>

(***************************************************************************)
(* Slots and cycle ids                                                     *)
(***************************************************************************)
Slots == 1..(Days * SlotsPerDay)
Day(s) == ((s - 1) \div SlotsPerDay) + 1
MayOpen(s) == (s - 1) % SlotsPerDay < FullSlots

\* YYYY-MM-DD-TICKER-NNN: the slot, and which of its cycles.  Exits are written
\* before the entry, so this is journal order.
Ids == Slots \X (0..MaxExits)
ExitId(s, n) == <<s, n>>
EntryId(s) == <<s, MaxExits>>
Before(c, d) == c[1] < d[1] \/ (c[1] = d[1] /\ c[2] < d[2])
IsFirst(c, S) == c \in S /\ \A d \in S \ {c} : Before(c, d)

(***************************************************************************)
(* Orders at the broker, records in the journal                            *)
(***************************************************************************)
Intent == {"open", "close"}

\* A flying order has been sent, and the broker does not have it yet; canceled
\* stands for canceled, expired and replaced; legs are the legs filled.
Live == {"flying", "working"}
Terminal == {"filled", "canceled", "rejected"}
Shapes == {x \in [status : Live \union Terminal, legs : 0..2] :
             /\ x.status = "filled" <=> x.legs = 2
             /\ x.status \in {"flying", "rejected"} => x.legs = 0}

Order == {o \in [intent : Intent, structure : Structures,
                 status : Live \union Terminal, legs : 0..2] :
            [status |-> o.status, legs |-> o.legs] \in Shapes}

ShapeOf(o) == [status |-> o.status, legs |-> o.legs]
AtBroker(c) == c \in DOMAIN orders /\ orders[c].status # "flying"

NoOutcome == [status |-> "none", legs |-> 0]
Stages == {"no_trade", "rejected", "submitted", "filled", "breached"}
Record == [intent : Intent, structure : Structures \union {NoStructure},
           stage : Stages, outcome : Shapes \union {NoOutcome}]

NewRecord(i, s, g) == [intent |-> i, structure |-> s, stage |-> g, outcome |-> NoOutcome]
NoTradeRecord == NewRecord("open", NoStructure, "no_trade")

With(f, c, x) == [d \in DOMAIN f \union {c} |-> IF d = c THEN x ELSE f[d]]
Without(f, c) == [d \in DOMAIN f \ {c} |-> f[d]]
Nothing == [c \in {} |-> NoTradeRecord]

\* _with_final_stage: a live stage follows the broker's last word.
StageOf(r) ==
  IF r.stage = "submitted" /\ r.outcome.status \in {"filled", "rejected"}
  THEN r.outcome.status ELSE r.stage

(***************************************************************************)
(* What the book read makes of broker and journal                          *)
(***************************************************************************)
Placed(i, s, n) ==
  {c \in DOMAIN orders : orders[c].intent = i /\ orders[c].structure = s /\ orders[c].legs >= n}

\* The broker's quantity of leg n of s; complete spreads are limited by the
\* leg there is less of.
LegQuantity(s, n) == Cardinality(Placed("open", s, n)) - Cardinality(Placed("close", s, n))
Lots(s) == IF LegQuantity(s, 1) < LegQuantity(s, 2) THEN LegQuantity(s, 1) ELSE LegQuantity(s, 2)

FilledRecords(s) == {c \in DOMAIN journal : StageOf(journal[c]) = "filled" /\ journal[c].structure = s}

\* open_positions: newest first, the broker's quantity decides how many filled
\* records are still held (OptionsBook has the loop).
Held(s) == {c \in FilledRecords(s) :
              Cardinality({d \in FilledRecords(s) : ~Before(d, c)}) <= Lots(s)}
Book == UNION {Held(s) : s \in Structures}

IsWorking(r) == StageOf(r) = "submitted" /\ r.outcome.status \notin Terminal

\* Mutant: every close is taken to settle at once.
NoWorkingCloses == {}

\* working_closes: structures with a close not yet known to be settled.
WorkingCloses ==
  {journal[c].structure : c \in {d \in DOMAIN journal : journal[d].intent = "close" /\ IsWorking(journal[d])}}

\* The positions _exit_cycles manages, and the spread each of them is.
Position == [id : Ids, structure : Structures]
Managed == {p \in Position : /\ p.id \in Held(p.structure)
                             /\ p.structure \notin WorkingCloses}

FillsOn(day) == {c \in DOMAIN journal : Day(c[1]) = day /\ StageOf(journal[c]) = "filled"}

\* Mutant: an entry counts once it has filled.
FilledEntryDays == {Day(c[1]) : c \in {d \in DOMAIN journal : /\ journal[d].intent = "open"
                                                              /\ StageOf(journal[d]) = "filled"}}

\* last_entry_day and the count of journalled sessions since, for entry_refusal.
EntryDays == {Day(c[1]) : c \in {d \in DOMAIN journal : /\ journal[d].intent = "open"
                                                        /\ StageOf(journal[d]) \in {"submitted", "filled"}}}
SessionsSince(day) ==
  {Day(c[1]) : c \in {d \in DOMAIN journal : Day(d[1]) <= day /\ \A e \in EntryDays : e < Day(d[1])}}
EntryRefused(day) ==
  \/ memory.open >= MaxConcurrent
  \/ EntryDays # {} /\ Cardinality(SessionsSince(day)) < Spacing


\* unresolved, over the one day's file the reconciler reads.
Unresolved(day) == {c \in DOMAIN journal : Day(c[1]) = day /\ IsWorking(journal[c])}

(***************************************************************************)
(* One call at the door: what the caller records and what the broker has   *)
(***************************************************************************)
Outcome(g, x) == [stage |-> g, shape |-> x]
Shape(st, n) == [status |-> st, legs |-> n]
NoOrder == [status |-> "none", legs |-> 0]

\* Mutant: an accepted order is recorded as a filled one.
OptimisticOutcomes(c) ==
  {Outcome("filled", Shape("filled", 2)), Outcome("filled", Shape("working", 0)),
   Outcome("rejected", Shape("rejected", 0)), Outcome("rejected", NoOrder)}

Outcomes(c) ==
  IF AtBroker(c) THEN {Outcome("rejected", NoOrder)}   \* client_order_id must be unique
  ELSE {Outcome("filled", Shape("filled", 2)), Outcome("submitted", Shape("working", 0)),
        Outcome("rejected", Shape("rejected", 0)), Outcome("rejected", NoOrder)}
       \union (IF "partial" \in Faults
               THEN {Outcome("breached", Shape("working", 1))} ELSE {})
       \union (IF "unknown" \in Faults
               THEN {Outcome("rejected", Shape(st, 0)) : st \in Live} ELSE {})

\* What a call that came to out leaves at the broker.
Leaves(c, i, s, out) ==
  orders' = IF out.shape = NoOrder THEN orders
            ELSE With(orders, c, [intent |-> i, structure |-> s,
                                  status |-> out.shape.status, legs |-> out.shape.legs])

\* submit: the order, if there is one, and the record the cycle ends with.
Send(c, i, s) ==
  \E out \in Outcomes(c) :
    /\ Leaves(c, i, s, out)
    /\ unrecorded' = With(unrecorded, c, NewRecord(i, s, out.stage))

-----------------------------------------------------------------------------
Blank == [todo |-> {}, offset |-> 0, open |-> 0, capped |-> FALSE,
          blocked |-> FALSE, asked |-> {}, breached |-> FALSE]
Off == [pc |-> "off", slot |-> 0, errors |-> 0, restarts |-> 0, latched |-> FALSE]

Init ==
  /\ now = 0
  /\ agent = Off
  /\ memory = Blank
  /\ unrecorded = Nothing
  /\ journal = Nothing
  /\ latch = FALSE
  /\ orders = [c \in {} |-> [intent |-> "open", structure |-> NoStructure, status |-> "none", legs |-> 0]]

Forget == memory' = Blank /\ unrecorded' = Nothing

\* After a slot: the next one of the day, or the session is over.
GoOn(errors) ==
  /\ agent' = IF agent.slot + 1 \in Slots /\ Day(agent.slot + 1) = Day(agent.slot)
              THEN [agent EXCEPT !.pc = "waiting", !.slot = @ + 1, !.errors = errors]
              ELSE Off
  /\ Forget

\* supervised_run resuming: slots strictly ahead of the clock, a fresh context.
Resume ==
  /\ agent' = IF /\ agent.restarts < MaxRestarts
                 /\ now + 1 \in Slots
                 /\ Day(now + 1) = Day(agent.slot)
              THEN [pc |-> "waiting", slot |-> now + 1, errors |-> 0,
                    restarts |-> agent.restarts + 1, latched |-> latch]
              ELSE Off
  /\ Forget

\* The night is long enough for every day order to settle.
Overnight == \A c \in DOMAIN orders : orders[c].status \in Live => Day(c[1]) = Day(now + 1)

\* Mutants: the slot the clock stands at is run again; the kill switch on disk
\* is not loaded.
StartAtClock ==
  /\ agent.pc = "off"
  /\ now + 1 \in Slots
  /\ Overnight
  /\ agent' = [pc |-> "waiting", slot |-> IF now \in Slots THEN now ELSE now + 1,
               errors |-> 0, restarts |-> 0, latched |-> latch]
  /\ UNCHANGED <<now, memory, unrecorded, journal, latch, orders>>

StartUnlatched ==
  /\ agent.pc = "off"
  /\ now + 1 \in Slots
  /\ Overnight
  /\ agent' = [pc |-> "waiting", slot |-> now + 1, errors |-> 0, restarts |-> 0, latched |-> FALSE]
  /\ UNCHANGED <<now, memory, unrecorded, journal, latch, orders>>

\* alphagate run: the slots still ahead today.
Start ==
  /\ agent.pc = "off"
  /\ now + 1 \in Slots
  /\ Overnight
  /\ agent' = [pc |-> "waiting", slot |-> now + 1, errors |-> 0, restarts |-> 0, latched |-> latch]
  /\ UNCHANGED <<now, memory, unrecorded, journal, latch, orders>>

\* Time passes, over a night only when the day's session is over.
Tick ==
  /\ now + 1 \in Slots
  /\ Overnight
  /\ agent.pc # "off" => Day(agent.slot) = Day(now + 1)
  /\ now' = now + 1
  /\ UNCHANGED <<agent, memory, unrecorded, journal, latch, orders>>

(***************************************************************************)
(* gather: the book, then the exits, then the entry cadence                *)
(***************************************************************************)
Due == agent.pc = "waiting" /\ agent.slot <= now

\* LiveContext.book: account, legs and journal, and the latch as loaded.
ReadBook ==
  /\ Due
  /\ agent' = [agent EXCEPT !.pc = "exiting"]
  /\ memory' = [Blank EXCEPT !.todo = Managed, !.open = Cardinality(Book),
                             !.capped = Cardinality(FillsOn(Day(agent.slot))) >= DailyCap]
  /\ UNCHANGED <<now, unrecorded, journal, latch, orders>>

\* Mutant: a slot whose gather failed is tried again.
GatherRetries ==
  /\ agent.pc = "exiting" /\ "lost" \in Faults
  /\ agent' = [agent EXCEPT !.pc = "waiting"]
  /\ Forget
  /\ UNCHANGED <<now, journal, latch, orders>>

\* gather raises: the slot is skipped, the third in a row ends the session.
GatherFails ==
  /\ \/ Due /\ "gather" \in Faults
     \/ agent.pc = "exiting" /\ "lost" \in Faults
  /\ IF agent.errors + 1 >= MaxErrors THEN Resume ELSE GoOn(agent.errors + 1)
  /\ UNCHANGED <<now, journal, latch, orders>>

\* The next position of the list, oldest first.
IsNext(p, T) == p \in T /\ \A q \in T \ {p} : Before(p.id, q.id)
PassExit(p) == memory' = [memory EXCEPT !.todo = @ \ {p}, !.offset = @ + 1]

\* The position cannot be priced, or the exit policy holds it.
HoldPosition ==
  /\ agent.pc = "exiting"
  /\ \E p \in memory.todo : IsNext(p, memory.todo) /\ PassExit(p)
  /\ UNCHANGED <<now, agent, unrecorded, journal, latch, orders>>

\* run_exit_cycle: the Gate never blocks a close.
SubmitExit ==
  /\ agent.pc = "exiting"
  /\ memory.offset < MaxExits
  /\ \E p \in memory.todo :
       /\ IsNext(p, memory.todo)
       /\ Send(ExitId(agent.slot, memory.offset), "close", p.structure)
       /\ PassExit(p)
  /\ UNCHANGED <<now, agent, journal, latch>>

\* _entry_block ends the gather, and with it a run of failures; the reconciler
\* reads today's file.
FinishGather ==
  /\ agent.pc = "exiting"
  /\ memory.todo = {}
  /\ agent' = [agent EXCEPT !.pc = "reconciling", !.errors = 0]
  /\ memory' = [memory EXCEPT !.blocked = EntryRefused(Day(agent.slot)),
                              !.asked = Unresolved(Day(agent.slot))]
  /\ UNCHANGED <<now, unrecorded, journal, latch, orders>>

(***************************************************************************)
(* run_session after the gather                                            *)
(***************************************************************************)
Asking(c) ==
  /\ agent.pc = "reconciling"
  /\ IsFirst(c, memory.asked)
  /\ memory' = [memory EXCEPT !.asked = @ \ {c}]

\* Mutant: whatever the broker answers is amended as a fill.
ReadBackAsFilled ==
  \E c \in memory.asked :
    /\ Asking(c)
    /\ AtBroker(c)
    /\ journal' = [journal EXCEPT ![c].outcome = Shape("filled", 2)]
    /\ UNCHANGED <<now, agent, unrecorded, latch, orders>>

\* reconcile: amend with what the broker says, a partial fill included.
ReadBack ==
  \E c \in memory.asked :
    /\ Asking(c)
    /\ AtBroker(c)
    /\ journal' = [journal EXCEPT ![c].outcome = ShapeOf(orders[c])]
    /\ UNCHANGED <<now, agent, unrecorded, latch, orders>>

\* The read fails: reported, and asked again next slot.
ReadBackFails ==
  /\ "readback" \in Faults
  /\ \E c \in memory.asked : Asking(c)
  /\ UNCHANGED <<now, agent, unrecorded, journal, latch, orders>>

Append(c, r) == journal' = With(journal, c, r)

\* The exits of this slot are journalled one by one.
RecordExit ==
  /\ agent.pc = "reconciling" /\ memory.asked = {}
  /\ \E c \in DOMAIN unrecorded :
       /\ IsFirst(c, DOMAIN unrecorded)
       /\ Append(c, unrecorded[c])
       /\ unrecorded' = Without(unrecorded, c)
       /\ memory' = [memory EXCEPT !.breached = @ \/ unrecorded[c].stage = "breached"]
  /\ UNCHANGED <<now, agent, latch, orders>>

ExitsDone == agent.pc = "reconciling" /\ memory.asked = {} /\ DOMAIN unrecorded = {}

Stop == agent' = [agent EXCEPT !.pc = "stopping"] /\ Forget

\* A breached exit, or a kill switch on the snapshot of a slot that may open.
StopAfterExits ==
  /\ ExitsDone
  /\ memory.breached \/ (MayOpen(agent.slot) /\ agent.latched)
  /\ Stop
  /\ UNCHANGED <<now, journal, latch, orders>>

\* An exits-only slot ends here.
SkipEntry ==
  /\ ExitsDone
  /\ ~memory.breached /\ ~MayOpen(agent.slot)
  /\ GoOn(0)
  /\ UNCHANGED <<now, journal, latch, orders>>

MayEnter == ExitsDone /\ ~memory.breached /\ MayOpen(agent.slot) /\ ~agent.latched

\* The book's cadence, the screen, the menu, the model or the Gate says no.
NoTrade ==
  /\ MayEnter
  /\ Append(EntryId(agent.slot), NoTradeRecord)
  /\ GoOn(0)
  /\ UNCHANGED <<now, latch, orders>>

\* run_cycle reaches the door.
Enter ==
  /\ MayEnter
  /\ ~memory.blocked
  /\ ~memory.capped
  /\ \E s \in Structures : Send(EntryId(agent.slot), "open", s)
  /\ agent' = [agent EXCEPT !.pc = "entered"]
  /\ UNCHANGED <<now, memory, journal, latch>>

\* The entry cycle is journalled; a breach ends the session.
RecordEntry ==
  LET c == EntryId(agent.slot)
  IN  /\ agent.pc = "entered"
      /\ Append(c, unrecorded[c])
      /\ IF unrecorded[c].stage = "breached" THEN Stop ELSE GoOn(0)
      /\ UNCHANGED <<now, latch, orders>>

\* Mutant: the kill switch never leaves the process.
LatchInProcess ==
  /\ agent.pc = "stopping"
  /\ agent' = Off
  /\ UNCHANGED <<now, memory, unrecorded, journal, latch, orders>>

\* _latch_if_breached: the kill switch goes to disk, and supervised_run returns.
Latch ==
  /\ agent.pc = "stopping"
  /\ latch' = TRUE
  /\ agent' = Off
  /\ UNCHANGED <<now, memory, unrecorded, journal, orders>>

(***************************************************************************)
(* Deaths                                                                  *)
(***************************************************************************)
\* A write that fails, or anything else the loop does not catch.
SessionDies ==
  /\ "dies" \in Faults
  /\ agent.pc \in {"reconciling", "entered", "stopping"}
  /\ Resume
  /\ UNCHANGED <<now, journal, latch, orders>>

ProcessDies ==
  /\ "crash" \in Faults
  /\ agent.pc # "off"
  /\ agent' = Off
  /\ Forget
  /\ UNCHANGED <<now, journal, latch, orders>>

(***************************************************************************)
(* The broker                                                              *)
(***************************************************************************)
Becomes(c, x) ==
  /\ orders' = [orders EXCEPT ![c].status = x.status, ![c].legs = x.legs]
  /\ UNCHANGED <<now, agent, memory, unrecorded, journal, latch>>

\* A request the door gave up on arrives, or never does.
Arrives(c) == orders[c].status = "flying" /\ Becomes(c, Shape("working", 0))

Vanishes(c) ==
  /\ orders[c].status = "flying"
  /\ orders' = Without(orders, c)
  /\ UNCHANGED <<now, agent, memory, unrecorded, journal, latch>>

\* A working order fills -- leg by leg if the venue does -- or is closed out.
Moves(c) ==
  /\ orders[c].status = "working"
  /\ \E x \in Shapes :
       /\ x.status # "flying"
       /\ x.legs >= orders[c].legs
       /\ x.legs = 1 => "partial" \in Faults
       /\ x # ShapeOf(orders[c])
       /\ Becomes(c, x)

\* Day orders do not outlive their day.
Expires(c) ==
  /\ orders[c].status \in Live
  /\ now + 1 \in Slots /\ Day(c[1]) # Day(now + 1)
  /\ Becomes(c, Shape("canceled", orders[c].legs))

-----------------------------------------------------------------------------
AgentStep ==
  \/ ReadBook \/ GatherFails \/ HoldPosition \/ SubmitExit \/ FinishGather
  \/ ReadBack \/ ReadBackFails \/ RecordExit
  \/ StopAfterExits \/ SkipEntry \/ NoTrade \/ Enter \/ RecordEntry \/ Latch

Death == SessionDies \/ ProcessDies

BrokerStep == \E c \in DOMAIN orders : Arrives(c) \/ Vanishes(c) \/ Moves(c)

NightStep == \E c \in DOMAIN orders : Expires(c)

Next == Start \/ Tick \/ AgentStep \/ Death \/ BrokerStep \/ NightStep

\* The loop runs when it can, time passes, the exchange closes out day orders.
Fairness == WF_vars(AgentStep) /\ WF_vars(Tick) /\ WF_vars(NightStep)

Spec == Init /\ [][Next]_vars /\ Fairness
=============================================================================
