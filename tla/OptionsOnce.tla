---------------------------- MODULE OptionsOnce -----------------------------
(***************************************************************************)
(* The `once` command of live/cli.py beside the sessions of OptionsSession: *)
(* an operator's single cycle, dry unless --submit is passed, in a process *)
(* of its own over the same journal, kill switch and broker account.       *)
(***************************************************************************)
EXTENDS OptionsSessionProps

CONSTANT MaxOnce   \* bound: how often the operator runs it

VARIABLE manual   \* the command in progress

ovars == <<now, agent, memory, unrecorded, journal, latch, orders, manual>>

Idle == [pc |-> "idle", runs |-> 0, slot |-> 0, submit |-> FALSE, todo |-> {}, offset |-> 0,
         allowed |-> FALSE, id |-> EntryId(0), record |-> NoTradeRecord]

OnceInit == Init /\ manual = Idle

\* _free_sequence: the first sequence of the day the journal has not used.
Free(s) == {t \in Slots : t >= s /\ Day(t) = Day(s) /\ EntryId(t) \notin DOMAIN journal}
FreeId(s) == EntryId(CHOOSE t \in Free(s) : \A u \in Free(s) : t <= u)

\* _slot_now: the next slot of the day, or the last one when none is left.
\* Bound: sequences past the day's schedule are left out.
SlotNow ==
  {s \in Slots : /\ \/ s = now + 1 /\ Overnight
                    \/ s = now /\ (now + 1 \in Slots => Day(now + 1) # Day(now))
                 /\ Free(s) # {}}

\* _adhoc_slot: the identity of that slot, gathered as of now.
OnceReads(submit) ==
  /\ manual.pc = "idle"
  /\ manual.runs < MaxOnce
  /\ \E s \in SlotNow :
       manual' = [Idle EXCEPT
         !.runs = manual.runs + 1, !.pc = "exiting", !.slot = s, !.submit = submit, !.todo = Managed,
         !.allowed = ~latch /\ Cardinality(FillsOn(Day(s))) < DailyCap]
  /\ UNCHANGED vars

OncePasses(p) ==
  /\ manual.pc = "exiting"
  /\ IsNext(p, manual.todo)
  /\ manual' = [manual EXCEPT !.todo = @ \ {p}, !.offset = @ + 1]

OnceHolds ==
  /\ \E p \in manual.todo : OncePasses(p)
  /\ UNCHANGED vars

\* gather_for submits exits unless told otherwise, and `once` does not tell it;
\* the records of these exits are dropped with the CycleInputs.
OnceSubmitsExit ==
  LET c == ExitId(manual.slot, manual.offset)
  IN  /\ manual.offset < MaxExits
      /\ \E p \in manual.todo, out \in Outcomes(c) :
           OncePasses(p) /\ Leaves(c, "close", p.structure, out)
      /\ UNCHANGED <<now, agent, memory, unrecorded, journal, latch>>

\* _free_sequence, once the gather has returned: the journal is read here, and a
\* slot of the session may have taken the id when the cycle comes to use it.
OnceChooses ==
  /\ manual.pc = "exiting" /\ manual.todo = {}
  /\ Free(manual.slot) # {}
  /\ manual' = [manual EXCEPT !.pc = "deciding", !.id = FreeId(manual.slot)]
  /\ UNCHANGED vars

\* run_cycle through the Gate to the door.  The rule's cadence is not asked.
OnceEnters ==
  LET c == manual.id
  IN  /\ manual.pc = "deciding"
      /\ manual.submit
      /\ manual.allowed
      /\ \E s \in Structures, out \in Outcomes(c) :
           /\ Leaves(c, "open", s, out)
           /\ manual' = [manual EXCEPT !.pc = "recording",
                                       !.record = NewRecord("open", s, out.stage)]
      /\ UNCHANGED <<now, agent, memory, unrecorded, journal, latch>>

\* The record is appended and the command returns, whatever the stage was; from
\* "deciding" it is one of no order: no setup, a veto, or the dry run itself.
OnceRecords ==
  /\ manual.pc \in {"deciding", "recording"}
  /\ Append(manual.id, manual.record)
  /\ manual' = [Idle EXCEPT !.runs = manual.runs]
  /\ UNCHANGED <<now, agent, memory, unrecorded, latch, orders>>

OnceStep ==
  \/ \E submit \in BOOLEAN : OnceReads(submit)
  \/ OnceHolds \/ OnceSubmitsExit \/ OnceChooses \/ OnceEnters \/ OnceRecords

\* Nothing waits for the command: a session of the same account is at any step.
Beside(A) == A /\ UNCHANGED manual

OnceNext == OnceStep \/ Beside(Next)

\* The command runs to its end, and the sessions as in OptionsSession.
OnceFairness ==
  /\ WF_ovars(manual.pc # "idle" /\ OnceStep)
  /\ WF_ovars(Beside(AgentStep)) /\ WF_ovars(Beside(Tick)) /\ WF_ovars(Beside(NightStep))

OnceSpec == OnceInit /\ [][OnceNext]_ovars /\ OnceFairness

-----------------------------------------------------------------------------

\* cmd_once: "Dry unless `--submit` is passed."
DryOnceSendsNothing ==
  [][OnceStep /\ ~manual.submit /\ ~manual'.submit => UNCHANGED orders]_ovars
=============================================================================
