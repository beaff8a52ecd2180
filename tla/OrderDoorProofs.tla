-------------------------- MODULE OrderDoorProofs ---------------------------
(***************************************************************************)
(* The door, for every set of decisions, number of attempts and legs.      *)
(***************************************************************************)
EXTENDS OrderDoorProps, TLAPS

\* The key says which decision the order is for.
KeyedByDecision == \A k \in DOMAIN brokerOrders : brokerOrders[k].decision = k

\* An order reply is waited for, and describes the order now at the broker
\* unless that order has moved on since.
ReplyIsEvidence ==
  reply.kind = "order" =>
    /\ door.pc = "waiting"
    /\ reply.order.decision = door.decision
    /\ door.decision \in DOMAIN brokerOrders
    /\ reply.order.status \in TerminalStatus => brokerOrders[door.decision] = reply.order

\* Nobody at the door has been answered.
AtTheDoorUnanswered == door # Idle => answer[door.decision] = Unanswered

\* What is answered is answered about the decision that asked.
AnswerIsEvidence ==
  \A d \in Decisions :
    answer[d].kind \in {"submission", "breach"} =>
      /\ d \in DOMAIN brokerOrders
      /\ answer[d].order.decision = d
      /\ answer[d].order.status \in TerminalStatus => brokerOrders[d] = answer[d].order

DoorInv ==
  /\ DoorTypeOK
  /\ KeyedByDecision
  /\ ReplyIsEvidence
  /\ AtTheDoorUnanswered
  /\ AnswerIsEvidence
  /\ NoHalfFilledSubmission

-----------------------------------------------------------------------------
\* A key is the decision it was derived from, so the book is keyed by decisions.
LEMMA KeysAreDecisions == Keys = Decisions
  BY DoorAssumption, SMT DEF Keys, ClientOrderId

\* guard_against_partial_fill never lets a half-filled spread through as a
\* submission, and what it hands over is an answer.
LEMMA GuardLemma ==
  ASSUME NEW o \in BrokerOrder
  PROVE  /\ Guarded(o) \in Answers
         /\ Guarded(o).order = o
         /\ Guarded(o).kind \in {"submission", "breach"}
         /\ Guarded(o).kind = "submission" => ~IsPartial(o)
  <1>1. Guarded(o) \in Answers
    BY DEF Answers
  <1>2. QED
    BY <1>1 DEF Guarded, Returned, Breached

\* The invariant holds before anyone comes to the door.
LEMMA DoorInvInit == DoorInit => DoorInv
  <1> SUFFICES ASSUME DoorInit PROVE DoorInv
    OBVIOUS
  <1> USE DEF DoorInit
  <1>1. DoorTypeOK
    BY DEF DoorTypeOK, Door, Replies, Answers
  <1>2. KeyedByDecision /\ AtTheDoorUnanswered
    BY DEF KeyedByDecision, AtTheDoorUnanswered
  <1>3. ReplyIsEvidence
    BY DEF ReplyIsEvidence, NoReply
  <1>4. AnswerIsEvidence /\ NoHalfFilledSubmission
    BY DEF AnswerIsEvidence, NoHalfFilledSubmission, Unanswered
  <1>5. QED
    BY <1>1, <1>2, <1>3, <1>4 DEF DoorInv

\* A call starts only for a decision that has no answer yet.
LEMMA SubmitKeeps ==
  ASSUME DoorInv, NEW d \in Decisions, Submit(d)
  PROVE  DoorInv'
  <1> USE DEF DoorInv, Submit, PutOnWire
  <1>1. DoorTypeOK'
    BY DoorAssumption DEF DoorTypeOK, Door, Request
  <1>2. KeyedByDecision'
    BY DEF KeyedByDecision
  <1>3. ReplyIsEvidence'
    BY DEF ReplyIsEvidence, Idle
  <1>4. AtTheDoorUnanswered' /\ AnswerIsEvidence' /\ NoHalfFilledSubmission'
    BY DEF AtTheDoorUnanswered, AnswerIsEvidence, NoHalfFilledSubmission
  <1>5. QED
    BY <1>1, <1>2, <1>3, <1>4

\* Sending again, or turning to the read-back, leaves answers and book alone.
LEMMA WaitingKeeps ==
  ASSUME DoorInv, Retry \/ Timeout
  PROVE  DoorInv'
  <1> USE DEF DoorInv, Retry, Timeout, PutOnWire
  <1>1. DoorTypeOK'
    BY DoorAssumption DEF DoorTypeOK, Door, Request, Idle, Replies, NoReply
  <1>2. KeyedByDecision'
    BY DEF KeyedByDecision
  <1>3. ReplyIsEvidence'
    BY DEF ReplyIsEvidence, NoReply
  <1>4. AtTheDoorUnanswered'
    BY DEF AtTheDoorUnanswered, Idle, DoorTypeOK, Door
  <1>5. AnswerIsEvidence' /\ NoHalfFilledSubmission'
    BY DEF AnswerIsEvidence, NoHalfFilledSubmission
  <1>6. QED
    BY <1>1, <1>2, <1>3, <1>4, <1>5

\* Concluding a call keeps the invariant when what is said is true.
LEMMA ConcludeKeeps ==
  ASSUME DoorInv, door # Idle, NEW what \in Answers,
         Conclude(door.decision, what), UNCHANGED <<wire, brokerOrders>>,
         what.kind \in {"submission", "breach"} =>
           /\ door.decision \in DOMAIN brokerOrders
           /\ what.order.decision = door.decision
           /\ what.order.status \in TerminalStatus => brokerOrders[door.decision] = what.order,
         what.kind = "submission" => ~IsPartial(what.order)
  PROVE  DoorInv'
  <1> USE DEF DoorInv, Conclude
  <1>1. door.decision \in Decisions
    BY DEF DoorTypeOK, Door
  <1>2. DoorTypeOK'
    BY <1>1 DEF DoorTypeOK, Door, Replies
  <1>3. KeyedByDecision'
    BY DEF KeyedByDecision
  <1>4. ReplyIsEvidence' /\ AtTheDoorUnanswered'
    BY DEF ReplyIsEvidence, NoReply, AtTheDoorUnanswered
  <1>5. AnswerIsEvidence'
    BY <1>1 DEF AnswerIsEvidence, DoorTypeOK
  <1>6. NoHalfFilledSubmission'
    BY <1>1 DEF NoHalfFilledSubmission, DoorTypeOK, IsPartial
  <1>7. QED
    BY <1>2, <1>3, <1>4, <1>5, <1>6

\* The five ways a call ends without an order.
LEMMA RaisingKeeps ==
  ASSUME DoorInv, GiveUp \/ Refused \/ Garbled \/ DoorReadFails
  PROVE  DoorInv'
  <1>1. PICK e \in Errors : Conclude(door.decision, Raised(e))
    BY DEF GiveUp, Refused, Garbled, DoorReadFails, Errors
  <1>2. door # Idle /\ UNCHANGED <<wire, brokerOrders>>
    BY DEF GiveUp, Refused, Garbled, DoorReadFails, Idle
  <1>3. Raised(e) \in Answers /\ Raised(e).kind = "raised"
    BY DEF Answers, Raised
  <1>4. QED
    BY <1>1, <1>2, <1>3, ConcludeKeeps

\* A direct answer that carries an order.
LEMMA AcceptedKeeps ==
  ASSUME DoorInv, Accepted
  PROVE  DoorInv'
  <1>1. reply.kind = "order" /\ door # Idle
    BY DEF Accepted, Idle
  <1>2. reply.order \in BrokerOrder
    BY <1>1 DEF DoorInv, DoorTypeOK, Replies, NoReply, ErrorReply, GarbledReply, OrderReply
  <1>3. /\ door.decision \in DOMAIN brokerOrders
        /\ reply.order.decision = door.decision
        /\ reply.order.status \in TerminalStatus => brokerOrders[door.decision] = reply.order
    BY <1>1 DEF DoorInv, ReplyIsEvidence
  <1>4. QED
    BY <1>1, <1>2, <1>3, GuardLemma, ConcludeKeeps DEF Accepted

\* A read-back tells what the broker has, or raises.
LEMMA ReadBackKeeps ==
  ASSUME DoorInv, DoorReadsBack
  PROVE  DoorInv'
  <1>1. door # Idle
    BY DEF DoorReadsBack, Idle
  <1>2. CASE door.decision \in DOMAIN brokerOrders
    <2>1. brokerOrders[door.decision] \in BrokerOrder /\ brokerOrders[door.decision].decision = door.decision
      BY <1>2 DEF DoorInv, DoorTypeOK, KeyedByDecision
    <2>2. Conclude(door.decision, Guarded(brokerOrders[door.decision]))
      BY <1>2 DEF DoorReadsBack, ClientOrderId
    <2>3. QED
      BY <1>1, <1>2, <2>1, <2>2, GuardLemma, ConcludeKeeps DEF DoorReadsBack
  <1>3. CASE door.decision \notin DOMAIN brokerOrders
    <2>1. Conclude(door.decision, Raised("ExecutionError"))
      BY <1>3 DEF DoorReadsBack, ClientOrderId
    <2>2. Raised("ExecutionError") \in Answers /\ Raised("ExecutionError").kind = "raised"
      BY DEF Answers, Raised, Errors
    <2>3. QED
      BY <1>1, <2>1, <2>2, ConcludeKeeps DEF DoorReadsBack
  <1>4. QED
    BY <1>2, <1>3

\* The shape of a request on the wire.
LEMMA WireLemma ==
  ASSUME DoorTypeOK, NEW m \in wire
  PROVE  /\ m \in Request
         /\ m.decision \in Decisions
         /\ ClientOrderId(m.decision, m.attempt) = m.decision
  BY DEF DoorTypeOK, Request, ClientOrderId

\* A reply only ever lands where the door is waiting for it.
LEMMA DeliverLemma ==
  ASSUME DoorTypeOK, NEW m \in wire, NEW r \in Replies, Deliver(m, r), UNCHANGED door
  PROVE  /\ reply' \in Replies
         /\ reply' # reply => door.pc = "waiting" /\ door.decision = m.decision /\ reply' = r
  BY DEF Deliver, DoorTypeOK

\* A request that changes no order leaves everything already known true.
LEMMA UntakenKeeps ==
  ASSUME DoorInv, NEW m \in wire,
         BrokerDeclines(m) \/ BrokerSeesDuplicate(m) \/ RequestVanishes(m),
         wire' = wire \ {m}, UNCHANGED <<door, answer>>
  PROVE  DoorInv'
  <1>1. UNCHANGED brokerOrders
    BY DEF BrokerDeclines, BrokerSeesDuplicate, RequestVanishes
  <1>2. reply' \in Replies /\ (reply' = reply \/ reply' = ErrorReply)
    BY DEF BrokerDeclines, BrokerSeesDuplicate, RequestVanishes, Deliver, DoorInv, DoorTypeOK, Replies
  <1>3. DoorTypeOK'
    BY <1>1, <1>2 DEF DoorInv, DoorTypeOK
  <1>4. ReplyIsEvidence'
    BY <1>1, <1>2 DEF DoorInv, ReplyIsEvidence, ErrorReply
  <1>5. KeyedByDecision' /\ AtTheDoorUnanswered' /\ AnswerIsEvidence' /\ NoHalfFilledSubmission'
    BY <1>1 DEF DoorInv, KeyedByDecision, AtTheDoorUnanswered, AnswerIsEvidence,
                NoHalfFilledSubmission
  <1>6. QED
    BY <1>3, <1>4, <1>5 DEF DoorInv

\* A new order is one nobody has been told of.
LEMMA TakenKeeps ==
  ASSUME DoorInv, NEW m \in wire, BrokerTakes(m),
         wire' = wire \ {m}, UNCHANGED <<door, answer>>
  PROVE  DoorInv'
  <1> DEFINE k == m.decision
  <1>1. k \in Decisions /\ ClientOrderId(m.decision, m.attempt) = k
    BY WireLemma DEF DoorInv
  <1>2. PICK o \in BrokerOrder :
          /\ o.decision = k
          /\ brokerOrders' = [x \in DOMAIN brokerOrders \union {k} |-> IF x = k THEN o ELSE brokerOrders[x]]
          /\ Deliver(m, OrderReply(o)) \/ Deliver(m, GarbledReply)
    BY <1>1 DEF BrokerTakes
  <1>3. k \notin DOMAIN brokerOrders
    BY <1>1 DEF BrokerTakes
  <1>4. /\ DOMAIN brokerOrders' = DOMAIN brokerOrders \union {k}
        /\ brokerOrders'[k] = o
        /\ \A x \in DOMAIN brokerOrders : brokerOrders'[x] = brokerOrders[x]
    BY <1>2, <1>3
  <1>5. reply' \in Replies
    BY <1>2 DEF Deliver, DoorInv, DoorTypeOK, Replies
  <1>6. DoorTypeOK'
    BY <1>1, <1>4, <1>5, KeysAreDecisions DEF DoorInv, DoorTypeOK
  <1>7. KeyedByDecision'
    BY <1>2, <1>4 DEF DoorInv, KeyedByDecision
  <1>8. ReplyIsEvidence'
    <2>1. CASE reply' = reply
      BY <2>1, <1>4 DEF DoorInv, ReplyIsEvidence
    <2>2. CASE reply' # reply
      <3>1. /\ door.pc = "waiting"
            /\ door.decision = k
            /\ reply' = OrderReply(o) \/ reply' = GarbledReply
        BY <2>2, <1>2 DEF Deliver
      <3>2. QED
        BY <3>1, <1>2, <1>4 DEF ReplyIsEvidence, OrderReply, GarbledReply
    <2>3. QED
      BY <2>1, <2>2
  <1>9. AtTheDoorUnanswered' /\ AnswerIsEvidence' /\ NoHalfFilledSubmission'
    BY <1>4 DEF DoorInv, AtTheDoorUnanswered, AnswerIsEvidence, NoHalfFilledSubmission
  <1>10. QED
    BY <1>6, <1>7, <1>8, <1>9 DEF DoorInv

\* Only a live order moves, so what was said of a settled one stays true.
LEMMA EvolveKeeps ==
  ASSUME DoorInv, NEW k \in DOMAIN brokerOrders, Evolve(k)
  PROVE  DoorInv'
  <1>1. PICK o \in BrokerOrder : Advances(brokerOrders[k], o) /\ Update(k, o)
    BY DEF Evolve
  <1>2. /\ brokerOrders' = [brokerOrders EXCEPT ![k] = o]
        /\ UNCHANGED <<door, wire, reply, answer>>
        /\ o.decision = brokerOrders[k].decision
        /\ brokerOrders[k].status \notin TerminalStatus
    BY <1>1 DEF Update, Advances, Evolve, LiveStatus, TerminalStatus
  <1>3. DoorTypeOK' /\ KeyedByDecision'
    BY <1>2 DEF DoorInv, DoorTypeOK, KeyedByDecision
  <1>4. ReplyIsEvidence'
    BY <1>2 DEF DoorInv, ReplyIsEvidence
  <1>5. AnswerIsEvidence'
    BY <1>2 DEF DoorInv, AnswerIsEvidence
  <1>6. AtTheDoorUnanswered' /\ NoHalfFilledSubmission'
    BY <1>2 DEF DoorInv, AtTheDoorUnanswered, NoHalfFilledSubmission
  <1>7. QED
    BY <1>3, <1>4, <1>5, <1>6 DEF DoorInv

-----------------------------------------------------------------------------
\* DoorInv is inductive: no step of the door or of the broker breaks it.
LEMMA StepKeeps ==
  ASSUME DoorInv, [DoorNext]_doorVars
  PROVE  DoorInv'
  <1>1. CASE \E d \in Decisions : Submit(d)
    BY <1>1, SubmitKeeps
  <1>2. CASE DoorStep
    BY <1>2, WaitingKeeps, RaisingKeeps, AcceptedKeeps, ReadBackKeeps DEF DoorStep
  <1>3. CASE \E m \in wire : BrokerReceives(m)
    BY <1>3, TakenKeeps, UntakenKeeps DEF BrokerReceives
  <1>4. CASE \E k \in DOMAIN brokerOrders : Evolve(k)
    BY <1>4, EvolveKeeps
  <1>5. CASE UNCHANGED doorVars
    BY <1>5 DEF doorVars, DoorInv, DoorTypeOK, KeyedByDecision, ReplyIsEvidence,
                AtTheDoorUnanswered, AnswerIsEvidence, NoHalfFilledSubmission
  <1>6. QED
    BY <1>1, <1>2, <1>3, <1>4, <1>5 DEF DoorNext, DoorBrokerStep

\* Every reachable state of the door satisfies the inductive invariant.
THEOREM DoorInvariant == DoorSpec => []DoorInv
  BY DoorInvInit, StepKeeps, PTL DEF DoorSpec

\* Every variable of the door keeps its type, whatever the transport does.
THEOREM TypeCorrect == DoorSpec => []DoorTypeOK
  <1>1. DoorInv => DoorTypeOK
    BY DEF DoorInv
  <1>2. QED
    BY <1>1, DoorInvariant, PTL

\* Retries, timeouts and late requests never make a second order of one
\* decision (execution/submit.py with the derived client_order_id).
THEOREM AtMostOneOrder == DoorSpec => []OneOrderPerDecision
  <1>1. DoorInv => OneOrderPerDecision
    BY DEF DoorInv, KeyedByDecision, OneOrderPerDecision
  <1>2. QED
    BY <1>1, DoorInvariant, PTL

\* What a caller is told of an order is true of the broker's book, and no caller
\* is handed a half-filled spread as a submission, on either path
\* (lifecycle.guard_against_partial_fill).
THEOREM AnswersAreEvidence == DoorSpec => []AnswersAreTrue
  <1>1. DoorInv => SubmissionIsEvidence
    BY DEF DoorInv, KeyedByDecision, AnswerIsEvidence, SubmissionIsEvidence
  <1>2. DoorInv => NoHalfFilledSubmission
    BY DEF DoorInv
  <1>3. DoorInv => AnswersAreTrue
    BY <1>1, <1>2 DEF AnswersAreTrue
  <1>4. QED
    BY <1>3, DoorInvariant, PTL

-----------------------------------------------------------------------------
(***************************************************************************)
(* The door implements OrderPromise.                                       *)
(***************************************************************************)
\* A conclusion is one telling: of an error, or of an order that is there.
LEMMA ConcludeTells ==
  ASSUME DoorInv, DoorInv', door # Idle, NEW what, Conclude(door.decision, what),
         UNCHANGED brokerOrders, what.kind \in {"raised", "submission", "breach"}
  PROVE  Promise!PromiseNext
  <1> DEFINE d == door.decision
  <1>1. d \in Decisions /\ answer[d] = Unanswered
    BY DEF DoorInv, DoorTypeOK, Door, AtTheDoorUnanswered
  <1>2. answer' = [answer EXCEPT ![d] = what] /\ DOMAIN answer = Decisions
    BY DEF Conclude, DoorInv, DoorTypeOK
  <1>3. ToldCallers[d] = "nothing" /\ ToldCallers' = [ToldCallers EXCEPT ![d] = WhatWasTold(what)]
    BY <1>1, <1>2 DEF ToldCallers, WhatWasTold, Unanswered
  <1>4. UNCHANGED PlacedOrders
    BY DEF PlacedOrders
  <1>5. CASE what.kind = "raised"
    <2>1. Promise!TellError(d)
      BY <1>3, <1>4, <1>5 DEF Promise!TellError, WhatWasTold
    <2>2. QED
      BY <1>1, <2>1 DEF Promise!PromiseNext
  <1>6. CASE what.kind \in {"submission", "breach"}
    <2>1. answer'[d] = what
      BY <1>1, <1>2
    <2>2. d \in DOMAIN brokerOrders /\ brokerOrders[d].decision = d
      BY <1>1, <1>6, <2>1 DEF DoorInv, AnswerIsEvidence, KeyedByDecision
    <2>3. PlacedOrders[d] # {}
      BY <1>1, <2>2 DEF PlacedOrders
    <2>4. Promise!TellWorking(d)
      BY <1>3, <1>4, <1>6, <2>3 DEF Promise!TellWorking, WhatWasTold
    <2>5. QED
      BY <1>1, <2>4 DEF Promise!PromiseNext
  <1>7. QED
    BY <1>5, <1>6

\* Each way a call can end is one of those conclusions.
LEMMA EndingsTell ==
  ASSUME DoorInv, DoorInv',
         GiveUp \/ Refused \/ Garbled \/ Accepted \/ DoorReadsBack \/ DoorReadFails
  PROVE  Promise!PromiseNext
  <1>1. door # Idle /\ UNCHANGED brokerOrders
    BY DEF GiveUp, Refused, Garbled, Accepted, DoorReadsBack, DoorReadFails, Idle
  <1>2. \A e : Raised(e).kind \in {"raised", "submission", "breach"}
    BY DEF Raised
  <1>3. \A o : Guarded(o).kind \in {"raised", "submission", "breach"}
    BY DEF Guarded, Returned, Breached
  <1>4. \E what : /\ Conclude(door.decision, what)
                  /\ what.kind \in {"raised", "submission", "breach"}
    <2>1. CASE GiveUp \/ Refused \/ Garbled \/ DoorReadFails
      BY <2>1, <1>2 DEF GiveUp, Refused, Garbled, DoorReadFails
    <2>2. CASE Accepted
      BY <2>2, <1>3 DEF Accepted
    <2>3. CASE DoorReadsBack
      BY <2>3, <1>2, <1>3 DEF DoorReadsBack
    <2>4. QED
      BY <2>1, <2>2, <2>3
  <1>5. QED
    BY <1>1, <1>4, ConcludeTells

\* The broker taking an order is the one placement of its decision.
LEMMA TakingPlaces ==
  ASSUME DoorInv, NEW m \in wire, BrokerTakes(m), UNCHANGED answer
  PROVE  Promise!PromiseNext
  <1> DEFINE k == m.decision
  <1>1. k \in Decisions /\ ClientOrderId(m.decision, m.attempt) = k
    BY WireLemma DEF DoorInv
  <1>2. k \notin DOMAIN brokerOrders
    BY <1>1 DEF BrokerTakes
  <1>3. PICK o \in BrokerOrder :
          /\ o.decision = k
          /\ brokerOrders' = [x \in DOMAIN brokerOrders \union {k} |-> IF x = k THEN o ELSE brokerOrders[x]]
    BY <1>1 DEF BrokerTakes
  <1>4. PlacedOrders[k] = {}
    BY <1>1, <1>2 DEF PlacedOrders, DoorInv, KeyedByDecision
  <1>5. PlacedOrders' = [PlacedOrders EXCEPT ![k] = {k}]
    <2>1. ASSUME NEW d \in Decisions
          PROVE  PlacedOrders'[d] = IF d = k THEN {k} ELSE PlacedOrders[d]
      <3>1. PlacedOrders'[d] = {x \in DOMAIN brokerOrders \union {k} : (IF x = k THEN o ELSE brokerOrders[x]).decision = d}
        BY <1>3 DEF PlacedOrders
      <3>2. PlacedOrders[d] = {x \in DOMAIN brokerOrders : brokerOrders[x].decision = d}
        BY DEF PlacedOrders
      <3>3. QED
        BY <3>1, <3>2, <1>2, <1>3 DEF DoorInv, KeyedByDecision
    <2>2. QED
      BY <2>1, <1>1 DEF PlacedOrders
  <1>6. UNCHANGED ToldCallers
    BY DEF ToldCallers
  <1>7. Promise!Place(k)
    BY <1>1, <1>4, <1>5, <1>6, KeysAreDecisions DEF Promise!Place
  <1>8. QED
    BY <1>1, <1>7 DEF Promise!PromiseNext

\* Everything else the door or the broker does is a stutter of the promise.
LEMMA OthersStutter ==
  ASSUME DoorInv, UNCHANGED answer,
         UNCHANGED brokerOrders \/ (\E k \in DOMAIN brokerOrders : Evolve(k))
  PROVE  UNCHANGED Promise!pvars
  <1>1. UNCHANGED ToldCallers
    BY DEF ToldCallers
  <1>2. CASE UNCHANGED brokerOrders
    BY <1>1, <1>2 DEF Promise!pvars, PlacedOrders
  <1>3. ASSUME NEW k \in DOMAIN brokerOrders, Evolve(k)
        PROVE  UNCHANGED PlacedOrders
    <2>1. PICK o \in BrokerOrder : brokerOrders' = [brokerOrders EXCEPT ![k] = o] /\ o.decision = brokerOrders[k].decision
      BY <1>3 DEF Evolve, Advances, Update
    <2>2. DOMAIN brokerOrders' = DOMAIN brokerOrders /\ \A x \in DOMAIN brokerOrders : brokerOrders'[x].decision = brokerOrders[x].decision
      BY <2>1
    <2>3. QED
      BY <2>2 DEF PlacedOrders
  <1>4. QED
    BY <1>1, <1>2, <1>3 DEF Promise!pvars

\* Each step of the door is a step of the promise or a stutter.
LEMMA StepRefines ==
  ASSUME DoorInv, DoorInv', [DoorNext]_doorVars
  PROVE  [Promise!PromiseNext]_(Promise!pvars)
  <1>1. CASE \E d \in Decisions : Submit(d)
    BY <1>1, OthersStutter DEF Submit
  <1>2. CASE Retry \/ Timeout
    BY <1>2, OthersStutter DEF Retry, Timeout
  <1>3. CASE DoorStep /\ ~(Retry \/ Timeout)
    BY <1>3, EndingsTell DEF DoorStep
  <1>4. CASE \E m \in wire : BrokerReceives(m)
    <2>1. PICK m \in wire : BrokerReceives(m)
      BY <1>4
    <2>2. CASE BrokerTakes(m)
      BY <2>1, <2>2, TakingPlaces DEF BrokerReceives
    <2>3. CASE BrokerDeclines(m) \/ BrokerSeesDuplicate(m) \/ RequestVanishes(m)
      BY <2>1, <2>3, OthersStutter DEF BrokerReceives, BrokerDeclines, BrokerSeesDuplicate, RequestVanishes
    <2>4. QED
      BY <2>1, <2>2, <2>3 DEF BrokerReceives
  <1>5. CASE \E k \in DOMAIN brokerOrders : Evolve(k)
    BY <1>5, OthersStutter DEF Evolve, Update
  <1>6. CASE UNCHANGED doorVars
    BY <1>6, OthersStutter DEF doorVars
  <1>7. QED
    BY <1>1, <1>2, <1>3, <1>4, <1>5, <1>6 DEF DoorNext, DoorBrokerStep

\* The door keeps its promise: one placement a decision, an order told of is
\* an order placed, and nobody is answered twice.
THEOREM DoorKeepsPromise == DoorSpec => KeepsPromise
  <1>1. DoorInit => Promise!PromiseInit
    BY DEF DoorInit, Promise!PromiseInit, PlacedOrders, ToldCallers, WhatWasTold, Unanswered
  <1>2. DoorInv /\ DoorInv' /\ [DoorNext]_doorVars => [Promise!PromiseNext]_(Promise!pvars)
    BY StepRefines
  <1>3. QED
    BY <1>1, <1>2, DoorInvariant, PTL DEF DoorSpec, KeepsPromise, Promise!PromiseSpec
=============================================================================
