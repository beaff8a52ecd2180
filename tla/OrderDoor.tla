----------------------------- MODULE OrderDoor ------------------------------
(***************************************************************************)
(* execution/submit.py, the only way an order reaches the broker, with the *)
(* transport of execution/stdio.py underneath it, the derived idempotency  *)
(* key of execution/idempotency.py and the order lifecycle of              *)
(* execution/lifecycle.py.                                                 *)
(*                                                                         *)
(* One caller, one call at a time (the agent loop is synchronous).  A      *)
(* request the door has stopped waiting for may still be on the wire: a    *)
(* timeout cancels the local future and leaves the request where it is,    *)
(* and a dropped connection says nothing about what the broker received.   *)
(* The broker is external: it refuses a client_order_id it has seen.       *)
(***************************************************************************)
EXTENDS Naturals

CONSTANTS Decisions,     \* approved orders, one per GatedOrder
          MaxAttempts,   \* MAX_ATTEMPTS
          Legs,          \* legs of a multi-leg order
          NoOne          \* no decision is at the door

ASSUME DoorAssumption ==
  /\ MaxAttempts \in Nat \ {0}
  /\ Legs \in Nat \ {0, 1}
  /\ NoOne \notin Decisions

VARIABLES door,     \* the call in progress: pc, decision, attempt
          wire,     \* place requests the broker has not handled
          reply,    \* what the place call being waited for returned
          brokerOrders,   \* the broker's book: client_order_id -> order
          answer    \* what each decision's caller was handed

doorVars == <<door, wire, reply, brokerOrders, answer>>

(***************************************************************************)
(* Orders and answers                                                      *)
(***************************************************************************)
LiveStatus == {"accepted", "new", "partially_filled"}
TerminalStatus == {"filled", "canceled", "expired", "rejected"}
OrderStatus == LiveStatus \union TerminalStatus

\* What an order can look like: filled when every leg is, rejected before any.
Coherent(o) ==
  /\ o.status = "filled" <=> o.filled = Legs
  /\ o.status = "rejected" => o.filled = 0

BrokerOrder ==
  {o \in [decision : Decisions, status : OrderStatus, filled : 0..Legs] : Coherent(o)}

\* Submission.is_partial, both readings: the parent says so, or the legs of a
\* multi-leg order disagree with each other.
IsPartial(o) ==
  \/ o.status = "partially_filled"
  \/ 0 < o.filled /\ o.filled < Legs

Request == [decision : Decisions, attempt : 1..MaxAttempts]

\* Mutant: a fresh id on every attempt, "not an idempotency key, a second order".
FreshClientOrderId(d, attempt) == <<d, attempt>>

\* The client_order_id of one attempt: a hash of the decision, its structure,
\* quantity, intent and trading day -- the attempt number is not in it.
ClientOrderId(d, attempt) == d

Keys == {ClientOrderId(d, a) : d \in Decisions, a \in 1..MaxAttempts}

NoReply == [kind |-> "none"]
ErrorReply == [kind |-> "error"]
GarbledReply == [kind |-> "garbled"]
OrderReply(o) == [kind |-> "order", order |-> o]
Replies == {NoReply, ErrorReply, GarbledReply} \union {OrderReply(o) : o \in BrokerOrder}

Unanswered == [kind |-> "nothing"]
Raised(e) == [kind |-> "raised", error |-> e]
Returned(o) == [kind |-> "submission", order |-> o]
Breached(o) == [kind |-> "breach", order |-> o]

\* The ExecutionErrors submit lets escape, other than the breach.
Errors == {"BrokerRefused", "TransportFailure", "ExecutionError", "ToolTimeout",
           "MalformedToolOutput"}

\* guard_against_partial_fill: the submission, or the PartialFillBreach that
\* carries it.
Guarded(o) == IF IsPartial(o) THEN Breached(o) ELSE Returned(o)

Answers ==
  {Unanswered} \union {Raised(e) : e \in Errors}
               \union {Guarded(o) : o \in BrokerOrder}

Idle == [pc |-> "idle", decision |-> NoOne, attempt |-> 0]

Door ==
  {Idle} \union
  [pc : {"waiting", "reading"}, decision : Decisions, attempt : 1..MaxAttempts]

DoorTypeOK ==
  /\ door \in Door
  /\ wire \subseteq Request
  /\ reply \in Replies
  /\ DOMAIN brokerOrders \subseteq Keys
  /\ \A k \in DOMAIN brokerOrders : brokerOrders[k] \in BrokerOrder
  /\ answer \in [Decisions -> Answers]

DoorInit ==
  /\ door = Idle
  /\ wire = {}
  /\ reply = NoReply
  /\ brokerOrders = [k \in {} |-> Idle]
  /\ answer = [d \in Decisions |-> Unanswered]

(***************************************************************************)
(* The door                                                                *)
(***************************************************************************)
PutOnWire(d, a) == wire' = wire \union {[decision |-> d, attempt |-> a]}

Conclude(d, what) ==
  /\ answer' = [answer EXCEPT ![d] = what]
  /\ door' = Idle
  /\ reply' = NoReply

\* submit: derive the key, send the first attempt.
Submit(d) ==
  /\ door = Idle
  /\ answer[d] = Unanswered
  /\ door' = [pc |-> "waiting", decision |-> d, attempt |-> 1]
  /\ PutOnWire(d, 1)
  /\ UNCHANGED <<reply, brokerOrders, answer>>

\* Mutant: the attempt counter is not advanced.
RetryUncounted ==
  /\ door.pc = "waiting"
  /\ PutOnWire(door.decision, door.attempt)
  /\ reply' = NoReply
  /\ UNCHANGED <<door, brokerOrders, answer>>

\* A TransportFailure before the last attempt: sleep, send the same key again.
Retry ==
  /\ door.pc = "waiting"
  /\ door.attempt < MaxAttempts
  /\ door' = [door EXCEPT !.attempt = @ + 1]
  /\ PutOnWire(door.decision, door.attempt + 1)
  /\ reply' = NoReply
  /\ UNCHANGED <<brokerOrders, answer>>

\* A TransportFailure on the last attempt is raised to the caller.
GiveUp ==
  /\ door.pc = "waiting"
  /\ door.attempt = MaxAttempts
  /\ Conclude(door.decision, Raised("TransportFailure"))
  /\ UNCHANGED <<wire, brokerOrders>>

\* A ToolTimeout: the outcome is unknown, so ask what the broker has.
Timeout ==
  /\ door.pc = "waiting"
  /\ door' = [door EXCEPT !.pc = "reading"]
  /\ reply' = NoReply
  /\ UNCHANGED <<wire, brokerOrders, answer>>

\* The call returned an error object: _reject_error_payload.
Refused ==
  /\ door.pc = "waiting"
  /\ reply = ErrorReply
  /\ Conclude(door.decision, Raised("BrokerRefused"))
  /\ UNCHANGED <<wire, brokerOrders>>

\* The call returned something without a readable status.
Garbled ==
  /\ door.pc = "waiting"
  /\ reply = GarbledReply
  /\ Conclude(door.decision, Raised("MalformedToolOutput"))
  /\ UNCHANGED <<wire, brokerOrders>>

\* Mutant: an accepted order is reported as a filled one.
AcceptedAsFilled ==
  /\ door.pc = "waiting"
  /\ reply.kind = "order"
  /\ Conclude(door.decision,
              Guarded([reply.order EXCEPT !.status = "filled", !.filled = Legs]))
  /\ UNCHANGED <<wire, brokerOrders>>

\* The call returned an order object.
Accepted ==
  /\ door.pc = "waiting"
  /\ reply.kind = "order"
  /\ Conclude(door.decision, Guarded(reply.order))
  /\ UNCHANGED <<wire, brokerOrders>>

\* Mutant: a missing order is taken for one still on its way.
ReadBackAssuming ==
  LET k == ClientOrderId(door.decision, door.attempt)
      o == [decision |-> door.decision, status |-> "accepted", filled |-> 0]
  IN  /\ door.pc = "reading"
      /\ Conclude(door.decision, Guarded(IF k \in DOMAIN brokerOrders THEN brokerOrders[k] ELSE o))
      /\ UNCHANGED <<wire, brokerOrders>>

\* read_back, answered: the order as it now is, or a refusal to guess.  A status
\* that is of no end and no part (pending_new, replaced) is that of an order at work.
DoorReadsBack ==
  LET k == ClientOrderId(door.decision, door.attempt)
  IN  /\ door.pc = "reading"
      /\ Conclude(door.decision,
                  IF k \in DOMAIN brokerOrders THEN Guarded(brokerOrders[k])
                                         ELSE Raised("ExecutionError"))
      /\ UNCHANGED <<wire, brokerOrders>>

\* read_back itself timing out or failing is left to raise.
DoorReadFails ==
  /\ door.pc = "reading"
  /\ \E e \in {"ToolTimeout", "TransportFailure"} :
       Conclude(door.decision, Raised(e))
  /\ UNCHANGED <<wire, brokerOrders>>

(***************************************************************************)
(* The broker                                                              *)
(***************************************************************************)
\* A reply reaches the door only while it is waiting for that very request.
Deliver(m, r) ==
  reply' = IF /\ door.pc = "waiting"
              /\ door.decision = m.decision
              /\ door.attempt = m.attempt
           THEN r ELSE reply

\* A new key: the broker takes the order, which may be settled at once.
BrokerTakes(m) ==
  LET k == ClientOrderId(m.decision, m.attempt)
  IN  /\ k \notin DOMAIN brokerOrders
      /\ \E o \in BrokerOrder :
           /\ o.decision = m.decision
           /\ brokerOrders' = [x \in DOMAIN brokerOrders \union {k} |->
                           IF x = k THEN o ELSE brokerOrders[x]]
           /\ Deliver(m, OrderReply(o)) \/ Deliver(m, GarbledReply)

\* A new key declined with a 4xx: there is no order.
BrokerDeclines(m) ==
  /\ ClientOrderId(m.decision, m.attempt) \notin DOMAIN brokerOrders
  /\ Deliver(m, ErrorReply)
  /\ UNCHANGED brokerOrders

\* A key it has seen: "client_order_id must be unique".
BrokerSeesDuplicate(m) ==
  /\ ClientOrderId(m.decision, m.attempt) \in DOMAIN brokerOrders
  /\ Deliver(m, ErrorReply)
  /\ UNCHANGED brokerOrders

\* The request never arrives.
RequestVanishes(m) == UNCHANGED <<reply, brokerOrders>>

BrokerReceives(m) ==
  /\ wire' = wire \ {m}
  /\ BrokerTakes(m) \/ BrokerDeclines(m) \/ BrokerSeesDuplicate(m) \/ RequestVanishes(m)
  /\ UNCHANGED <<door, answer>>

Update(k, o) ==
  /\ brokerOrders' = [brokerOrders EXCEPT ![k] = o]
  /\ UNCHANGED <<door, wire, reply, answer>>

\* The lifecycle of a live order: it moves to any later shape, a leg filling
\* before or after the parent says so.
Advances(old, new) ==
  /\ new.decision = old.decision
  /\ new.filled >= old.filled
  /\ new # old
  /\ new.status = "accepted" => old.status = "accepted"
  /\ new.status = "new" => old.status \in {"accepted", "new"}

Evolve(k) ==
  /\ brokerOrders[k].status \in LiveStatus
  /\ \E o \in BrokerOrder : Advances(brokerOrders[k], o) /\ Update(k, o)

DoorStep ==
  \/ Retry \/ GiveUp \/ Timeout
  \/ Refused \/ Garbled \/ Accepted \/ DoorReadsBack \/ DoorReadFails

DoorBrokerStep ==
  \/ \E m \in wire : BrokerReceives(m)
  \/ \E k \in DOMAIN brokerOrders : Evolve(k)

DoorNext == (\E d \in Decisions : Submit(d)) \/ DoorStep \/ DoorBrokerStep

\* A call in progress ends: each tool call has a timeout (StdioSession._run).
DoorFairness == WF_doorVars(DoorStep)

DoorSpec == DoorInit /\ [][DoorNext]_doorVars /\ DoorFairness
=============================================================================
