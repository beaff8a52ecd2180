--------------------------- MODULE OrderDoorProps ---------------------------
(***************************************************************************)
(* What the door promises, stated over OrderDoor, and the mutated forms of *)
(* its definitions that each promise has to notice.                        *)
(***************************************************************************)
EXTENDS OrderDoor

(***************************************************************************)
(* Safety                                                                  *)
(***************************************************************************)
\* However often a decision is sent -- a retry, a request landing after the
\* door stopped waiting -- the broker ends up with at most one order for it
\* (execution/idempotency.py: the id is derived, not random).
OneOrderPerDecision ==
  \A j, k \in DOMAIN brokerOrders : brokerOrders[j].decision = brokerOrders[k].decision => j = k

\* No path through submit or read_back hands its caller a half-filled spread
\* as an ordinary submission (lifecycle.guard_against_partial_fill).
NoHalfFilledSubmission ==
  \A d \in Decisions : answer[d].kind = "submission" => ~IsPartial(answer[d].order)

\* A submission, or the one inside a breach, is evidence: the order it describes
\* is at the broker, and if it was already settled when the caller heard of it,
\* it still says the same.
SubmissionIsEvidence ==
  \A d \in Decisions :
    answer[d].kind \in {"submission", "breach"} =>
      \E k \in DOMAIN brokerOrders :
        /\ brokerOrders[k].decision = d
        /\ answer[d].order.decision = d
        /\ answer[d].order.status \in TerminalStatus => brokerOrders[k] = answer[d].order

\* What a caller is told of its order is so, and no ordinary submission hides
\* a half-filled spread.
AnswersAreTrue == SubmissionIsEvidence /\ NoHalfFilledSubmission

(***************************************************************************)
(* Liveness and refinement                                                 *)
(***************************************************************************)
\* Every call made at the door returns or raises.
EveryCallConcludes ==
  \A d \in Decisions : door.decision = d ~> door.decision # d

PlacedOrders == [d \in Decisions |-> {k \in DOMAIN brokerOrders : brokerOrders[k].decision = d}]

WhatWasTold(a) ==
  IF a.kind = "nothing" THEN "nothing"
  ELSE IF a.kind = "raised" THEN "error" ELSE "working"

ToldCallers == [d \in Decisions |-> WhatWasTold(answer[d])]

Promise == INSTANCE OrderPromise WITH placed <- PlacedOrders, told <- ToldCallers

\* The door implements the promise: one order per decision at most, and
\* "working" only of an order that exists.
KeepsPromise == Promise!PromiseSpec
=============================================================================
