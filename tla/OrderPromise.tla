---------------------------- MODULE OrderPromise ----------------------------
(***************************************************************************)
(* What the only door to the broker promises its callers, whatever the     *)
(* transport does.  A decision puts at most one order at the broker; an    *)
(* order once placed is never forgotten; a caller is told at most once,    *)
(* and is told that an order exists only when one does.  The caller who is *)
(* told of an error has learned nothing about the order: Place may come    *)
(* before or after that answer.                                            *)
(***************************************************************************)
CONSTANTS Decisions, Keys

VARIABLES placed, told

pvars == <<placed, told>>

Told == {"nothing", "working", "error"}

PromiseInit ==
  /\ placed = [d \in Decisions |-> {}]
  /\ told = [d \in Decisions |-> "nothing"]

\* The broker accepts the one order a decision may ever have.
Place(d) ==
  /\ placed[d] = {}
  /\ \E k \in Keys : placed' = [placed EXCEPT ![d] = {k}]
  /\ UNCHANGED told

\* The caller learns that its order is at the broker.
TellWorking(d) ==
  /\ told[d] = "nothing"
  /\ placed[d] # {}
  /\ told' = [told EXCEPT ![d] = "working"]
  /\ UNCHANGED placed

\* The caller is handed an exception.
TellError(d) ==
  /\ told[d] = "nothing"
  /\ told' = [told EXCEPT ![d] = "error"]
  /\ UNCHANGED placed

PromiseNext == \E d \in Decisions : Place(d) \/ TellWorking(d) \/ TellError(d)

PromiseSpec == PromiseInit /\ [][PromiseNext]_pvars
=============================================================================
