---------------------------- MODULE DecisionLog -----------------------------
(***************************************************************************)
(* What the journal, the kill switch and the broker promise together,      *)
(* through every failure of the process and the transport.  A decision is  *)
(* written once; it is written as sent only when its order is at the       *)
(* broker, and as settled only when the broker settled it, so a settled    *)
(* decision is never revised; and a tripped kill switch is the end of new  *)
(* risk.                                                                   *)
(***************************************************************************)
CONSTANT Ids

VARIABLES written,   \* what the journal says of each decision
          truth,     \* what the broker has of it
          opening,   \* the decisions sent to open risk
          tripped    \* the kill switch

lvars == <<written, truth, opening, tripped>>

LogInit ==
  /\ written = [c \in Ids |-> "nothing"]
  /\ truth = [c \in Ids |-> "absent"]
  /\ opening = {}
  /\ tripped = FALSE

\* The journal only ever says what the broker can bear out.
Justified(what, c) ==
  /\ what = "sent" => truth[c] # "absent"
  /\ what = "settled" => truth[c] = "settled"

Write(c) ==
  /\ written[c] = "nothing"
  /\ \E what \in {"made", "sent", "settled"} :
       /\ Justified(what, c)
       /\ written' = [written EXCEPT ![c] = what]
  /\ UNCHANGED <<truth, opening, tripped>>

Learn(c) ==
  /\ written[c] = "sent"
  /\ truth[c] = "settled"
  /\ written' = [written EXCEPT ![c] = "settled"]
  /\ UNCHANGED <<truth, opening, tripped>>

\* A decision goes to the broker, which may answer with a settled order.
SendOut(c) ==
  /\ truth[c] = "absent"
  /\ \E what \in {"absent", "live", "settled"} : truth' = [truth EXCEPT ![c] = what]
  /\ opening' \in {opening, opening \union {c}}
  /\ tripped => opening' = opening
  /\ UNCHANGED <<written, tripped>>

\* It arrives late, or never, or is settled.
Settle(c) ==
  /\ truth[c] # "settled"
  /\ \E what \in {"live", "settled"} : truth' = [truth EXCEPT ![c] = what]
  /\ UNCHANGED <<written, tripped>>
  /\ opening' = opening

Forgets(c) ==
  /\ truth[c] = "absent"
  /\ opening' = opening \ {c}
  /\ UNCHANGED <<written, truth, tripped>>

Trip ==
  /\ tripped' = TRUE
  /\ UNCHANGED <<written, truth, opening>>

LogNext == Trip \/ \E c \in Ids : Write(c) \/ Learn(c) \/ SendOut(c) \/ Settle(c) \/ Forgets(c)

LogSpec == LogInit /\ [][LogNext]_lvars
=============================================================================
