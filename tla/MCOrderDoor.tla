---------------------------- MODULE MCOrderDoor -----------------------------
(***************************************************************************)
(* What may go wrong between the agent and the broker, each at its own     *)
(* scale: the door's two calls with their retries, and the options agent   *)
(* over two days with every fault at once.  A run is of one of them,       *)
(* chosen at the start, the other standing still.                          *)
(***************************************************************************)
EXTENDS OrderDoorProps, OptionsSessionProps

VARIABLES scale

allVars == <<scale, doorVars, vars>>

MCInit == scale \in {"call", "session"} /\ DoorInit /\ Init

AtTheDoor(step) == scale = "call" /\ step /\ UNCHANGED <<scale, vars>>

InTheSession(step) == scale = "session" /\ step /\ UNCHANGED <<scale, doorVars>>

MCNext == AtTheDoor(DoorNext) \/ InTheSession(Next)

\* The fairness of each, while it is the one that runs.
MCFairness ==
  /\ WF_allVars(AtTheDoor(DoorStep))
  /\ WF_allVars(InTheSession(AgentStep))
  /\ WF_allVars(InTheSession(Tick))
  /\ WF_allVars(InTheSession(NightStep))

MCSpec == MCInit /\ [][MCNext]_allVars /\ MCFairness
=============================================================================
