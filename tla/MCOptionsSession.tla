-------------------------- MODULE MCOptionsSession --------------------------
(***************************************************************************)
(* The options agent while nothing kills it, and the books the research    *)
(* hands to the accounts, each at its own scale. A run is of one of them,  *)
(* chosen at the start, the other standing still.                          *)
(***************************************************************************)
EXTENDS OptionsSessionProps, BookHandOff, TLC

CONSTANTS
  Scales,     \* those a run may be of
  n1, n2

VARIABLES scale

\* n1 comes before n2.
MCPrecedes == n1 :> {} @@ n2 :> {n1}

OptionRule(structure, points, entry, share) ==
  [structure |-> structure, points |-> points, entry |-> entry, share |-> share]

\* One rule the options agent takes, and one each way it does not.
MCRuleShapes ==
  {OptionRule("put_credit_spread", FALSE, "clauses", "small"),
   OptionRule("iron_condor", FALSE, "clauses", "small"),
   OptionRule("put_credit_spread", TRUE, "clauses", "small"),
   OptionRule("put_credit_spread", FALSE, "disjunction", "small"),
   OptionRule("call_credit_spread", FALSE, "clauses", "large")}

NoHandOff ==
  /\ family = NoBook /\ shape = NoBook /\ day = 1 /\ reach = 1 /\ status = NoBook
  /\ seal = NoBook /\ files = <<>> /\ writer = NoBook /\ loaded = NoBook
  /\ executed = NoBook /\ tradeable = 0

\* The session stands as it begins.
MCInit ==
  /\ scale \in Scales /\ Init
  /\ IF scale = "hand-off" THEN HandOffInit ELSE NoHandOff

MCNext ==
  \/ scale = "session" /\ Next /\ UNCHANGED <<scale, hvars>>
  \/ scale = "hand-off" /\ HandOffNext /\ UNCHANGED <<scale, vars>>

MCSpec == MCInit /\ [][MCNext]_<<scale, vars, hvars>>

\* The hand-offs differ in nothing but their names.
Symmetric == Permutations(Writers)
=============================================================================
