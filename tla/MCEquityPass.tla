---------------------------- MODULE MCEquityPass ----------------------------
(***************************************************************************)
(* The equity agent over two names, a book, its revision and the next      *)
(* session's; and what is read back of what an agent wrote: the journal of *)
(* a day, the positions its records and the legs at the broker come to,    *)
(* and the page made of its snapshots. A run is of one of them, chosen at  *)
(* the start, the others standing still.                                   *)
(***************************************************************************)
EXTENDS EquityPassProps, OptionsBook, JournalFile, Dashboard

CONSTANTS
  Parts,          \* those a run may be of
  x, y,
  p1, p2, p3

VARIABLES part

MCBooks == {[asOf |-> 0, rev |-> 1], [asOf |-> 0, rev |-> 2], [asOf |-> 1, rev |-> 1]}

\* The first book sells half of x for y; its revision sells the rest; the next
\* session's wants neither more of x nor less of y.
MCWant(b, s) ==
  CASE s = x -> (IF b.asOf = 0 /\ b.rev = 1 THEN 1 ELSE 0)
    [] s = y -> (IF b.asOf = 0 THEN b.rev ELSE 2)

MCPrice(s) == IF s = x THEN 2 ELSE 1
MCInherited == {[s \in {x, y} |-> IF s = x THEN 2 ELSE 0]}

\* Three spreads, every two of which share a contract.
MCContracts == {p1, p2, p3}
MCStructures == {[short |-> p1, long |-> p2], [short |-> p2, long |-> p3], [short |-> p1, long |-> p3]}

NoRecords ==
  /\ records = <<>> /\ next = 0 /\ held = {} /\ closed = {}
  /\ legs = [c \in Contracts |-> 0] /\ remaining = legs

\* The pass, the journal and the page stand as they begin.
MCInit ==
  /\ part \in Parts /\ Init /\ FileInit /\ PageInit
  /\ IF part = "book" THEN PositionsInit ELSE NoRecords

MCNext ==
  \/ part = "pass" /\ Next /\ UNCHANGED <<part, fvars, bvars, dvars>>
  \/ part = "file" /\ FileNext /\ UNCHANGED <<part, vars, bvars, dvars>>
  \/ part = "book" /\ PositionsNext /\ UNCHANGED <<part, vars, fvars, dvars>>
  \/ part = "page" /\ PageNext /\ UNCHANGED <<part, vars, fvars, bvars>>

MCSpec == MCInit /\ [][MCNext]_<<part, vars, fvars, bvars, dvars>>
=============================================================================
