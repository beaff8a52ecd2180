---------------------------- MODULE OptionsBook -----------------------------
(***************************************************************************)
(* agent/book.py, open_positions: the loop that matches the option legs    *)
(* the broker holds against the filled records of the journal.  Quantities *)
(* are signed, long positive.  One step is one record, newest first.       *)
(***************************************************************************)
EXTENDS Integers, Sequences, FiniteSets, Functions

CONSTANTS Contracts, Structures, MaxRecords, MaxQuantity

\* A structure is a short and a long contract, one of each.
ASSUME BookAssumption ==
  /\ Structures \subseteq [short : Contracts, long : Contracts]
  /\ \A s \in Structures : s.short # s.long
  /\ MaxRecords \in Nat
  /\ MaxQuantity \in Nat \ {0}

VARIABLES
  records,    \* the journal: filled or not, structure, quantity; oldest first
  legs,       \* the broker's signed quantity of each contract
  next,       \* the record the loop looks at; 0 when it is done
  remaining,  \* what no record has claimed of each contract
  held,       \* indices of the records whose structure is still open
  closed      \* indices of the filled records whose structure is gone

bvars == <<records, legs, next, remaining, held, closed>>

Records == [filled : BOOLEAN, structure : Structures, quantity : 1..MaxQuantity]

PositionsInit ==
  /\ \E n \in 0..MaxRecords : records \in [1..n -> Records]
  /\ legs \in [Contracts -> -MaxQuantity..MaxQuantity]
  /\ next = Len(records)
  /\ remaining = legs
  /\ held = {}
  /\ closed = {}

Named(r) == {r.structure.short, r.structure.long}

\* _contracts_wanted, for the contracts a record names.
Wanted(r, c) == IF c = r.structure.short THEN -r.quantity ELSE r.quantity

SameSide(have, wanted) == (have > 0 /\ wanted > 0) \/ (have < 0 /\ wanted < 0)

\* _all_present: every leg still there, on the side it was opened.
AllPresent(r) == \A c \in Named(r) : SameSide(remaining[c], Wanted(r, c))

Abs(n) == IF n < 0 THEN -n ELSE n

\* _after_claiming: never crosses zero.
AfterClaiming(have, wanted) == IF Abs(wanted) >= Abs(have) THEN 0 ELSE have - wanted

Look == next # 0 /\ next' = next - 1 /\ UNCHANGED <<records, legs>>

\* Not a fill: nothing to match.
Skip ==
  /\ Look
  /\ ~records[next].filled
  /\ UNCHANGED <<remaining, held, closed>>

\* A fill whose legs are not all there is closed, expired or assigned.
Gone ==
  /\ Look
  /\ records[next].filled /\ ~AllPresent(records[next])
  /\ closed' = closed \union {next}
  /\ UNCHANGED <<remaining, held>>

\* Mutant: a claimed leg stays claimable, one contract being two positions.
ClaimWithoutTaking ==
  /\ Look
  /\ records[next].filled /\ AllPresent(records[next])
  /\ held' = held \union {next}
  /\ UNCHANGED <<closed, remaining>>

\* A fill whose legs are there is held, and takes its share of them.
Claim ==
  LET r == records[next]
  IN  /\ Look
      /\ r.filled /\ AllPresent(r)
      /\ remaining' = [c \in Contracts |->
                         IF c \in Named(r) THEN AfterClaiming(remaining[c], Wanted(r, c))
                                           ELSE remaining[c]]
      /\ held' = held \union {next}
      /\ UNCHANGED closed

\* The loop is over; what remains is unexplained.
AllRead == next = 0 /\ UNCHANGED bvars

PositionsNext == Skip \/ Gone \/ Claim \/ AllRead

PositionsSpec == PositionsInit /\ [][PositionsNext]_bvars /\ WF_bvars(PositionsNext)

-----------------------------------------------------------------------------
\* Every variable keeps its type.
PositionsTypeOK ==
  /\ Len(records) <= MaxRecords
  /\ \A i \in 1..Len(records) : records[i] \in Records
  /\ legs \in [Contracts -> Int]
  /\ next \in 0..Len(records)
  /\ remaining \in [Contracts -> Int]
  /\ held \subseteq 1..Len(records)
  /\ closed \subseteq 1..Len(records)

Between(x, y) == (0 <= x /\ x <= y) \/ (y <= x /\ x <= 0)

\* What is left of a leg is a part of it: never the other side, never more
\* ("a negative remainder would come back as a short leg nobody ever opened").
NeverCrossesZero == \A c \in Contracts : Between(remaining[c], legs[c])

\* Every filled record is in the book or reported closed, never both.
EveryFillIsAccounted ==
  /\ held \intersect closed = {}
  /\ held \union closed = {i \in (next + 1)..Len(records) : records[i].filled}

\* The records held that name a contract, and what they want of it together.
Claims(c) == {i \in held : c \in Named(records[i])}
Claimed(c) == SumFunctionOnSet([i \in Claims(c) |-> Wanted(records[i], c)], Claims(c))

\* A contract is never two positions: the records held want no less of a leg
\* than was taken of it, and when each is one lot, exactly what was taken.
OneContractOnePosition ==
  \A c \in Contracts :
    /\ Abs(Claimed(c)) >= Abs(legs[c] - remaining[c])
    /\ (\A i \in held : records[i].quantity = 1) => Claimed(c) = legs[c] - remaining[c]

Lots(s) ==
  IF legs[s.short] >= 0 \/ legs[s.long] <= 0 THEN 0
  ELSE IF -legs[s.short] < legs[s.long] THEN -legs[s.short] ELSE legs[s.long]

\* The filled records of a structure.
Fills(s) == {i \in 1..Len(records) : records[i].filled /\ records[i].structure = s}

\* One lot a record, and no contract that two structures share.
Alike ==
  /\ \A i \in 1..Len(records) : records[i].quantity = 1
  /\ \A i, j \in 1..Len(records) :
       records[i].structure = records[j].structure \/ Named(records[i]) \intersect Named(records[j]) = {}

\* With one lot a record and no contract shared, the records held are the
\* newest as many as the broker has complete spreads: the book OptionsSession
\* reads.
NewestFirst ==
  next = 0 /\ Alike =>
    held = UNION {{i \in Fills(s) : Cardinality({j \in Fills(s) : j >= i}) <= Lots(s)} :
                   s \in Structures}

\* The book is what the broker holds, once: a leg is claimed only as far as it
\* goes, every fill is open or closed, no leg backs two positions, and the
\* newest records of a spread are the ones that are open.
BookMatchesBroker ==
  NeverCrossesZero /\ EveryFillIsAccounted /\ OneContractOnePosition /\ NewestFirst
=============================================================================
