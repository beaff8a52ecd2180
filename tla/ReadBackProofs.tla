-------------------------- MODULE ReadBackProofs ---------------------------
(***************************************************************************)
(* Theorems about what one process reads back of what another wrote: the   *)
(* book a session's restart recovers, the journal of a day, the books the  *)
(* research hands off, and the pages the dashboard shows.  Each is its     *)
(* module's own specification's, for any values of that module's constants. *)
(***************************************************************************)
EXTENDS OptionsBook, JournalFile, BookHandOff, Dashboard, SumTheorems

(***************************************************************************)
(* The journal.  read and orphaned_amendments are folds over its lines, of *)
(* which nothing can be shown by induction on the lines; but the lines of  *)
(* a file only ever grow by one at the end, so FileInv says that the folds *)
(* of the lines there are exist, that any such fold ends in an entry that  *)
(* is true of them, and append's step takes that to the file it leaves.    *)
(***************************************************************************)
\* What one more line does to an entry, and to what is told of its orphans.
ReadStep(l, c, e) ==
  IF l.id # c THEN e
  ELSE IF ~l.amendment THEN [written |-> TRUE, fact |-> e.held, held |-> NoFact]
  ELSE IF e.written THEN [e EXCEPT !.fact = l.fact]
  ELSE [e EXCEPT !.held = l.fact]

OrphanStep(l, c, e) ==
  IF l.id # c THEN e
  ELSE IF l.amendment THEN [e EXCEPT !.orphan = @ \/ ~e.seen]
  ELSE [seen |-> TRUE, orphan |-> FALSE]

Unseen == [seen |-> FALSE, orphan |-> FALSE]

\* The folds of read and orphaned_amendments, over the lines ls.
ReadFold(g, ls, c) ==
  g = [n \in 0..Len(ls) |-> IF n = 0 THEN Absent ELSE ReadStep(ls[n], c, g[n - 1])]

OrphanFold(g, ls, c) ==
  g = [n \in 0..Len(ls) |-> IF n = 0 THEN Unseen ELSE OrphanStep(ls[n], c, g[n - 1])]

\* Every line makes the fold one longer.
LEMMA FoldsGrow ==
  ASSUME NEW ls \in Seq(Line \union {Garbled}), NEW l \in Line \union {Garbled}, NEW c, NEW g
  PROVE  /\ ReadFold(g, ls, c) => \E h : ReadFold(h, Append(ls, l), c)
         /\ OrphanFold(g, ls, c) => \E h : OrphanFold(h, Append(ls, l), c)
<1> DEFINE more == Append(ls, l)
           last == Len(ls) + 1
<1>1. Len(ls) \in Nat /\ Len(more) = last /\ more[last] = l /\ \A n \in 1..Len(ls) : more[n] = ls[n]
  OBVIOUS
<1> HIDE DEF more
<1>2. ASSUME ReadFold(g, ls, c)  PROVE \E h : ReadFold(h, more, c)
  <2> DEFINE h == [n \in 0..last |-> IF n = last THEN ReadStep(l, c, g[n - 1]) ELSE g[n]]
             v(n) == IF n = 0 THEN Absent ELSE ReadStep(more[n], c, h[n - 1])
  <2>1. ASSUME NEW n \in 0..last  PROVE h[n] = v(n)
    <3>1. CASE n = last
      <4>1. n # 0 /\ n - 1 \in 0..Len(ls) /\ n - 1 # last
        BY <3>1, <1>1
      <4>2. h[n] = ReadStep(l, c, g[n - 1]) /\ h[n - 1] = g[n - 1]
        BY <3>1, <4>1, <1>1
      <4> QED BY <3>1, <4>1, <4>2, <1>1
    <3>2. CASE n # last
      <4>1. n \in 0..Len(ls) /\ h[n] = g[n] /\ (n # 0 => n - 1 \in 0..Len(ls) /\ n \in 1..Len(ls) /\ h[n - 1] = g[n - 1])
        BY <3>2, <1>1
      <4>2. g[n] = IF n = 0 THEN Absent ELSE ReadStep(ls[n], c, g[n - 1])
        BY <1>2, <4>1 DEF ReadFold
      <4> QED BY <4>1, <4>2, <1>1
    <3> QED BY <3>1, <3>2
  <2>2. h = [n \in 0..Len(more) |-> h[n]]
    BY <1>1
  <2> HIDE DEF h
  <2>3. h = [n \in 0..Len(more) |-> v(n)]
    BY <2>1, <2>2, <1>1
  <2> QED BY <2>3 DEF ReadFold
<1>3. ASSUME OrphanFold(g, ls, c)  PROVE \E h : OrphanFold(h, more, c)
  <2> DEFINE h == [n \in 0..last |-> IF n = last THEN OrphanStep(l, c, g[n - 1]) ELSE g[n]]
             v(n) == IF n = 0 THEN Unseen ELSE OrphanStep(more[n], c, h[n - 1])
  <2>1. ASSUME NEW n \in 0..last  PROVE h[n] = v(n)
    <3>1. CASE n = last
      <4>1. n # 0 /\ n - 1 \in 0..Len(ls) /\ n - 1 # last
        BY <3>1, <1>1
      <4>2. h[n] = OrphanStep(l, c, g[n - 1]) /\ h[n - 1] = g[n - 1]
        BY <3>1, <4>1, <1>1
      <4> QED BY <3>1, <4>1, <4>2, <1>1
    <3>2. CASE n # last
      <4>1. n \in 0..Len(ls) /\ h[n] = g[n] /\ (n # 0 => n - 1 \in 0..Len(ls) /\ n \in 1..Len(ls) /\ h[n - 1] = g[n - 1])
        BY <3>2, <1>1
      <4>2. g[n] = IF n = 0 THEN Unseen ELSE OrphanStep(ls[n], c, g[n - 1])
        BY <1>3, <4>1 DEF OrphanFold
      <4> QED BY <4>1, <4>2, <1>1
    <3> QED BY <3>1, <3>2
  <2>2. h = [n \in 0..Len(more) |-> h[n]]
    BY <1>1
  <2> HIDE DEF h
  <2>3. h = [n \in 0..Len(more) |-> v(n)]
    BY <2>1, <2>2, <1>1
  <2> QED BY <2>3 DEF OrphanFold
<1> QED BY <1>2, <1>3 DEF more

\* And a fold of the longer file is one of the shorter, with one step more.
LEMMA FoldsShrink ==
  ASSUME NEW ls \in Seq(Line \union {Garbled}), NEW l \in Line \union {Garbled}, NEW c, NEW h
  PROVE  /\ ReadFold(h, Append(ls, l), c) =>
              \E g : ReadFold(g, ls, c) /\ h[Len(Append(ls, l))] = ReadStep(l, c, g[Len(ls)])
         /\ OrphanFold(h, Append(ls, l), c) =>
              \E g : OrphanFold(g, ls, c) /\ h[Len(Append(ls, l))] = OrphanStep(l, c, g[Len(ls)])
<1> DEFINE more == Append(ls, l)
           last == Len(ls) + 1
           g == [n \in 0..Len(ls) |-> h[n]]
<1>1. /\ Len(ls) \in Nat /\ Len(more) = last /\ more[last] = l
      /\ \A n \in 1..Len(ls) : more[n] = ls[n] /\ n - 1 \in 0..Len(ls)
      /\ last \in 0..last /\ last # 0 /\ last - 1 = Len(ls)
  OBVIOUS
<1>2. g[Len(ls)] = h[Len(ls)]
  BY <1>1
<1> HIDE DEF more
<1>3. ASSUME ReadFold(h, more, c)
      PROVE  ReadFold(g, ls, c) /\ h[last] = ReadStep(l, c, g[Len(ls)])
  <2>1. \A n \in 0..last : h[n] = IF n = 0 THEN Absent ELSE ReadStep(more[n], c, h[n - 1])
    BY <1>1, <1>3 DEF ReadFold
  <2> DEFINE v(n) == IF n = 0 THEN Absent ELSE ReadStep(ls[n], c, g[n - 1])
  <2>2. ASSUME NEW n \in 0..Len(ls)  PROVE g[n] = v(n)
    <3>1. n \in 0..last /\ g[n] = h[n] /\ (n # 0 => n \in 1..Len(ls) /\ g[n - 1] = h[n - 1])
      BY <1>1
    <3> QED BY <1>1, <2>1, <3>1
  <2> HIDE DEF g
  <2>3. g = [n \in 0..Len(ls) |-> g[n]]
    BY DEF g
  <2>4. g = [n \in 0..Len(ls) |-> v(n)]
    BY <2>2, <2>3
  <2> QED BY <1>1, <1>2, <2>1, <2>4 DEF ReadFold
<1>4. ASSUME OrphanFold(h, more, c)
      PROVE  OrphanFold(g, ls, c) /\ h[last] = OrphanStep(l, c, g[Len(ls)])
  <2>1. \A n \in 0..last : h[n] = IF n = 0 THEN Unseen ELSE OrphanStep(more[n], c, h[n - 1])
    BY <1>1, <1>4 DEF OrphanFold
  <2> DEFINE v(n) == IF n = 0 THEN Unseen ELSE OrphanStep(ls[n], c, g[n - 1])
  <2>2. ASSUME NEW n \in 0..Len(ls)  PROVE g[n] = v(n)
    <3>1. n \in 0..last /\ g[n] = h[n] /\ (n # 0 => n \in 1..Len(ls) /\ g[n - 1] = h[n - 1])
      BY <1>1
    <3> QED BY <1>1, <2>1, <3>1
  <2> HIDE DEF g
  <2>3. g = [n \in 0..Len(ls) |-> g[n]]
    BY DEF g
  <2>4. g = [n \in 0..Len(ls) |-> v(n)]
    BY <2>2, <2>3
  <2> QED BY <1>1, <1>2, <2>1, <2>4 DEF OrphanFold
<1> QED BY <1>1, <1>3, <1>4 DEF more

\* What the two folds come to is what read and orphaned_amendments give.
LEMMA ReadOfIsFold ==
  ASSUME NEW c, \E g : ReadFold(g, lines, c)
  PROVE  \E g : ReadFold(g, lines, c) /\ ReadOf(c) = g[Len(lines)]
<1> DEFINE G == CHOOSE g : g = [n \in 0..Len(lines) |->
             IF n = 0 THEN Absent ELSE ReadStep(lines[n], c, g[n - 1])]
<1>1. G = [n \in 0..Len(lines) |-> IF n = 0 THEN Absent ELSE ReadStep(lines[n], c, G[n - 1])]
  BY DEF ReadFold
<1>2. ReadOf(c) = G[Len(lines)]
  BY DEF ReadOf, ReadStep
<1> QED BY <1>1, <1>2 DEF ReadFold

LEMMA OrphanedIsFold ==
  ASSUME NEW c, \E g : OrphanFold(g, lines, c)
  PROVE  \E g : OrphanFold(g, lines, c) /\ Orphaned(c) = g[Len(lines)].orphan
<1> DEFINE G == CHOOSE g : g = [n \in 0..Len(lines) |->
             IF n = 0 THEN Unseen ELSE OrphanStep(lines[n], c, g[n - 1])]
<1>1. G = [n \in 0..Len(lines) |-> IF n = 0 THEN Unseen ELSE OrphanStep(lines[n], c, G[n - 1])]
  BY DEF OrphanFold
<1>2. Orphaned(c) = G[Len(lines)].orphan
  BY DEF Orphaned, OrphanStep, Unseen
<1> QED BY <1>1, <1>2 DEF OrphanFold

-----------------------------------------------------------------------------
IsLastOf(n, S) == n \in S /\ \A m \in S : m <= n

FileTypes ==
  /\ lines \in Seq(Line \union {Garbled}) /\ wrote \in Seq(Line) /\ Len(wrote) = Len(lines)
  /\ torn \in BOOLEAN /\ deaths \subseteq Nat

FoldsAreThere ==
  \A c \in CycleIds : (\E g : ReadFold(g, lines, c)) /\ (\E g : OrphanFold(g, lines, c))

LastExists ==
  \A c \in CycleIds : AmendmentLines(c) # {} => \E n \in AmendmentLines(c) : IsLastOf(n, AmendmentLines(c))

\* An entry read so far: what it says once its record came, or holds until then,
\* is the last amendment.
EntryIsTrue(e, c) ==
  LET told == IF AmendmentLines(c) = {} THEN NoFact ELSE lines[LastOf(AmendmentLines(c))].fact
  IN  /\ e \in [written : BOOLEAN, fact : Facts \union {NoFact}, held : Facts \union {NoFact}]
      /\ e.written <=> RecordLines(c) # {}
      /\ RecordLines(c) = {} => e.held = told
      /\ RecordLines(c) # {} /\ (\A m, n \in RecordLines(c) : m = n) => e.fact = told

OrphanIsTrue(o, c) ==
  /\ o \in [seen : BOOLEAN, orphan : BOOLEAN]
  /\ o.seen <=> RecordLines(c) # {}
  /\ o.orphan <=> AmendmentLines(c) # {} /\ RecordLines(c) = {}

FoldsAreTrue ==
  \A c \in CycleIds :
    /\ \A g : ReadFold(g, lines, c) => EntryIsTrue(g[Len(lines)], c)
    /\ \A g : OrphanFold(g, lines, c) => OrphanIsTrue(g[Len(lines)], c)

\* A piece of a line was left by a death after the last whole one.
PiecesAreOfDeaths == OnlyTheNextIsGarbled /\ (torn => Len(lines) \in deaths)

FileInv == FileTypes /\ FoldsAreThere /\ LastExists /\ FoldsAreTrue /\ PiecesAreOfDeaths

LEMMA LineParts ==
  ASSUME NEW l \in Line \union {Garbled}
  PROVE  l.amendment \in BOOLEAN /\ l.fact \in Facts \union {NoFact}
<1>1. CASE l \in [amendment : {FALSE}, id : CycleIds, fact : {NoFact}]
  BY <1>1
<1>2. CASE l \in [amendment : {TRUE}, id : CycleIds, fact : Facts]
  BY <1>2
<1>3. CASE l = Garbled
  BY <1>3 DEF Garbled
<1> QED BY <1>1, <1>2, <1>3 DEF Line

LEMMA FileStarts == FileInit => FileInv
<1> SUFFICES ASSUME FileInit PROVE FileInv
  OBVIOUS
<1>1. lines = <<>> /\ wrote = <<>> /\ torn = FALSE /\ deaths = {} /\ Len(lines) = 0 /\ Len(wrote) = 0
  BY DEF FileInit
<1>2. FileTypes
  <2>1. lines \in Seq(Line \union {Garbled}) /\ wrote \in Seq(Line)
    BY <1>1
  <2> QED BY <1>1, <2>1 DEF FileTypes
<1>3. \A c \in CycleIds : RecordLines(c) = {} /\ AmendmentLines(c) = {}
  BY <1>1 DEF RecordLines, AmendmentLines
<1>4. ASSUME NEW c \in CycleIds
      PROVE  (\E g : ReadFold(g, lines, c)) /\ (\E g : OrphanFold(g, lines, c))
  <2>1. 0..Len(lines) = {0}
    BY <1>1
  <2>2. ReadFold([n \in {0} |-> Absent], lines, c)
    BY <2>1 DEF ReadFold
  <2>3. OrphanFold([n \in {0} |-> Unseen], lines, c)
    BY <2>1 DEF OrphanFold
  <2> QED BY <2>2, <2>3
<1>5. ASSUME NEW c \in CycleIds, NEW g, ReadFold(g, lines, c)  PROVE EntryIsTrue(g[Len(lines)], c)
  <2>1. g[Len(lines)] = Absent
    BY <1>1, <1>5 DEF ReadFold
  <2> QED BY <1>3, <2>1 DEF EntryIsTrue, Absent
<1>6. ASSUME NEW c \in CycleIds, NEW g, OrphanFold(g, lines, c)  PROVE OrphanIsTrue(g[Len(lines)], c)
  <2>1. g[Len(lines)] = Unseen
    BY <1>1, <1>6 DEF OrphanFold
  <2> QED BY <1>3, <2>1 DEF OrphanIsTrue, Unseen
<1>7. PiecesAreOfDeaths
  BY <1>1 DEF PiecesAreOfDeaths, OnlyTheNextIsGarbled
<1> QED BY <1>2, <1>3, <1>4, <1>5, <1>6, <1>7 DEF FileInv, FoldsAreThere, LastExists, FoldsAreTrue

\* One line more is the last of its kind.
LEMMA LineIsLast ==
  ASSUME FileTypes, LastExists, NEW l \in Line \union {Garbled}, lines' = Append(lines, l), NEW c \in CycleIds
  PROVE  LET new == Len(lines) + 1 IN
         /\ RecordLines(c)' = RecordLines(c) \union IF l.id = c /\ ~l.amendment THEN {new} ELSE {}
         /\ AmendmentLines(c)' = AmendmentLines(c) \union IF l.id = c /\ l.amendment THEN {new} ELSE {}
         /\ AmendmentLines(c) \subseteq 1..Len(lines) /\ RecordLines(c) \subseteq 1..Len(lines)
         /\ AmendmentLines(c)' # {} =>
              /\ IsLastOf(LastOf(AmendmentLines(c))', AmendmentLines(c)')
              /\ IF l.id = c /\ l.amendment
                 THEN lines'[LastOf(AmendmentLines(c))'] = l
                 ELSE lines'[LastOf(AmendmentLines(c))'] = lines[LastOf(AmendmentLines(c))]
<1> DEFINE new == Len(lines) + 1
           A == AmendmentLines(c)
           B == AmendmentLines(c)'
<1>1. /\ Len(lines) \in Nat /\ Len(lines') = new /\ lines'[new] = l /\ new \in 1..new
      /\ \A n \in 1..Len(lines) : lines'[n] = lines[n]
      /\ 1..new = 1..Len(lines) \union {new}
  BY DEF FileTypes
<1>2. RecordLines(c)' = RecordLines(c) \union IF l.id = c /\ ~l.amendment THEN {new} ELSE {}
  BY <1>1 DEF RecordLines
<1>3. B = A \union IF l.id = c /\ l.amendment THEN {new} ELSE {}
  BY <1>1 DEF AmendmentLines
<1>4. A \subseteq 1..Len(lines) /\ RecordLines(c) \subseteq 1..Len(lines)
  BY DEF AmendmentLines, RecordLines
<1>5. A # {} => \E n \in A : IsLastOf(n, A)
  BY DEF LastExists
<1>6. LastOf(AmendmentLines(c))' = LastOf(B)
  BY DEF LastOf
<1> HIDE DEF A, B
<1>7. A # {} => IsLastOf(LastOf(A), A)
  BY <1>5 DEF IsLastOf, LastOf
<1>8. CASE l.id = c /\ l.amendment
  <2>0. B = A \union {new} /\ \A m \in A : m \in Nat /\ m < new
    BY <1>1, <1>3, <1>4, <1>8
  <2>1. IsLastOf(new, B)
    BY <1>1, <2>0 DEF IsLastOf
  <2>2. IsLastOf(LastOf(B), B)
    BY <2>1 DEF IsLastOf, LastOf
  <2>3. LastOf(B) = new
    <3>1. LastOf(B) \in B /\ new \in B /\ new <= LastOf(B)
      BY <2>1, <2>2 DEF IsLastOf
    <3>2. CASE LastOf(B) \in A
      BY <1>1, <2>0, <3>1, <3>2
    <3> QED BY <2>0, <3>1, <3>2
  <2> QED BY <1>1, <1>2, <1>3, <1>4, <1>6, <1>8, <2>2, <2>3 DEF A, B
<1>9. CASE ~(l.id = c /\ l.amendment)
  <2>1. B = A
    BY <1>3, <1>9
  <2>2. A # {} => LastOf(A) \in 1..Len(lines)
    BY <1>4, <1>7 DEF IsLastOf
  <2> QED BY <1>1, <1>2, <1>3, <1>4, <1>6, <1>7, <1>9, <2>1, <2>2 DEF A, B
<1> QED BY <1>8, <1>9

LEMMA EntryGrows ==
  ASSUME FileTypes, LastExists, NEW l \in Line \union {Garbled}, lines' = Append(lines, l), NEW c \in CycleIds,
         NEW e, EntryIsTrue(e, c)
  PROVE  EntryIsTrue(ReadStep(l, c, e), c)'
<1> DEFINE new == Len(lines) + 1
           A == AmendmentLines(c)
           R == RecordLines(c)
           told == IF A = {} THEN NoFact ELSE lines[LastOf(A)].fact
           later == IF AmendmentLines(c)' = {} THEN NoFact ELSE lines'[LastOf(AmendmentLines(c))'].fact
           f == ReadStep(l, c, e)
<1>1. /\ R' = R \union IF l.id = c /\ ~l.amendment THEN {new} ELSE {}
      /\ A' = A \union IF l.id = c /\ l.amendment THEN {new} ELSE {}
      /\ A \subseteq 1..Len(lines) /\ R \subseteq 1..Len(lines)
      /\ A' # {} => IF l.id = c /\ l.amendment
                    THEN lines'[LastOf(AmendmentLines(c))'] = l
                    ELSE lines'[LastOf(AmendmentLines(c))'] = lines[LastOf(A)]
  BY LineIsLast
<1>2. /\ e \in [written : BOOLEAN, fact : Facts \union {NoFact}, held : Facts \union {NoFact}]
      /\ e.written <=> R # {}
      /\ R = {} => e.held = told
      /\ R # {} /\ (\A m, n \in R : m = n) => e.fact = told
  BY DEF EntryIsTrue
<1>3. later = IF l.id = c /\ l.amendment THEN l.fact ELSE told
  BY <1>1
<1>4. l.fact \in Facts \union {NoFact} /\ l.amendment \in BOOLEAN
  BY LineParts
<1>5. new \notin R
  BY <1>1 DEF FileTypes
<1> HIDE DEF R, told, later, new, A
<1>6. /\ f \in [written : BOOLEAN, fact : Facts \union {NoFact}, held : Facts \union {NoFact}]
      /\ f.written <=> R' # {}
      /\ R' = {} => f.held = later
      /\ R' # {} /\ (\A m, n \in R' : m = n) => f.fact = later
  <2>1. CASE l.id # c
    BY <2>1, <1>1, <1>2, <1>3 DEF ReadStep
  <2>2. CASE l.id = c /\ ~l.amendment
    <3>1. f = [written |-> TRUE, fact |-> e.held, held |-> NoFact]
      BY <2>2 DEF ReadStep
    <3>2. R' = R \union {new} /\ later = told
      BY <2>2, <1>1, <1>3
    <3>3. (\A m, n \in R' : m = n) => R = {}
      BY <3>2, <1>5
    <3> QED BY <3>1, <3>2, <3>3, <1>2
  <2>3. CASE l.id = c /\ l.amendment
    <3>1. f = IF e.written THEN [e EXCEPT !.fact = l.fact] ELSE [e EXCEPT !.held = l.fact]
      BY <2>3 DEF ReadStep
    <3>2. R' = R /\ later = l.fact
      BY <2>3, <1>1, <1>3
    <3> QED BY <3>1, <3>2, <1>2, <1>4
  <2> QED BY <2>1, <2>2, <2>3, <1>4
<1> QED BY <1>6 DEF EntryIsTrue, R, later, A

LEMMA OrphanGrows ==
  ASSUME FileTypes, LastExists, NEW l \in Line \union {Garbled}, lines' = Append(lines, l), NEW c \in CycleIds,
         NEW o, OrphanIsTrue(o, c)
  PROVE  OrphanIsTrue(OrphanStep(l, c, o), c)'
<1> DEFINE new == Len(lines) + 1
           A == AmendmentLines(c)
           R == RecordLines(c)
<1>1. /\ R' = R \union IF l.id = c /\ ~l.amendment THEN {new} ELSE {}
      /\ A' = A \union IF l.id = c /\ l.amendment THEN {new} ELSE {}
  BY LineIsLast
<1>2. l.amendment \in BOOLEAN
  BY LineParts
<1>3. /\ o \in [seen : BOOLEAN, orphan : BOOLEAN]
      /\ o.seen <=> R # {}
      /\ o.orphan <=> A # {} /\ R = {}
  BY DEF OrphanIsTrue
<1> HIDE DEF R, A, new
<1>4. CASE l.id # c
  BY <1>1, <1>3, <1>4 DEF OrphanStep, OrphanIsTrue, R, A
<1>5. CASE l.id = c /\ ~l.amendment
  <2>1. OrphanStep(l, c, o) = [seen |-> TRUE, orphan |-> FALSE] /\ R' # {}
    BY <1>1, <1>5 DEF OrphanStep
  <2> QED BY <2>1 DEF OrphanIsTrue, R, A
<1>6. CASE l.id = c /\ l.amendment
  <2>1. OrphanStep(l, c, o) = [seen |-> o.seen, orphan |-> o.orphan \/ ~o.seen] /\ R' = R /\ A' # {}
    BY <1>1, <1>3, <1>6 DEF OrphanStep
  <2>2. (o.orphan \/ ~o.seen) <=> R = {}
    BY <1>3
  <2>3. o.seen \in BOOLEAN /\ (o.orphan \/ ~o.seen) \in BOOLEAN
    BY <1>3
  <2> DEFINE later == OrphanStep(l, c, o)
  <2>4. later \in [seen : BOOLEAN, orphan : BOOLEAN] /\ later.seen = o.seen /\ later.orphan = (o.orphan \/ ~o.seen)
    BY <2>1, <2>3
  <2>5. (later.seen <=> R' # {}) /\ (later.orphan <=> A' # {} /\ R' = {})
    BY <2>1, <2>2, <2>4, <1>3
  <2> QED BY <2>4, <2>5 DEF OrphanIsTrue, R, A
<1> QED BY <1>2, <1>4, <1>5, <1>6

LEMMA FileStep == FileInv /\ [FileNext]_fvars => FileInv'
<1> SUFFICES ASSUME FileInv, [FileNext]_fvars PROVE FileInv'
  OBVIOUS
<1> USE DEF FileInv
<1>1. ASSUME NEW w \in Line, AppendLine(w)  PROVE FileInv'
  <2> DEFINE l == IF torn THEN Garbled ELSE w
  <2>1. l \in Line \union {Garbled} /\ lines' = Append(lines, l) /\ wrote' = Append(wrote, w)
    BY <1>1 DEF AppendLine, FileTypes
  <2>2. FileTypes'
    <3>1. lines' \in Seq(Line \union {Garbled}) /\ Len(lines') = Len(lines) + 1
      BY <2>1 DEF FileTypes
    <3>2. wrote' \in Seq(Line) /\ Len(wrote') = Len(wrote) + 1
      BY <2>1 DEF FileTypes
    <3> QED BY <1>1, <3>1, <3>2 DEF AppendLine, FileTypes
  <2> HIDE DEF l
  <2>3. FoldsAreThere'
    <3> SUFFICES ASSUME NEW c \in CycleIds
                 PROVE (\E g : ReadFold(g, lines', c)) /\ (\E g : OrphanFold(g, lines', c))
      BY DEF FoldsAreThere, ReadFold, OrphanFold, ReadStep, OrphanStep, Absent, Unseen
    <3> QED BY <2>1, FoldsGrow DEF FoldsAreThere, FileTypes
  <2>4. LastExists'
    BY <2>1, LineIsLast DEF LastExists, IsLastOf
  <2>5. ASSUME NEW c \in CycleIds, NEW h, ReadFold(h, lines', c)  PROVE EntryIsTrue(h[Len(lines)], c)'
    <3>1. PICK g : ReadFold(g, lines, c) /\ h[Len(lines')] = ReadStep(l, c, g[Len(lines)])
      BY <2>1, <2>5, FoldsShrink DEF FileTypes
    <3>2. EntryIsTrue(g[Len(lines)], c)
      BY <3>1 DEF FoldsAreTrue
    <3> QED BY <2>1, <3>1, <3>2, EntryGrows
  <2>6. ASSUME NEW c \in CycleIds, NEW h, OrphanFold(h, lines', c)  PROVE OrphanIsTrue(h[Len(lines)], c)'
    <3>1. PICK g : OrphanFold(g, lines, c) /\ h[Len(lines')] = OrphanStep(l, c, g[Len(lines)])
      BY <2>1, <2>6, FoldsShrink DEF FileTypes
    <3>2. OrphanIsTrue(g[Len(lines)], c)
      BY <3>1 DEF FoldsAreTrue
    <3> QED BY <2>1, <3>1, <3>2, OrphanGrows
  <2>7. FoldsAreTrue'
    BY <2>5, <2>6 DEF FoldsAreTrue, ReadFold, OrphanFold, ReadStep, OrphanStep, Absent, Unseen
  <2>8. PiecesAreOfDeaths'
    <3> DEFINE new == Len(lines) + 1
    <3>1. /\ Len(lines) \in Nat /\ Len(wrote) = Len(lines) /\ Len(wrote') = new /\ Len(lines') = new
          /\ wrote'[new] = w /\ lines'[new] = l /\ 1..new = 1..Len(lines) \union {new}
          /\ \A n \in 1..Len(lines) : lines'[n] = lines[n] /\ wrote'[n] = wrote[n]
      BY <2>1 DEF FileTypes
    <3>2. l # w => new - 1 \in deaths
      BY <3>1 DEF l, PiecesAreOfDeaths
    <3>3. torn' = FALSE /\ deaths' = deaths
      BY <1>1 DEF AppendLine
    <3> QED BY <3>1, <3>2, <3>3 DEF PiecesAreOfDeaths, OnlyTheNextIsGarbled
  <2> QED BY <2>2, <2>3, <2>4, <2>7, <2>8
<1>2. ASSUME UNCHANGED <<lines, wrote>>,
             \/ torn' = torn /\ deaths' = deaths
             \/ torn' = TRUE /\ deaths' = deaths \union {Len(lines)}
      PROVE  FileInv'
  <2>1. lines' = lines /\ wrote' = wrote /\ torn' \in BOOLEAN /\ deaths' \subseteq Nat
    <3>1. torn \in BOOLEAN /\ deaths \subseteq Nat /\ Len(lines) \in Nat
      BY DEF FileTypes
    <3> QED BY <1>2, <3>1
  <2>2. FileTypes'
    BY <2>1 DEF FileTypes
  <2>3. PiecesAreOfDeaths'
    BY <1>2 DEF PiecesAreOfDeaths, OnlyTheNextIsGarbled
  <2>4. ASSUME NEW c  PROVE RecordLines(c)' = RecordLines(c) /\ AmendmentLines(c)' = AmendmentLines(c)
    BY <2>1 DEF RecordLines, AmendmentLines
  <2>5. FoldsAreThere'
    <3> SUFFICES ASSUME NEW c \in CycleIds
                 PROVE (\E g : ReadFold(g, lines', c)) /\ (\E g : OrphanFold(g, lines', c))
      BY DEF FoldsAreThere, ReadFold, OrphanFold, ReadStep, OrphanStep, Absent, Unseen
    <3> QED BY <2>1 DEF FoldsAreThere
  <2>6. LastExists'
    BY <2>4 DEF LastExists, IsLastOf
  <2>7. ASSUME NEW c \in CycleIds, NEW g, ReadFold(g, lines, c)  PROVE EntryIsTrue(g[Len(lines)], c)'
    <3>1. EntryIsTrue(g[Len(lines)], c)
      BY <2>7 DEF FoldsAreTrue
    <3> QED BY <3>1, <2>1, <2>4 DEF EntryIsTrue, LastOf
  <2>8. ASSUME NEW c \in CycleIds, NEW g, OrphanFold(g, lines, c)  PROVE OrphanIsTrue(g[Len(lines)], c)'
    <3>1. OrphanIsTrue(g[Len(lines)], c)
      BY <2>8 DEF FoldsAreTrue
    <3> QED BY <3>1, <2>1, <2>4 DEF OrphanIsTrue
  <2>9. FoldsAreTrue'
    BY <2>1, <2>7, <2>8 DEF FoldsAreTrue, ReadFold, OrphanFold, ReadStep, OrphanStep, Absent, Unseen
  <2> QED BY <2>2, <2>3, <2>5, <2>6, <2>9
<1>3. ASSUME Dies \/ UNCHANGED fvars  PROVE FileInv'
  <2>1. UNCHANGED <<lines, wrote>>
    BY <1>3 DEF Dies, fvars
  <2>2. \/ torn' = torn /\ deaths' = deaths
        \/ torn' = TRUE /\ deaths' = deaths \union {Len(lines)}
    BY <1>3 DEF Dies, fvars
  <2> QED BY <1>2, <2>1, <2>2
<1> QED BY <1>1, <1>3 DEF FileNext

(***************************************************************************)
(* Whatever the order of a day's lines and however often the process died  *)
(* inside one, no fact of a cycle recorded once is lost and no overtaken   *)
(* one is told, every amendment without a record is reported, and all that *)
(* append returned for is there but for the first line after a death.      *)
(***************************************************************************)
THEOREM JournalIsKept == FileSpec => []JournalSurvives
<1>1. FileInit => FileInv
  BY FileStarts
<1>2. FileInv /\ [FileNext]_fvars => FileInv'
  BY FileStep
<1>3. FileInv => JournalSurvives
  <2> SUFFICES ASSUME FileInv PROVE JournalSurvives
    OBVIOUS
  <2>1. ASSUME NEW c \in CycleIds  PROVE EntryIsTrue(ReadOf(c), c)
    BY ReadOfIsFold DEF FileInv, FoldsAreThere, FoldsAreTrue
  <2>2. ASSUME NEW c \in CycleIds
        PROVE  Orphaned(c) <=> AmendmentLines(c) # {} /\ RecordLines(c) = {}
    BY OrphanedIsFold DEF FileInv, FoldsAreThere, FoldsAreTrue, OrphanIsTrue
  <2>3. NoFactIsLost
    BY <2>1, <2>2 DEF NoFactIsLost, LastFactWins, NothingIsSilentlyDropped, EntryIsTrue
  <2> QED BY <2>3 DEF JournalSurvives, FileInv, PiecesAreOfDeaths
<1> QED BY <1>1, <1>2, <1>3, PTL DEF FileSpec

-----------------------------------------------------------------------------
(***************************************************************************)
(* The book, for any journal and any holding. TypeOK is inductive, and so  *)
(* are the first two properties once types are known.                      *)
(* ClaimInv is of the walk through the records: what was taken of a leg is *)
(* no more than the records held want of it, and just that where each      *)
(* wants one lot. NewestInv says of every structure met so far which of    *)
(* its records are open -- the newest, as many as there are lots -- and    *)
(* what that leaves of its legs, which is why the next one met may or may  *)
(* not be.                                                                 *)
(***************************************************************************)
USE BookAssumption

LEMMA RecordParts ==
  ASSUME NEW r \in Records
  PROVE  /\ r.quantity \in Nat /\ r.structure \in Structures
         /\ Named(r) \subseteq Contracts
         /\ \A c : Wanted(r, c) \in Int
<1>1. r.quantity \in Nat /\ r.structure \in Structures
  BY DEF Records
<1> QED BY <1>1 DEF Named, Wanted

LEMMA ClaimingType ==
  ASSUME NEW have \in Int, NEW wanted \in Int
  PROVE  AfterClaiming(have, wanted) \in Int
BY DEF AfterClaiming

\* A share taken from a holding on its own side leaves a part of the holding.
LEMMA ClaimingShrinks ==
  ASSUME NEW have \in Int, NEW wanted \in Int, NEW whole \in Int,
         SameSide(have, wanted), Between(have, whole)
  PROVE  Between(AfterClaiming(have, wanted), whole)
BY DEF AfterClaiming, Abs, SameSide, Between

BookInv == PositionsTypeOK /\ NeverCrossesZero /\ EveryFillIsAccounted

LEMMA BookInit == PositionsInit => BookInv
<1> SUFFICES ASSUME PositionsInit PROVE BookInv
  OBVIOUS
<1>1. PICK n \in 0..MaxRecords : records \in [1..n -> Records]
  BY DEF PositionsInit
<1>2. Len(records) = n /\ records \in Seq(Records)
  BY <1>1
<1>3. PositionsTypeOK
  BY <1>1, <1>2 DEF PositionsInit, PositionsTypeOK
<1>4. NeverCrossesZero
  BY DEF PositionsInit, NeverCrossesZero, Between
<1>5. EveryFillIsAccounted
  BY <1>2 DEF PositionsInit, EveryFillIsAccounted
<1> QED BY <1>3, <1>4, <1>5 DEF BookInv

LEMMA BookStep == BookInv /\ [PositionsNext]_bvars => BookInv'
<1> SUFFICES ASSUME BookInv, [PositionsNext]_bvars PROVE BookInv'
  OBVIOUS
<1> USE DEF BookInv
<1> DEFINE n == Len(records)
           r == records[next]
<1>1. ASSUME Look
      PROVE  /\ next \in 1..n /\ r \in Records /\ next' = next - 1
             /\ next' \in 0..n /\ records' = records /\ legs' = legs
             /\ (next' + 1)..n = {next} \union ((next + 1)..n)
  <2>1. next \in 1..n /\ n \in Nat
    BY <1>1 DEF Look, PositionsTypeOK
  <2>2. (next - 1 + 1)..n = {next} \union ((next + 1)..n)
    BY <2>1
  <2> QED BY <1>1, <2>1, <2>2 DEF Look, PositionsTypeOK
<1>2. CASE Skip
  <2>1. PositionsTypeOK' /\ NeverCrossesZero'
    BY <1>1, <1>2 DEF Skip, PositionsTypeOK, NeverCrossesZero
  <2>2. EveryFillIsAccounted'
    BY <1>1, <1>2 DEF Skip, EveryFillIsAccounted
  <2> QED BY <2>1, <2>2
<1>3. CASE Gone
  <2>1. PositionsTypeOK' /\ NeverCrossesZero'
    BY <1>1, <1>3 DEF Gone, PositionsTypeOK, NeverCrossesZero
  <2>2. EveryFillIsAccounted'
    BY <1>1, <1>3 DEF Gone, EveryFillIsAccounted
  <2> QED BY <2>1, <2>2
<1>4. CASE Claim
  <2>1. /\ Look /\ r.filled /\ AllPresent(r) /\ held' = held \union {next} /\ closed' = closed
        /\ remaining' = [c \in Contracts |->
                            IF c \in Named(r) THEN AfterClaiming(remaining[c], Wanted(r, c))
                                              ELSE remaining[c]]
    BY <1>4 DEF Claim
  <2>2. r \in Records /\ \A c : Wanted(r, c) \in Int
    BY <1>1, <2>1, RecordParts
  <2>3. remaining' \in [Contracts -> Int]
    BY <2>1, <2>2, ClaimingType DEF PositionsTypeOK
  <2>4. PositionsTypeOK'
    BY <1>1, <2>1, <2>3 DEF PositionsTypeOK
  <2>5. ASSUME NEW c \in Contracts PROVE Between(remaining'[c], legs'[c])
    <3>1. remaining[c] \in Int /\ legs[c] \in Int /\ Between(remaining[c], legs[c]) /\ legs' = legs
      BY <1>1, <2>1 DEF PositionsTypeOK, NeverCrossesZero
    <3>2. CASE c \in Named(r)
      BY <2>1, <2>2, <3>1, <3>2, ClaimingShrinks DEF AllPresent
    <3>3. CASE c \notin Named(r)
      BY <2>1, <3>1, <3>3
    <3> QED BY <3>2, <3>3
  <2>6. EveryFillIsAccounted'
    BY <1>1, <2>1 DEF EveryFillIsAccounted
  <2> QED BY <2>4, <2>5, <2>6 DEF NeverCrossesZero
<1>5. CASE UNCHANGED bvars
  BY <1>5 DEF bvars, PositionsTypeOK, NeverCrossesZero, EveryFillIsAccounted
<1> QED BY <1>2, <1>3, <1>4, <1>5 DEF PositionsNext, AllRead

\* Claiming never turns a holding around, whatever the journal wants of it.
THEOREM BookNeverCrossesZero == PositionsSpec => []NeverCrossesZero
<1>1. BookInv => NeverCrossesZero
  BY DEF BookInv
<1> QED BY <1>1, BookInit, BookStep, PTL DEF PositionsSpec

\* Every fill ends up held or reported closed.
THEOREM BookAccountsForFills == PositionsSpec => []EveryFillIsAccounted
<1>1. BookInv => EveryFillIsAccounted
  BY DEF BookInv
<1> QED BY <1>1, BookInit, BookStep, PTL DEF PositionsSpec

-----------------------------------------------------------------------------
(***************************************************************************)
(* One contract, one position.  Of a leg no more is taken than the records *)
(* held want, side by side; a record that wants one lot takes one.         *)
(***************************************************************************)
ClaimsCover(c) ==
  /\ legs[c] >= 0 => Claimed(c) >= legs[c] - remaining[c]
  /\ legs[c] <= 0 => Claimed(c) <= legs[c] - remaining[c]

OneLot == \A i \in held : records[i].quantity = 1

ClaimInv ==
  \A c \in Contracts : ClaimsCover(c) /\ (OneLot => Claimed(c) = legs[c] - remaining[c])

LEMMA HeldIsFinite ==
  ASSUME BookInv, NEW S, S \subseteq 1..Len(records)
  PROVE  IsFiniteSet(S) /\ Cardinality(S) \in Nat
<1>1. Len(records) \in Nat
  BY DEF BookInv, PositionsTypeOK
<1>2. IsFiniteSet(1..Len(records))
  BY <1>1, FS_Interval
<1> QED BY <1>2, FS_Subset, FS_CardinalityType

LEMMA ClaimedIsInteger ==
  ASSUME BookInv, NEW c
  PROVE  Claimed(c) \in Int
<1> DEFINE S == Claims(c)
           f == [i \in S |-> Wanted(records[i], c)]
<1>1. S \subseteq 1..Len(records)
  BY DEF Claims, BookInv, PositionsTypeOK
<1>2. IsFiniteSet(S)
  BY <1>1, HeldIsFinite
<1>3. \A i \in S : f[i] \in Int
  <2> SUFFICES ASSUME NEW i \in S  PROVE f[i] \in Int
    OBVIOUS
  <2>1. records[i] \in Records
    BY <1>1 DEF BookInv, PositionsTypeOK
  <2> QED BY <2>1, RecordParts
<1> HIDE DEF f, S
<1>4. SumFunctionOnSet(f, S) \in Int
  BY <1>2, <1>3, SumIsInteger
<1> QED BY <1>4 DEF Claimed, f, S

\* What a claim adds to what is wanted of a contract.
LEMMA ClaimAdds ==
  ASSUME BookInv, Claim, NEW c
  PROVE  Claimed(c)' = IF c \in Named(records[next]) THEN Claimed(c) + Wanted(records[next], c)
                                                      ELSE Claimed(c)
<1> DEFINE S == Claims(c)
           f == [i \in S |-> Wanted(records[i], c)]
           T == S \union {next}
           g == [i \in T |-> Wanted(records[i], c)]
<1>1. /\ held' = held \union {next} /\ records' = records /\ records[next].filled
      /\ next \in 1..Len(records)
  BY DEF Claim, Look, BookInv, PositionsTypeOK
<1>2. next \notin held /\ held \subseteq 1..Len(records)
  <2>1. held \subseteq (next + 1)..Len(records)
    BY DEF BookInv, EveryFillIsAccounted
  <2>2. next \in Int /\ Len(records) \in Int
    BY DEF BookInv, PositionsTypeOK
  <2> QED BY <2>1, <2>2 DEF BookInv, PositionsTypeOK
<1>3. CASE c \notin Named(records[next])
  <2>1. Claims(c)' = Claims(c)
    BY <1>1, <1>3 DEF Claims, Named
  <2> QED BY <1>1, <1>3, <2>1 DEF Claimed, Wanted
<1>4. CASE c \in Named(records[next])
  <2>1. Claims(c)' = T
    BY <1>1, <1>4 DEF Claims, Named
  <2>2. Claimed(c)' = SumFunctionOnSet(g, T)
    BY <1>1, <2>1 DEF Claimed, Wanted
  <2>3. Claimed(c) = SumFunctionOnSet(f, S)
    BY DEF Claimed
  <2>4. IsFiniteSet(S) /\ next \notin S
    BY <1>2, HeldIsFinite DEF Claims
  <2>5. T \subseteq 1..Len(records)
    BY <1>1, <1>2 DEF Claims
  <2>6. \A i \in T : g[i] \in Int
    <3> SUFFICES ASSUME NEW i \in T  PROVE g[i] \in Int
      OBVIOUS
    <3>1. records[i] \in Records
      BY <2>5 DEF BookInv, PositionsTypeOK
    <3> QED BY <3>1, RecordParts
  <2>7. \A i \in S : g[i] = f[i]
    OBVIOUS
  <2>8. g[next] = Wanted(records[next], c)
    OBVIOUS
  <2>9. T = S \union {next}
    OBVIOUS
  <2> HIDE DEF f, g, S, T
  <2>10. SumFunctionOnSet(g, T) = SumFunctionOnSet(g, S) + g[next]
    BY <2>4, <2>6, <2>9, SumOfOneMore
  <2>11. SumFunctionOnSet(g, S) = SumFunctionOnSet(f, S)
    BY <2>4, <2>6, <2>7, <2>9, SumIsOfValues
  <2> QED BY <1>4, <2>2, <2>3, <2>8, <2>10, <2>11
<1> QED BY <1>3, <1>4

\* A share covers what it takes, and one lot takes one.
LEMMA ShareCovers ==
  ASSUME NEW have \in Int, NEW wanted \in Int, NEW whole \in Int, NEW sum \in Int,
         SameSide(have, wanted), Between(have, whole)
  PROVE  /\ (whole >= 0 => sum >= whole - have) =>
              (whole >= 0 => sum + wanted >= whole - AfterClaiming(have, wanted))
         /\ (whole <= 0 => sum <= whole - have) =>
              (whole <= 0 => sum + wanted <= whole - AfterClaiming(have, wanted))
         /\ wanted \in {1, -1} /\ sum = whole - have =>
              sum + wanted = whole - AfterClaiming(have, wanted)
BY DEF AfterClaiming, Abs, SameSide, Between

LEMMA ClaimIsKept ==
  ASSUME BookInv, ClaimInv, [PositionsNext]_bvars
  PROVE  ClaimInv'
<1>1. CASE Skip \/ Gone \/ UNCHANGED bvars
  BY <1>1 DEF Skip, Gone, Look, bvars, ClaimInv, ClaimsCover, OneLot, Claimed, Claims, Named, Wanted
<1>2. CASE Claim
  <2> DEFINE r == records[next]
  <2>1. /\ AllPresent(r) /\ held' = held \union {next} /\ UNCHANGED <<records, legs>>
        /\ remaining' = [c \in Contracts |->
                            IF c \in Named(r) THEN AfterClaiming(remaining[c], Wanted(r, c))
                                              ELSE remaining[c]]
        /\ next \in 1..Len(records)
    BY <1>2 DEF Claim, Look, BookInv, PositionsTypeOK
  <2>2. r \in Records
    BY <2>1 DEF BookInv, PositionsTypeOK
  <2> SUFFICES ASSUME NEW c \in Contracts
               PROVE  (ClaimsCover(c) /\ (OneLot => Claimed(c) = legs[c] - remaining[c]))'
    BY <2>1 DEF ClaimInv
  <2>3. /\ remaining[c] \in Int /\ legs[c] \in Int /\ Claimed(c) \in Int
        /\ Between(remaining[c], legs[c])
    BY ClaimedIsInteger DEF BookInv, PositionsTypeOK, NeverCrossesZero
  <2>4. ClaimsCover(c) /\ (OneLot => Claimed(c) = legs[c] - remaining[c])
    BY DEF ClaimInv
  <2>5. OneLot' => OneLot /\ r.quantity = 1
    BY <2>1 DEF OneLot
  <2>6. CASE c \notin Named(r)
    <3>1. remaining'[c] = remaining[c] /\ Claimed(c)' = Claimed(c) /\ legs' = legs
      BY <1>2, <2>1, <2>6, ClaimAdds
    <3> QED BY <2>4, <2>5, <3>1 DEF ClaimsCover
  <2>7. CASE c \in Named(r)
    <3> DEFINE w == Wanted(r, c)
    <3>1. /\ remaining'[c] = AfterClaiming(remaining[c], w) /\ Claimed(c)' = Claimed(c) + w
          /\ legs' = legs
      BY <1>2, <2>1, <2>7, ClaimAdds
    <3>2. w \in Int /\ SameSide(remaining[c], w)
      BY <2>1, <2>2, <2>7, RecordParts DEF AllPresent
    <3>3. r.quantity = 1 => w \in {1, -1}
      BY DEF Wanted
    <3> HIDE DEF w, r
    <3> QED BY <2>3, <2>4, <2>5, <3>1, <3>2, <3>3, ShareCovers DEF ClaimsCover
  <2> QED BY <2>6, <2>7
<1> QED BY <1>1, <1>2 DEF PositionsNext, AllRead

LEMMA ClaimInit == PositionsInit => ClaimInv
<1> SUFFICES ASSUME PositionsInit, NEW c \in Contracts
             PROVE  ClaimsCover(c) /\ Claimed(c) = legs[c] - remaining[c]
  BY DEF ClaimInv
<1>1. Claims(c) = {}
  BY DEF PositionsInit, Claims
<1>2. Claimed(c) = 0
  BY <1>1, SumOfNone DEF Claimed
<1>3. legs[c] \in Int /\ remaining[c] = legs[c]
  BY DEF PositionsInit
<1> QED BY <1>2, <1>3 DEF ClaimsCover

LEMMA ClaimsAreOnePosition == BookInv /\ ClaimInv => OneContractOnePosition
<1> SUFFICES ASSUME BookInv, ClaimInv, NEW c \in Contracts
             PROVE  /\ Abs(Claimed(c)) >= Abs(legs[c] - remaining[c])
                    /\ OneLot => Claimed(c) = legs[c] - remaining[c]
  BY DEF OneContractOnePosition, OneLot
<1>1. /\ remaining[c] \in Int /\ legs[c] \in Int /\ Claimed(c) \in Int
      /\ Between(remaining[c], legs[c])
  BY ClaimedIsInteger DEF BookInv, PositionsTypeOK, NeverCrossesZero
<1>2. ClaimsCover(c) /\ (OneLot => Claimed(c) = legs[c] - remaining[c])
  BY DEF ClaimInv
<1> QED BY <1>1, <1>2 DEF ClaimsCover, Between, Abs

-----------------------------------------------------------------------------
(***************************************************************************)
(* The newest first.  Of the fills of a structure looked at so far, as     *)
(* many are held as there are complete spreads, or all of them; and that   *)
(* many lots are gone from either leg.                                     *)
(***************************************************************************)
Met(s) == {i \in Fills(s) : i > next}
Open(s) == held \intersect Fills(s)
Rank(s, i) == Cardinality({j \in Fills(s) : j >= i})

Newest(s) ==
  /\ Open(s) = {i \in Met(s) : Rank(s, i) <= Lots(s)}
  /\ Cardinality(Open(s)) = IF Cardinality(Met(s)) <= Lots(s) THEN Cardinality(Met(s)) ELSE Lots(s)
  /\ remaining[s.short] = legs[s.short] + Cardinality(Open(s))
  /\ remaining[s.long] = legs[s.long] - Cardinality(Open(s))

NewestInv == \A k \in 1..Len(records) : Newest(records[k].structure)

LEMMA LotsAreCounted ==
  ASSUME BookInv, NEW s \in Structures
  PROVE  /\ Lots(s) \in Nat /\ legs[s.short] \in Int /\ legs[s.long] \in Int
         /\ \A n \in Nat : n < Lots(s) <=> legs[s.short] + n < 0 /\ legs[s.long] - n > 0
<1>1. legs[s.short] \in Int /\ legs[s.long] \in Int
  BY DEF BookInv, PositionsTypeOK
<1> QED BY <1>1 DEF Lots

LEMMA SeenIsFinite ==
  ASSUME BookInv, NEW s
  PROVE  /\ IsFiniteSet(Met(s)) /\ IsFiniteSet(Open(s))
         /\ Cardinality(Met(s)) \in Nat /\ Cardinality(Open(s)) \in Nat
BY HeldIsFinite DEF Met, Open, Fills

\* What a step that does not claim leaves, and what it sees.
LEMMA SeenGrows ==
  ASSUME BookInv, Look, NEW s
  PROVE  /\ Fills(s)' = Fills(s) /\ Lots(s)' = Lots(s) /\ \A i : Rank(s, i)' = Rank(s, i)
         /\ next \in 1..Len(records) /\ next' = next - 1 /\ next \notin Met(s)
         /\ Met(s)' = IF next \in Fills(s) THEN Met(s) \union {next} ELSE Met(s)
         /\ next \in Fills(s) => Rank(s, next) = Cardinality(Met(s)) + 1
<1>1. UNCHANGED <<records, legs>> /\ next' = next - 1 /\ next \in 1..Len(records) /\ next \in Nat
  BY DEF Look, BookInv, PositionsTypeOK
<1>2. Fills(s)' = Fills(s)
  BY <1>1 DEF Fills
<1>3. Lots(s)' = Lots(s) /\ \A i : Rank(s, i)' = Rank(s, i)
  BY <1>1, <1>2 DEF Lots, Rank
<1>4. Fills(s) \subseteq 1..Len(records) /\ \A i \in Fills(s) : i \in Nat
  BY DEF Fills, BookInv, PositionsTypeOK
<1>5. Met(s)' = {i \in Fills(s) : i > next - 1}
  BY <1>1, <1>2 DEF Met
<1>6. Met(s)' = IF next \in Fills(s) THEN Met(s) \union {next} ELSE Met(s)
  <2>1. \A i \in Fills(s) : i > next - 1 <=> i > next \/ i = next
    BY <1>1, <1>4
  <2> QED BY <1>5, <2>1 DEF Met
<1>7. next \notin Met(s)
  BY <1>1 DEF Met
<1>8. ASSUME next \in Fills(s)  PROVE Rank(s, next) = Cardinality(Met(s)) + 1
  <2>1. {j \in Fills(s) : j >= next} = Met(s) \union {next}
    BY <1>1, <1>4, <1>8 DEF Met
  <2>2. IsFiniteSet(Met(s))
    BY SeenIsFinite
  <2> QED BY <1>7, <2>1, <2>2, FS_AddElement DEF Rank
<1> QED BY <1>1, <1>2, <1>3, <1>6, <1>7, <1>8

\* A structure the record looked at is not a fill of stays as it is.
LEMMA OthersStand ==
  ASSUME BookInv, Look, held' \in {held, held \union {next}}, NEW s, next \notin Fills(s),
         remaining'[s.short] = remaining[s.short], remaining'[s.long] = remaining[s.long],
         Newest(s)
  PROVE  Newest(s)'
<1>1. /\ Fills(s)' = Fills(s) /\ Lots(s)' = Lots(s) /\ \A i : Rank(s, i)' = Rank(s, i)
      /\ Met(s)' = Met(s)
  BY SeenGrows
<1>2. Open(s)' = Open(s) /\ legs' = legs
  BY <1>1 DEF Open, Look
<1> QED BY <1>1, <1>2 DEF Newest

\* Whether there is a complete spread left.
LEMMA PresentWhileLots ==
  ASSUME BookInv, NEW t \in Structures, Newest(t), NEW r, r.structure = t, r.quantity = 1
  PROVE  AllPresent(r) <=> Cardinality(Open(t)) < Lots(t)
<1>1. /\ legs[t.short] \in Int /\ legs[t.long] \in Int /\ Cardinality(Open(t)) \in Nat
      /\ Cardinality(Open(t)) < Lots(t) <=>
           legs[t.short] + Cardinality(Open(t)) < 0 /\ legs[t.long] - Cardinality(Open(t)) > 0
  BY LotsAreCounted, SeenIsFinite
<1>2. Wanted(r, t.short) = -1 /\ Wanted(r, t.long) = 1
  BY DEF Wanted
<1>3. remaining[t.short] \in Int /\ remaining[t.long] \in Int
  BY <1>1 DEF Newest
<1>4. AllPresent(r) <=> remaining[t.short] < 0 /\ remaining[t.long] > 0
  BY <1>2, <1>3 DEF AllPresent, Named, SameSide
<1> QED BY <1>1, <1>4 DEF Newest

\* A fill there is no spread left for is not among the newest that are open.
LEMMA GoneIsOld ==
  ASSUME BookInv, Look, UNCHANGED <<held, remaining>>, NEW t \in Structures, Newest(t),
         next \in Fills(t), ~(Cardinality(Open(t)) < Lots(t))
  PROVE  Newest(t)'
<1>1. /\ Fills(t)' = Fills(t) /\ Lots(t)' = Lots(t) /\ \A i : Rank(t, i)' = Rank(t, i)
      /\ Met(t)' = Met(t) \union {next} /\ next \notin Met(t)
      /\ Rank(t, next) = Cardinality(Met(t)) + 1
  BY SeenGrows
<1>2. Lots(t) \in Nat /\ Cardinality(Open(t)) \in Nat /\ Cardinality(Met(t)) \in Nat
  BY LotsAreCounted, SeenIsFinite
<1>3. Open(t)' = Open(t) /\ legs' = legs /\ remaining' = remaining
  BY <1>1 DEF Open, Look
<1>4. Cardinality(Met(t)') = Cardinality(Met(t)) + 1
  <2>1. IsFiniteSet(Met(t))
    BY SeenIsFinite
  <2>2. Cardinality(Met(t) \union {next}) = Cardinality(Met(t)) + 1
    BY <1>1, <2>1, FS_AddElement
  <2> QED BY <1>1, <2>2
<1>5. Cardinality(Open(t)) = Lots(t) /\ Cardinality(Met(t)) >= Lots(t)
  BY <1>2 DEF Newest
<1>6. ~(Rank(t, next) <= Lots(t)) /\ ~(Cardinality(Met(t)') <= Lots(t))
  BY <1>1, <1>2, <1>4, <1>5
<1>7. Open(t)' = {i \in Met(t)' : Rank(t, i)' <= Lots(t)'}
  BY <1>1, <1>3, <1>6 DEF Newest
<1> QED BY <1>1, <1>3, <1>5, <1>6, <1>7 DEF Newest

\* A fill there is a spread left for is, and takes a lot of either leg.
LEMMA ClaimIsNewest ==
  ASSUME BookInv, Look, held' = held \union {next}, NEW t \in Structures, Newest(t),
         next \in Fills(t), Cardinality(Open(t)) < Lots(t),
         remaining'[t.short] = remaining[t.short] + 1, remaining'[t.long] = remaining[t.long] - 1
  PROVE  Newest(t)'
<1>1. /\ Fills(t)' = Fills(t) /\ Lots(t)' = Lots(t) /\ \A i : Rank(t, i)' = Rank(t, i)
      /\ Met(t)' = Met(t) \union {next} /\ next \notin Met(t)
      /\ Rank(t, next) = Cardinality(Met(t)) + 1
  BY SeenGrows
<1>2. /\ Lots(t) \in Nat /\ Cardinality(Open(t)) \in Nat /\ Cardinality(Met(t)) \in Nat
      /\ legs[t.short] \in Int /\ legs[t.long] \in Int /\ legs' = legs
  BY LotsAreCounted, SeenIsFinite DEF Look
<1>3. Open(t)' = Open(t) \union {next}
  BY <1>1 DEF Open
<1>4. next \notin Open(t)
  BY <1>1 DEF Newest
<1>5. /\ Cardinality(Met(t)') = Cardinality(Met(t)) + 1
      /\ Cardinality(Open(t)') = Cardinality(Open(t)) + 1
  <2>1. Cardinality(Met(t) \union {next}) = Cardinality(Met(t)) + 1
    BY <1>1, SeenIsFinite, FS_AddElement
  <2>2. Cardinality(Open(t) \union {next}) = Cardinality(Open(t)) + 1
    BY <1>4, SeenIsFinite, FS_AddElement
  <2> QED BY <1>1, <1>3, <2>1, <2>2
<1>6. Cardinality(Open(t)) = Cardinality(Met(t)) /\ Cardinality(Met(t)) + 1 <= Lots(t)
  BY <1>2 DEF Newest
<1>7. Open(t)' = {i \in Met(t)' : Rank(t, i)' <= Lots(t)'}
  BY <1>1, <1>3, <1>6 DEF Newest
<1>8. remaining'[t.short] = legs[t.short] + (Cardinality(Open(t)) + 1)
  BY <1>2 DEF Newest
<1>9. remaining'[t.long] = legs[t.long] - (Cardinality(Open(t)) + 1)
  BY <1>2 DEF Newest
<1> QED BY <1>1, <1>2, <1>5, <1>6, <1>7, <1>8, <1>9 DEF Newest

LEMMA NewestIsKept ==
  ASSUME BookInv, Alike, NewestInv, [PositionsNext]_bvars
  PROVE  NewestInv'
<1>1. CASE UNCHANGED bvars
  <2>1. UNCHANGED <<records, legs, next, remaining, held>>
    BY <1>1 DEF bvars
  <2>2. ASSUME NEW s, Newest(s)  PROVE Newest(s)'
    <3>1. Fills(s)' = Fills(s) /\ Lots(s)' = Lots(s)
      BY <2>1 DEF Fills, Lots
    <3>2. Open(s)' = Open(s) /\ Met(s)' = Met(s) /\ \A i : Rank(s, i)' = Rank(s, i)
      BY <2>1, <3>1 DEF Open, Met, Rank
    <3> QED BY <2>1, <2>2, <3>1, <3>2 DEF Newest
  <2>3. \A k \in 1..Len(records) : records'[k].structure = records[k].structure
    BY <2>1
  <2> QED BY <2>1, <2>2, <2>3 DEF NewestInv
<1>2. ASSUME Look, Skip \/ Gone \/ Claim
      PROVE  NewestInv'
  <2> DEFINE r == records[next]
  <2>1. next \in 1..Len(records) /\ UNCHANGED <<records, legs>> /\ r \in Records
    BY <1>2 DEF Look, BookInv, PositionsTypeOK
  <2>2. PICK t : t = r.structure
    OBVIOUS
  <2>3. t \in Structures /\ t.short \in Contracts /\ t.long \in Contracts /\ t.short # t.long
        /\ r.quantity = 1 /\ Newest(t)
    BY <2>1, <2>2 DEF Alike, NewestInv, Records
  <2> SUFFICES ASSUME NEW k \in 1..Len(records), NEW s, s = records[k].structure  PROVE Newest(s)'
    BY <2>1 DEF NewestInv
  <2>4. /\ s \in Structures /\ s.short \in Contracts /\ s.long \in Contracts /\ Newest(s)
        /\ s # t => {s.short, s.long} \intersect {t.short, t.long} = {}
    <3>1. records[k] \in Records
      BY DEF BookInv, PositionsTypeOK
    <3>2. records[k].structure = r.structure \/ Named(records[k]) \intersect Named(r) = {}
      BY <2>1 DEF Alike
    <3>3. s # t => {s.short, s.long} \intersect {t.short, t.long} = {}
      BY <2>2, <3>2 DEF Named
    <3> QED BY <3>1, <3>3 DEF NewestInv, Records
  <2>5. next \in Fills(s) <=> r.filled /\ s = t
    BY <2>1, <2>2 DEF Fills
  <2>6. AllPresent(r) <=> Cardinality(Open(t)) < Lots(t)
    BY <2>2, <2>3, PresentWhileLots
  <2>7. CASE Skip
    <3>1. next \notin Fills(s) /\ UNCHANGED <<held, remaining>>
      BY <2>5, <2>7 DEF Skip
    <3> QED BY <1>2, <2>4, <3>1, OthersStand
  <2>8. CASE Gone
    <3>1. UNCHANGED <<held, remaining>> /\ r.filled /\ ~AllPresent(r)
      BY <2>8 DEF Gone
    <3>2. CASE s = t
      BY <1>2, <2>3, <2>5, <2>6, <3>1, <3>2, GoneIsOld
    <3>3. CASE s # t
      BY <1>2, <2>4, <2>5, <3>1, <3>3, OthersStand
    <3> QED BY <3>2, <3>3
  <2>9. CASE Claim
    <3>1. /\ held' = held \union {next} /\ r.filled /\ AllPresent(r)
          /\ remaining' = [c \in Contracts |->
                              IF c \in Named(r) THEN AfterClaiming(remaining[c], Wanted(r, c))
                                                ELSE remaining[c]]
      BY <2>9 DEF Claim
    <3>2. Named(r) = {t.short, t.long} /\ Wanted(r, t.short) = -1 /\ Wanted(r, t.long) = 1
      BY <2>2, <2>3 DEF Named, Wanted
    <3>3. CASE s = t
      <4>1. /\ remaining[t.short] \in Int /\ remaining[t.short] < 0
            /\ remaining[t.long] \in Int /\ remaining[t.long] > 0
        BY <2>3, <3>1, <3>2 DEF AllPresent, SameSide, BookInv, PositionsTypeOK
      <4>2. /\ AfterClaiming(remaining[t.short], -1) = remaining[t.short] + 1
            /\ AfterClaiming(remaining[t.long], 1) = remaining[t.long] - 1
        BY <4>1 DEF AfterClaiming, Abs
      <4>3. /\ remaining'[t.short] = remaining[t.short] + 1
            /\ remaining'[t.long] = remaining[t.long] - 1
        BY <2>3, <3>1, <3>2, <4>2
      <4> QED BY <1>2, <2>3, <2>5, <2>6, <3>1, <3>3, <4>3, ClaimIsNewest
    <3>4. CASE s # t
      <4>1. remaining'[s.short] = remaining[s.short] /\ remaining'[s.long] = remaining[s.long]
        BY <2>4, <3>1, <3>2, <3>4
      <4> QED BY <1>2, <2>4, <2>5, <3>1, <3>4, <4>1, OthersStand
    <3> QED BY <3>3, <3>4
  <2> QED BY <1>2, <2>7, <2>8, <2>9
<1> QED BY <1>1, <1>2 DEF PositionsNext, Skip, Gone, Claim, AllRead

LEMMA NewestInit == PositionsInit => NewestInv
<1> SUFFICES ASSUME PositionsInit, NEW k \in 1..Len(records), NEW s, s = records[k].structure  PROVE Newest(s)
  BY DEF NewestInv
<1>1. BookInv /\ s \in Structures
  <2>1. BookInv
    BY BookInit
  <2>2. records[k] \in Records
    BY <2>1 DEF BookInv, PositionsTypeOK
  <2> QED BY <2>1, <2>2 DEF Records
<1>2. Open(s) = {} /\ Met(s) = {}
  BY <1>1 DEF PositionsInit, Open, Met, Fills, BookInv, PositionsTypeOK
<1>3. Cardinality({}) = 0 /\ Lots(s) \in Nat /\ legs[s.short] \in Int /\ legs[s.long] \in Int
  BY <1>1, LotsAreCounted, FS_EmptySet
<1>4. remaining = legs
  BY DEF PositionsInit
<1> QED BY <1>2, <1>3, <1>4 DEF Newest

\* At the end everything was looked at.
LEMMA NewestAreHeld ==
  ASSUME BookInv, Alike => NewestInv
  PROVE  NewestFirst
<1> SUFFICES ASSUME next = 0, Alike
             PROVE  held = UNION {{i \in Fills(s) : Rank(s, i) <= Lots(s)} : s \in Structures}
  BY DEF NewestFirst, Rank
<1>1. \A s : Met(s) = Fills(s)
  BY DEF Met, Fills, BookInv, PositionsTypeOK
<1>2. \A i \in held : i \in 1..Len(records) /\ records[i].filled /\ records[i].structure \in Structures
  BY DEF BookInv, PositionsTypeOK, EveryFillIsAccounted, Records
<1>3. ASSUME NEW i \in held
      PROVE  \E s \in Structures : i \in Fills(s) /\ Rank(s, i) <= Lots(s)
  <2> DEFINE s == records[i].structure
  <2>1. s \in Structures /\ i \in Fills(s) /\ Newest(s)
    BY <1>2 DEF Fills, NewestInv
  <2>2. i \in Open(s)
    BY <2>1 DEF Open
  <2> QED BY <1>1, <2>1, <2>2 DEF Newest
<1>4. ASSUME NEW s \in Structures, NEW i \in Fills(s), Rank(s, i) <= Lots(s)
      PROVE  i \in held
  <2>1. i \in 1..Len(records) /\ records[i].structure = s
    BY DEF Fills
  <2>2. Newest(s)
    BY <2>1 DEF NewestInv
  <2> QED BY <1>1, <1>4, <2>2 DEF Newest, Open
<1> QED BY <1>3, <1>4

-----------------------------------------------------------------------------
\* The book is what the broker holds, whatever the journal says of it.
THEOREM BookIsTheBrokers == PositionsSpec => []BookMatchesBroker
<1> DEFINE Whole == BookInv /\ ClaimInv /\ (Alike => NewestInv)
<1>1. PositionsInit => Whole
  BY BookInit, ClaimInit, NewestInit
<1>2. Whole /\ [PositionsNext]_bvars => Whole'
  <2> SUFFICES ASSUME Whole, [PositionsNext]_bvars  PROVE Whole'
    OBVIOUS
  <2>1. records' = records
    BY DEF PositionsNext, Skip, Gone, Claim, AllRead, Look, bvars
  <2>2. Alike' => Alike
    BY <2>1 DEF Alike, Named
  <2> QED BY <2>2, BookStep, ClaimIsKept, NewestIsKept
<1>3. Whole => BookMatchesBroker
  <2>1. BookInv => NeverCrossesZero /\ EveryFillIsAccounted
    BY DEF BookInv
  <2> QED BY <2>1, ClaimsAreOnePosition, NewestAreHeld DEF BookMatchesBroker
<1> HIDE DEF Whole
<1> QED BY <1>1, <1>2, <1>3, PTL DEF PositionsSpec

HIDE BookAssumption

-----------------------------------------------------------------------------
(***************************************************************************)
(* The books the research hands off.  What a book says its rule had earned *)
(* was so on the day it is of, at every stage a hand-off is at, through    *)
(* every death in the write; and where a rule has one name the last file   *)
(* of the directory is the newest, so that no account goes back to a book  *)
(* older than one it traded on.                                            *)
(***************************************************************************)
USE HandOffAssumption

\* One file comes before another in a listing of the directory.
Before(g, f) == g[1] \in Precedes[f[1]] \/ (g[1] = f[1] /\ g[2] < f[2])

IsLast(f, S) == f \in S /\ \A g \in S \ {f} : Before(g, f)

\* A directory that is not empty has a last file.
LEMMA LastFileExists ==
  ASSUME NEW S, S \subseteq BookFiles, IsFiniteSet(S), S # {}
  PROVE  \E f \in S : IsLast(f, S)
<1> SUFFICES ASSUME ~\E f \in S : IsLast(f, S) PROVE FALSE
  OBVIOUS
<1> DEFINE T == {t \in SUBSET S : t # {} /\ ~\E f \in t : IsLast(f, t)}
<1>1. S \in T
  OBVIOUS
<1> HIDE DEF T
<1>2. PICK t \in T : \A u \in T : u \subseteq t => u = t
  <2>1. T \subseteq SUBSET S /\ T # {}
    BY <1>1 DEF T
  <2> QED BY <2>1, LeastSubset
<1>3. t \subseteq S /\ t # {} /\ ~\E f \in t : IsLast(f, t)
  BY <1>2 DEF T
<1>4. PICK x : x \in t
  BY <1>3
<1>5. t \ {x} # {}
  <2> SUFFICES ASSUME t \ {x} = {} PROVE FALSE
    OBVIOUS
  <2>1. IsLast(x, t)
    BY <1>4 DEF IsLast
  <2> QED BY <2>1, <1>3, <1>4
<1>6. PICK f \in t \ {x} : IsLast(f, t \ {x})
  <2>1. t \ {x} \notin T
    BY <1>2, <1>4
  <2> QED BY <2>1, <1>3, <1>5 DEF T
<1>7. \A g \in BookFiles : g[1] \in Names /\ g[2] \in Nat /\ g = <<g[1], g[2]>>
  BY DEF BookFiles, DataDay
<1>8. x \in BookFiles /\ f \in BookFiles /\ x # f /\ t \subseteq BookFiles
  BY <1>3, <1>4, <1>6
<1>9. CASE Before(x, f)
  <2>1. IsLast(f, t)
    BY <1>6, <1>9 DEF IsLast
  <2> QED BY <2>1, <1>3, <1>6
<1>10. CASE ~Before(x, f)
  <2>1. Before(f, x)
    <3>1. CASE x[1] = f[1]
      <4>1. x[2] # f[2]
        BY <3>1, <1>7, <1>8
      <4> QED BY <4>1, <3>1, <1>7, <1>8, <1>10 DEF Before
    <3>2. CASE x[1] # f[1]
      BY <3>2, <1>7, <1>8, <1>10 DEF Before
    <3> QED BY <3>1, <3>2
  <2>2. ASSUME NEW g \in t \ {x}  PROVE Before(g, x)
    <3>1. g = f \/ Before(g, f)
      BY <2>2, <1>6 DEF IsLast
    <3>2. CASE Before(g, f)
      <4>1. g[1] \in Names /\ x[1] \in Names /\ f[1] \in Names /\ g[2] \in Nat /\ x[2] \in Nat /\ f[2] \in Nat
        BY <1>7, <1>8
      <4>2. CASE g[1] = f[1] \/ f[1] = x[1]
        BY <4>1, <4>2, <2>1, <3>2 DEF Before
      <4>3. CASE g[1] \in Precedes[f[1]] /\ f[1] \in Precedes[x[1]]
        BY <4>1, <4>3 DEF Before
      <4> QED BY <4>2, <4>3, <2>1, <3>2 DEF Before
    <3> QED BY <3>1, <3>2, <2>1
  <2>3. IsLast(x, t)
    BY <2>2, <1>4 DEF IsLast
  <2> QED BY <2>3, <1>3, <1>4
<1> QED BY <1>9, <1>10

\* What an account reads is a file of the directory, and the last.
LEMMA LatestIsLast ==
  ASSUME DOMAIN files \subseteq BookFiles, IsFiniteSet(DOMAIN files), DOMAIN files # {}
  PROVE  IsLast(Latest, DOMAIN files)
<1>1. \E f \in DOMAIN files : IsLast(f, DOMAIN files)
  BY LastFileExists
<1>2. \E f \in DOMAIN files : \A g \in DOMAIN files \ {f} :
        g[1] \in Precedes[f[1]] \/ (g[1] = f[1] /\ g[2] < f[2])
  BY <1>1 DEF IsLast, Before
<1> QED BY <1>2 DEF Latest, IsLast, Before

-----------------------------------------------------------------------------
(***************************************************************************)
(* What holds of a hand-off at every moment.                               *)
(***************************************************************************)
Building == [at : {"building"}, name : Names, earned : BOOLEAN, unrefuted : BOOLEAN]
Writing == [at : {"writing"}, file : BookFiles, book : HandedBook]

HandOffTypes ==
  /\ family \in {"equity", "option"}
  /\ day \in DataDay /\ reach \in DataDay /\ tradeable \in 0 .. day
  /\ DOMAIN files \subseteq BookFiles /\ IsFiniteSet(DOMAIN files)
  /\ \A f \in DOMAIN files : files[f] \in HandedBook \union {Torn}
  /\ writer \in [Writers -> {Resting} \union Building \union Writing]
  /\ loaded \in HandedBook \union {NoBook}
  /\ executed \in [asOf : DataDay, on : DataDay] \union {NoBook}

\* The seal is clean from the first hand-off on.
SealFirst == (\E w \in Writers : writer[w] # Resting) \/ DOMAIN files # {} => seal = "clean"

\* What a book says its rule had earned it had, on the day it is written: the
\* status is read within the day.
Remembered == status \in TradeableStatus => tradeable = day

WritersAreTrue ==
  \A w \in Writers :
    /\ writer[w].at = "building" /\ writer[w].earned => tradeable = day
    /\ writer[w].at = "writing" =>
         /\ writer[w].book.asOf = writer[w].file[2] /\ writer[w].book.asOf <= day
         /\ writer[w].book.earned => tradeable = day

FilesAreTrue ==
  \A f \in DOMAIN files : files[f] # Torn =>
    /\ files[f].asOf = f[2] /\ files[f].asOf <= day
    /\ files[f].earned => tradeable >= files[f].asOf

LoadedIsTrue ==
  loaded # NoBook =>
    /\ family = "option" /\ TakenWhole(shape) /\ IsVertical(shape)
    /\ DOMAIN files # {} /\ tradeable >= loaded.asOf

\* A session that was traded on is of a file that is there, or is not the last.
ExecutedIsThere ==
  family = "equity" /\ executed # NoBook => \E f \in DOMAIN files : f[2] >= executed.asOf

HandOffInv ==
  /\ HandOffTypes /\ SealFirst /\ Remembered /\ WritersAreTrue
  /\ FilesAreTrue /\ LoadedIsTrue /\ ExecutedIsThere

LEMMA HandOffStarts == HandOffInit => HandOffInv
<1> SUFFICES ASSUME HandOffInit PROVE HandOffInv
  OBVIOUS
<1>1. HandOffTypes
  <2>1. DOMAIN files = {}
    BY DEF HandOffInit
  <2>2. IsFiniteSet(DOMAIN files)
    BY <2>1, FS_EmptySet
  <2> QED BY <2>1, <2>2 DEF HandOffInit, HandOffTypes, DataDay
<1> QED BY <1>1 DEF HandOffInit, HandOffInv, SealFirst, Remembered, WritersAreTrue, FilesAreTrue,
                    LoadedIsTrue, ExecutedIsThere, Resting, TradeableStatus

\* A usable latest file was earned, and by the clean seal.
LEMMA ReadableIsEarned ==
  ASSUME HandOffInv, Readable
  PROVE  /\ Latest \in DOMAIN files /\ IsLast(Latest, DOMAIN files)
         /\ files[Latest] \in HandedBook /\ files[Latest].asOf = Latest[2]
         /\ seal = "clean" /\ tradeable >= files[Latest].asOf
<1>1. IsLast(Latest, DOMAIN files) /\ DOMAIN files # {}
  BY LatestIsLast DEF Readable, HandOffInv, HandOffTypes
<1>2. Latest \in DOMAIN files /\ files[Latest] # Torn /\ files[Latest].earned
  BY <1>1 DEF IsLast, Readable, Usable
<1> QED BY <1>1, <1>2 DEF HandOffInv, HandOffTypes, FilesAreTrue, SealFirst

\* What a hand-off does to the directory: one file more, or over one that is there.
LEMMA FileIsHeld ==
  ASSUME HandOffTypes, NEW file \in BookFiles, NEW what \in HandedBook \union {Torn}, Holds(file, what)
  PROVE  /\ DOMAIN files' = DOMAIN files \union {file} /\ DOMAIN files' \subseteq BookFiles
         /\ IsFiniteSet(DOMAIN files') /\ files'[file] = what
         /\ \A f \in DOMAIN files' : files'[f] \in HandedBook \union {Torn}
         /\ \A f \in DOMAIN files \ {file} : files'[f] = files[f]
<1>1. DOMAIN files' = DOMAIN files \union {file}
  BY DEF Holds
<1>2. IsFiniteSet(DOMAIN files \union {file})
  BY FS_AddElement DEF HandOffTypes
<1> QED BY <1>1, <1>2 DEF Holds, HandOffTypes

LEMMA HandOffStep == HandOffInv /\ [HandOffNext]_hvars => HandOffInv'
<1> SUFFICES ASSUME HandOffInv, [HandOffNext]_hvars PROVE HandOffInv'
  OBVIOUS
<1> USE DEF HandOffInv
<1>1. CASE Refresh
  <2>1. HandOffTypes'
    BY <1>1 DEF Refresh, HandOffTypes, DataDay
  <2> QED BY <1>1, <2>1 DEF Refresh, SealFirst, Remembered, WritersAreTrue, FilesAreTrue, LoadedIsTrue, ExecutedIsThere
<1>2. CASE SpendSeal
  <2>1. HandOffTypes'
    BY <1>2 DEF SpendSeal, HandOffTypes
  <2> QED BY <1>2, <2>1 DEF SpendSeal, SealFirst, Remembered, WritersAreTrue, FilesAreTrue, LoadedIsTrue, ExecutedIsThere
<1>3. CASE SetStatus
  <2>1. day' = day /\ tradeable' \in {tradeable, day} /\ (status' \in TradeableStatus => tradeable' = day)
    BY <1>3 DEF SetStatus, Seen
  <2>2. tradeable' >= tradeable /\ tradeable' \in 0 .. day /\ (tradeable = day => tradeable' = day)
    BY <2>1 DEF HandOffTypes, DataDay
  <2>3. HandOffTypes'
    BY <1>3, <2>2 DEF SetStatus, HandOffTypes
  <2>4. FilesAreTrue'
    BY <1>3, <2>2 DEF SetStatus, FilesAreTrue, HandOffTypes, HandedBook, DataDay
  <2>5. LoadedIsTrue'
    BY <1>3, <2>2 DEF SetStatus, LoadedIsTrue, HandOffTypes, HandedBook, DataDay
  <2> QED BY <1>3, <2>1, <2>2, <2>3, <2>4, <2>5 DEF SetStatus, SealFirst, Remembered, WritersAreTrue, ExecutedIsThere
<1>4. ASSUME NEW w \in Writers, StartHandOff(w)  PROVE HandOffInv'
  <2>1. PICK name \in Names : writer' = [writer EXCEPT ![w] =
               [at |-> "building", name |-> name,
                earned |-> status \in TradeableStatus, unrefuted |-> seal # "refuted"]]
    BY <1>4 DEF StartHandOff, Goto, NameOf
  <2>2. HandOffTypes'
    BY <1>4, <2>1 DEF StartHandOff, HandOffTypes, Building
  <2>3. SealFirst'
    BY <1>4 DEF StartHandOff, MayWrite, SealFirst
  <2>4. WritersAreTrue'
    BY <1>4, <2>1 DEF StartHandOff, WritersAreTrue, HandOffTypes, Remembered
  <2> QED BY <1>4, <2>2, <2>3, <2>4 DEF StartHandOff, Remembered, FilesAreTrue, LoadedIsTrue, ExecutedIsThere
<1>5. ASSUME NEW w \in Writers, NEW end \in DataDay, end <= day, Built(w, end)  PROVE HandOffInv'
  <2> DEFINE file == <<writer[w].name, AsOf(end)>>
             book == [asOf |-> AsOf(end), earned |-> writer[w].earned, unrefuted |-> writer[w].unrefuted]
  <2>1. writer[w].at = "building" /\ writer[w] \in Building
    BY <1>5 DEF Built, HandOffTypes, Resting, Writing
  <2>2. AsOf(end) \in DataDay /\ AsOf(end) <= day
    BY <1>5 DEF AsOf, HandOffTypes, DataDay
  <2>3. file \in BookFiles /\ book \in HandedBook /\ book.asOf = file[2]
    BY <2>1, <2>2 DEF Building, BookFiles, HandedBook
  <2>4. Holds(file, Torn) /\ writer' = [writer EXCEPT ![w] = [at |-> "writing", file |-> file, book |-> book]]
    BY <1>5 DEF Built, Goto
  <2>5. /\ DOMAIN files' = DOMAIN files \union {file} /\ DOMAIN files' \subseteq BookFiles
        /\ IsFiniteSet(DOMAIN files') /\ files'[file] = Torn
        /\ \A f \in DOMAIN files' : files'[f] \in HandedBook \union {Torn}
        /\ \A f \in DOMAIN files \ {file} : files'[f] = files[f]
    BY <2>3, <2>4, FileIsHeld
  <2>6. seal = "clean"
    BY <2>1 DEF SealFirst, Resting
  <2>7. writer[w].earned => tradeable = day
    BY <2>1 DEF WritersAreTrue
  <2>8. UNCHANGED <<family, shape, day, reach, status, seal, loaded, executed, tradeable>>
    BY <1>5 DEF Built
  <2> HIDE DEF file, book
  <2>9. HandOffTypes'
    <3>1. [at |-> "writing", file |-> file, book |-> book] \in Writing
      BY <2>3 DEF Writing
    <3> QED BY <2>4, <2>5, <2>8, <3>1 DEF HandOffTypes
  <2>10. WritersAreTrue'
    <3>1. book.asOf <= day /\ (book.earned => tradeable = day)
      BY <2>2, <2>7 DEF book
    <3> QED BY <2>3, <2>4, <2>8, <3>1 DEF WritersAreTrue, HandOffTypes
  <2>11. FilesAreTrue'
    BY <2>5, <2>8 DEF FilesAreTrue
  <2> QED BY <2>5, <2>6, <2>8, <2>9, <2>10, <2>11 DEF SealFirst, Remembered, LoadedIsTrue, ExecutedIsThere
<1>6. ASSUME NEW w \in Writers, BuildTarget(w) \/ BuildOption(w)  PROVE HandOffInv'
  <2>1. \E end \in DataDay : end <= day /\ Built(w, end)
    BY <1>6 DEF BuildTarget, BuildOption, HandOffTypes, DataDay
  <2> QED BY <2>1, <1>5
<1>7. ASSUME NEW w \in Writers, Write(w)  PROVE HandOffInv'
  <2>1. writer[w].at = "writing" /\ writer[w] \in Writing
    BY <1>7 DEF Write, HandOffTypes, Resting, Building
  <2> DEFINE file == writer[w].file
             book == writer[w].book
  <2>2. file \in BookFiles /\ book \in HandedBook
    BY <2>1 DEF Writing
  <2>3. /\ DOMAIN files' = DOMAIN files \union {file} /\ DOMAIN files' \subseteq BookFiles
        /\ IsFiniteSet(DOMAIN files') /\ files'[file] = book
        /\ \A f \in DOMAIN files' : files'[f] \in HandedBook \union {Torn}
        /\ \A f \in DOMAIN files \ {file} : files'[f] = files[f]
    BY <1>7, <2>2, FileIsHeld DEF Write
  <2>4. writer' = [writer EXCEPT ![w] = Resting]
    BY <1>7 DEF Write, Goto
  <2>5. UNCHANGED <<family, shape, day, reach, status, seal, loaded, executed, tradeable>>
    BY <1>7 DEF Write
  <2>6. seal = "clean"
    BY <2>1 DEF SealFirst, Resting
  <2>7. book.asOf = file[2] /\ book.asOf <= day /\ (book.earned => tradeable >= book.asOf)
    BY <2>1, <2>2 DEF WritersAreTrue, HandOffTypes, HandedBook, DataDay
  <2>8. HandOffTypes'
    BY <2>3, <2>4, <2>5 DEF HandOffTypes
  <2>9. WritersAreTrue'
    BY <2>4, <2>5 DEF WritersAreTrue, HandOffTypes, Resting
  <2>10. FilesAreTrue'
    BY <2>3, <2>5, <2>7 DEF FilesAreTrue
  <2> QED BY <2>3, <2>5, <2>6, <2>8, <2>9, <2>10 DEF SealFirst, Remembered, LoadedIsTrue, ExecutedIsThere
<1>8. ASSUME NEW w \in Writers, Abandon(w)  PROVE HandOffInv'
  <2>1. writer' = [writer EXCEPT ![w] = Resting]
    BY <1>8 DEF Abandon, Goto
  <2>2. HandOffTypes'
    BY <1>8, <2>1 DEF Abandon, HandOffTypes
  <2>3. WritersAreTrue'
    BY <1>8, <2>1 DEF Abandon, WritersAreTrue, HandOffTypes, Resting
  <2>4. SealFirst'
    BY <1>8 DEF Abandon, SealFirst
  <2> QED BY <1>8, <2>2, <2>3, <2>4 DEF Abandon, Remembered, FilesAreTrue, LoadedIsTrue, ExecutedIsThere
<1>9. CASE EquityPass
  <2>1. /\ Latest \in DOMAIN files /\ files[Latest] \in HandedBook /\ files[Latest].asOf = Latest[2]
    BY <1>9, ReadableIsEarned DEF EquityPass
  <2>2. executed' = [asOf |-> files[Latest].asOf, on |-> day]
    BY <1>9 DEF EquityPass
  <2>3. HandOffTypes'
    BY <1>9, <2>1, <2>2 DEF EquityPass, HandOffTypes, HandedBook
  <2>4. ExecutedIsThere'
    BY <1>9, <2>1, <2>2 DEF EquityPass, ExecutedIsThere, HandedBook, DataDay
  <2> QED BY <1>9, <2>3, <2>4 DEF EquityPass, SealFirst, Remembered, WritersAreTrue, FilesAreTrue, LoadedIsTrue
<1>10. CASE StartOptions
  <2>1. /\ Latest \in DOMAIN files /\ files[Latest] \in HandedBook /\ tradeable >= files[Latest].asOf
    BY <1>10, ReadableIsEarned DEF StartOptions
  <2>2. HandOffTypes'
    BY <1>10, <2>1 DEF StartOptions, HandOffTypes
  <2>3. LoadedIsTrue'
    BY <1>10, <2>1 DEF StartOptions, LoadedIsTrue
  <2> QED BY <1>10, <2>2, <2>3 DEF StartOptions, SealFirst, Remembered, WritersAreTrue, FilesAreTrue, ExecutedIsThere
<1>11. CASE OptionsSlot
  <2>1. family = "option" /\ loaded \in HandedBook
    BY <1>11 DEF OptionsSlot, LoadedIsTrue, HandOffTypes
  <2>2. HandOffTypes'
    BY <1>11, <2>1 DEF OptionsSlot, HandOffTypes, HandedBook
  <2> QED BY <1>11, <2>1, <2>2 DEF OptionsSlot, SealFirst, Remembered, WritersAreTrue, FilesAreTrue, LoadedIsTrue, ExecutedIsThere
<1>12. CASE NextDay
  <2>1. day' = day + 1 /\ day' \in DataDay /\ tradeable' \in {tradeable, day + 1} /\ (status' \in TradeableStatus => tradeable' = day')
    BY <1>12 DEF NextDay, Seen, HandOffTypes, DataDay
  <2>2. tradeable' >= tradeable /\ tradeable' \in 0 .. day'
    BY <2>1 DEF HandOffTypes, DataDay
  <2>3. \A w \in Writers : writer[w] = Resting
    BY <1>12 DEF NextDay
  <2>4. HandOffTypes'
    BY <1>12, <2>1, <2>2 DEF NextDay, HandOffTypes
  <2>5. WritersAreTrue'
    BY <1>12, <2>3 DEF NextDay, WritersAreTrue, Resting
  <2>6. FilesAreTrue'
    BY <1>12, <2>1, <2>2 DEF NextDay, FilesAreTrue, HandOffTypes, HandedBook, DataDay
  <2>7. SealFirst' /\ Remembered' /\ LoadedIsTrue' /\ ExecutedIsThere'
    BY <1>12, <2>1 DEF NextDay, SealFirst, Remembered, LoadedIsTrue, ExecutedIsThere
  <2> QED BY <2>4, <2>5, <2>6, <2>7
<1>13. CASE UNCHANGED hvars
  BY <1>13 DEF hvars, HandOffTypes, SealFirst, Remembered, WritersAreTrue, FilesAreTrue, LoadedIsTrue, ExecutedIsThere
<1> QED
  BY <1>1, <1>2, <1>3, <1>4, <1>6, <1>7, <1>8, <1>9, <1>10, <1>11, <1>12, <1>13 DEF HandOffNext

\* An execution is earned, whatever the names.
LEMMA ExecutionsAreEarned == HandOffInv /\ [HandOffNext]_hvars => [IsEarned]_executed
<1> SUFFICES ASSUME HandOffInv, HandOffNext, executed' # executed PROVE IsEarned
  BY DEF hvars
<1>1. EquityPass \/ OptionsSlot
  BY DEF HandOffNext, Refresh, SpendSeal, SetStatus, StartHandOff, BuildTarget, BuildOption, Built, Write, Abandon,
         StartOptions, NextDay
<1>2. CASE EquityPass
  <2>1. /\ files[Latest] \in HandedBook /\ seal = "clean" /\ tradeable >= files[Latest].asOf
    BY <1>2, ReadableIsEarned DEF EquityPass
  <2> QED BY <1>2, <2>1 DEF EquityPass, IsEarned, HandOffInv, HandOffTypes, HandedBook, DataDay
<1>3. CASE OptionsSlot
  BY <1>3 DEF OptionsSlot, IsEarned, HandOffInv, HandOffTypes, LoadedIsTrue, SealFirst, HandedBook, DataDay
<1> QED BY <1>1, <1>2, <1>3

\* Of a rule that is called one name the last file is of the latest session.
LEMMA ExecutionsMoveForward ==
  ASSUME Names = {RegistryName}, HandOffInv, [HandOffNext]_hvars
  PROVE  [MovesForward]_executed
<1> SUFFICES ASSUME HandOffNext, executed' # executed, family = "equity", executed # NoBook
             PROVE  executed'.asOf >= executed.asOf
  BY DEF hvars, MovesForward
<1>1. EquityPass \/ OptionsSlot
  BY DEF HandOffNext, Refresh, SpendSeal, SetStatus, StartHandOff, BuildTarget, BuildOption, Built, Write, Abandon,
         StartOptions, NextDay
<1>2. EquityPass
  BY <1>1 DEF OptionsSlot, HandOffInv, LoadedIsTrue
<1>3. /\ Latest \in DOMAIN files /\ IsLast(Latest, DOMAIN files)
      /\ files[Latest] \in HandedBook /\ files[Latest].asOf = Latest[2]
  BY <1>2, ReadableIsEarned DEF EquityPass
<1>4. PICK f \in DOMAIN files : f[2] >= executed.asOf
  BY DEF HandOffInv, ExecutedIsThere
<1>5. f \in BookFiles /\ Latest \in BookFiles
  BY <1>3, <1>4 DEF HandOffInv, HandOffTypes
<1>6. f[1] = Latest[1] /\ f[2] \in Int /\ Latest[2] \in Int /\ f[1] \in Names
  BY <1>5 DEF BookFiles, DataDay
<1>7. f[1] \notin Precedes[Latest[1]]
  BY <1>6
<1>8. f[2] <= Latest[2]
  BY <1>3, <1>4, <1>6, <1>7 DEF IsLast, Before
<1>9. executed' = [asOf |-> files[Latest].asOf, on |-> day] /\ executed.asOf \in Int
  BY <1>2 DEF EquityPass, HandOffInv, HandOffTypes, DataDay
<1> QED BY <1>3, <1>4, <1>6, <1>8, <1>9

(***************************************************************************)
(* No account trades on a rule that was not earned: of every name, of any  *)
(* number of hand-offs at once, through demotions, forced refreshes, torn  *)
(* books and books written late.                                           *)
(***************************************************************************)
THEOREM DemotionsReachTheAccount == HandOffSpec => DemotionReachesTheAccount
<1>1. HandOffInit => HandOffInv
  BY HandOffStarts
<1>2. HandOffInv /\ [HandOffNext]_hvars => HandOffInv'
  BY HandOffStep
<1>3. HandOffInv /\ [HandOffNext]_hvars => [IsEarned]_executed
  BY ExecutionsAreEarned
<1> QED BY <1>1, <1>2, <1>3, PTL DEF HandOffSpec, DemotionReachesTheAccount

(***************************************************************************)
(* And of a rule that is called one name no account goes back to a session *)
(* before the one it traded on: the run renamed_book shows what a second   *)
(* name does.                                                              *)
(***************************************************************************)
THEOREM BooksAreHonoured ==
  ASSUME Names = {RegistryName}
  PROVE  HandOffSpec => HandOffsAreHonoured
<1>1. HandOffInit => HandOffInv
  BY HandOffStarts
<1>2. HandOffInv /\ [HandOffNext]_hvars => HandOffInv'
  BY HandOffStep
<1>3. HandOffInv /\ [HandOffNext]_hvars => [MovesForward /\ IsEarned]_executed
  BY ExecutionsAreEarned, ExecutionsMoveForward
<1> QED BY <1>1, <1>2, <1>3, PTL DEF HandOffSpec, HandOffsAreHonoured

HIDE HandOffAssumption

-----------------------------------------------------------------------------
(***************************************************************************)
(* The pages.  PageInv: a page is whole, of no moment to come, and of none *)
(* after the one its session last set out to tell; and what was told since *)
(* the market last moved is what the market is.                            *)
(***************************************************************************)
Pages(f) == IF f = "options" THEN OptionsPage ELSE EquityPage

PageTypes ==
  /\ clock \in Nat /\ current \subseteq Files /\ peak \in Int \union {Nothing} /\ sessionDeaths \in Nat
  /\ market \in [marks : Marks, stock : Int, closed : Int, moves : Nat]
  /\ sessions \in [Files -> [phase : {"down", "waiting"}, since : Int, untold : BOOLEAN]]
  /\ \E o \in OptionsPage \union {Nothing}, e \in EquityPage \union {Nothing} :
       snapshots = [f \in Files |-> IF f = "options" THEN o ELSE e]

\* What is on the disk is of no moment to come, and of none after the one its
\* session last set out to tell, or ended at; but that a beat before it is told
\* follows what an earlier session told.
PagesAreOrdered ==
  \A f \in Files :
    /\ sessions[f].since <= clock
    /\ snapshots[f] # Nothing =>
         /\ snapshots[f].asOf <= clock
         /\ sessions[f].phase = "down" \/ f = "options" => snapshots[f].asOf <= sessions[f].since
    /\ sessions[f].phase = "waiting" /\ ~sessions[f].untold => snapshots[f] # Nothing /\ snapshots[f].asOf = sessions[f].since

\* What was told since the market last moved is what it is.
OptionsAreCurrent ==
  "options" \in current =>
    /\ snapshots["options"] # Nothing
    /\ snapshots["options"].unpriced = {} => snapshots["options"].positions = market.marks

EquityIsCurrent ==
  "equity" \in current =>
    /\ snapshots["equity"] # Nothing /\ snapshots["equity"].equity = Account
    /\ peak # Nothing /\ peak >= OwnSleeve /\ snapshots["equity"].fall = Fall(peak, OwnSleeve)

PageInv == PageTypes /\ PagesAreOrdered /\ OptionsAreCurrent /\ EquityIsCurrent

USE PageAssumption

LEMMA PagesAreKinds ==
  ASSUME PageTypes
  PROVE  /\ snapshots["options"] \in OptionsPage \union {Nothing} /\ snapshots["equity"] \in EquityPage \union {Nothing}
         /\ \A f \in Files : snapshots[f] \in Pages(f) \union {Nothing} /\ ReadStatus(f) = snapshots[f]
         /\ \A f \in Files : \A page \in Pages(f) :
              [snapshots EXCEPT ![f] = page] = [g \in Files |-> IF g = f THEN page ELSE snapshots[g]]
         /\ \A f \in Files : \A page : page = snapshots[f] => [snapshots EXCEPT ![f] = page] = snapshots
<1>1. PICK o \in OptionsPage \union {Nothing}, e \in EquityPage \union {Nothing} :
       snapshots = [f \in Files |-> IF f = "options" THEN o ELSE e]
  BY DEF PageTypes
<1>2. snapshots["options"] = o /\ snapshots["equity"] = e /\ DOMAIN snapshots = Files
  BY <1>1 DEF Files
<1>3. \A f \in Files : snapshots[f] \in Pages(f) \union {Nothing}
  BY <1>2 DEF Files, Pages
<1>4. ASSUME NEW f \in Files  PROVE ReadStatus(f) = snapshots[f]
  <2>1. Half.asOf = -1
    BY DEF Half
  <2>2. \A page \in Pages(f) : page.asOf \in Nat
    BY DEF Pages, OptionsPage, EquityPage
  <2>3. snapshots[f] # Nothing => snapshots[f] # Half
    BY <1>3, <2>1, <2>2
  <2> QED BY <2>3 DEF ReadStatus
<1>5. \A f \in Files : \A page \in Pages(f) :
        [snapshots EXCEPT ![f] = page] = [g \in Files |-> IF g = f THEN page ELSE snapshots[g]]
  BY <1>1, <1>2
<1>6. \A f \in Files : \A page : page = snapshots[f] => [snapshots EXCEPT ![f] = page] = snapshots
  BY <1>1, <1>2
<1> QED BY <1>2, <1>3, <1>4, <1>5, <1>6

\* Nothing half written is ever read, now or after a step.
PagesAreWhole == \A f \in Files : ReadStatus(f) = snapshots[f]

LEMMA PagesStayWhole == (PageTypes => PagesAreWhole) /\ (PageTypes' => PagesAreWhole')
<1>1. PageTypes => PagesAreWhole
  BY PagesAreKinds DEF PagesAreWhole
<1> QED BY <1>1, PTL

LEMMA MarksAreInteger ==
  ASSUME NEW marks \in Marks
  PROVE  MarksOf(marks) \in Int
<1>1. PICK kept \in SUBSET Positions : marks \in [kept -> Int]
  BY DEF Marks
<1>2. IsFiniteSet(kept)
  BY FS_Subset
<1> QED BY <1>1, <1>2, SumIsInteger DEF MarksOf

LEMMA SleevesAreInteger ==
  ASSUME PageTypes
  PROVE  Account \in Int /\ OwnSleeve \in Int /\ MarksOf(market.marks) \in Int
<1>1. MarksOf(market.marks) \in Int /\ market.stock \in Int /\ market.closed \in Int
  BY MarksAreInteger DEF PageTypes
<1>2. Account \in Int
  BY <1>1 DEF Account
<1> QED BY <1>1, <1>2 DEF OwnSleeve, ResidualSleeve, Sleeve, LargerOf

LEMMA PageStarts == PageInit => PageInv
<1> SUFFICES ASSUME PageInit PROVE PageInv
  OBVIOUS
<1>1. market.marks \in Marks
  <2>1. [p \in {} |-> 0] \in [{} -> Int]
    OBVIOUS
  <2> QED BY <2>1 DEF PageInit, Marks
<1>2. market \in [marks : Marks, stock : Int, closed : Int, moves : Nat]
  BY <1>1 DEF PageInit
<1>3. snapshots = [f \in Files |-> IF f = "options" THEN Nothing ELSE Nothing]
  BY DEF PageInit
<1>4. sessions \in [Files -> [phase : {"down", "waiting"}, since : Int, untold : BOOLEAN]]
  BY DEF PageInit, Closed
<1>5. PageTypes
  BY <1>2, <1>3, <1>4 DEF PageInit, PageTypes
<1> QED BY <1>5 DEF PageInit, PageInv, PagesAreOrdered, OptionsAreCurrent, EquityIsCurrent, Closed

\* What a publication comes to: the page is told, or stands while the session
\* goes on, or stands while it ends.
LEMMA PublicationEnds ==
  ASSUME PageTypes, NEW f \in Files, NEW at, NEW doc, WriteSnapshot(f, at, doc)
  PROVE  \/ /\ snapshots' = [snapshots EXCEPT ![f] = doc] /\ current' = current \union {f}
            /\ sessions' = [sessions EXCEPT ![f] = [phase |-> "waiting", since |-> at, untold |-> FALSE]]
            /\ sessionDeaths' = sessionDeaths
         \/ /\ snapshots' = snapshots /\ current' = current
            /\ sessions' = [sessions EXCEPT ![f] = [phase |-> "waiting", since |-> at, untold |-> TRUE]]
            /\ sessionDeaths' = sessionDeaths
         \/ /\ snapshots' = snapshots /\ current' = current /\ sessionDeaths' = sessionDeaths + 1
            /\ sessions' = [sessions EXCEPT ![f] = [phase |-> "down", since |-> clock, untold |-> FALSE]]
BY PagesAreKinds DEF WriteSnapshot, AfterTorn, Closed

\* A publication of what is, at a moment no earlier than any told before.
LEMMA PublicationKeeps ==
  ASSUME PageInv, NEW f \in Files, NEW at \in Nat, at <= clock, NEW doc \in Pages(f), doc.asOf = at,
         WriteSnapshot(f, at, doc), clock' = clock, market' = market,
         snapshots[f] # Nothing => snapshots[f].asOf <= at,
         peak' \in Int \union {Nothing}
  PROVE  /\ PageTypes' /\ PagesAreOrdered'
         /\ \A g \in Files : snapshots'[g] = snapshots[g] \/ (g = f /\ snapshots'[g] = doc)
         /\ \A g \in Files : g \in current' => g \in current \/ (g = f /\ snapshots'[g] = doc)
<1> USE DEF PageInv
<1>1. \/ /\ snapshots' = [snapshots EXCEPT ![f] = doc] /\ current' = current \union {f}
         /\ sessions' = [sessions EXCEPT ![f] = [phase |-> "waiting", since |-> at, untold |-> FALSE]]
         /\ sessionDeaths' = sessionDeaths
      \/ /\ snapshots' = snapshots /\ current' = current
         /\ sessions' = [sessions EXCEPT ![f] = [phase |-> "waiting", since |-> at, untold |-> TRUE]]
         /\ sessionDeaths' = sessionDeaths
      \/ /\ snapshots' = snapshots /\ current' = current /\ sessionDeaths' = sessionDeaths + 1
         /\ sessions' = [sessions EXCEPT ![f] = [phase |-> "down", since |-> clock, untold |-> FALSE]]
  BY PublicationEnds
<1>2. [snapshots EXCEPT ![f] = doc] = [g \in Files |-> IF g = f THEN doc ELSE snapshots[g]]
  BY PagesAreKinds
<1>3. sessions' \in [Files -> [phase : {"down", "waiting"}, since : Int, untold : BOOLEAN]]
  <2>1. at \in Int /\ clock \in Int
    BY DEF PageTypes
  <2>2. \E s \in [phase : {"down", "waiting"}, since : Int, untold : BOOLEAN] : sessions' = [sessions EXCEPT ![f] = s]
    BY <1>1, <2>1
  <2> QED BY <2>2 DEF PageTypes
<1>4. \E o \in OptionsPage \union {Nothing}, e \in EquityPage \union {Nothing} :
        snapshots' = [g \in Files |-> IF g = "options" THEN o ELSE e]
  <2>1. CASE snapshots' = snapshots
    BY <2>1 DEF PageTypes
  <2>2. CASE snapshots' = [snapshots EXCEPT ![f] = doc]
    <3>1. snapshots' = [g \in Files |-> IF g = "options" THEN IF f = "options" THEN doc ELSE snapshots["options"]
                                   ELSE IF f = "equity" THEN doc ELSE snapshots["equity"]]
      BY <1>2, <2>2 DEF Files
    <3>2. (IF f = "options" THEN doc ELSE snapshots["options"]) \in OptionsPage \union {Nothing}
      BY PagesAreKinds DEF Pages
    <3>3. (IF f = "equity" THEN doc ELSE snapshots["equity"]) \in EquityPage \union {Nothing}
      BY PagesAreKinds DEF Pages
    <3> QED BY <3>1, <3>2, <3>3
  <2> QED BY <1>1, <2>1, <2>2
<1>5. PageTypes'
  BY <1>1, <1>3, <1>4 DEF PageTypes
<1>6. doc # Nothing
  BY DEF Pages
<1>7. PagesAreOrdered'
  BY <1>1, <1>2, <1>6 DEF PagesAreOrdered, PageTypes
<1>8. \A g \in Files : snapshots'[g] = snapshots[g] \/ (g = f /\ snapshots'[g] = doc)
  <2>1. CASE snapshots' = snapshots
    BY <2>1
  <2>2. CASE snapshots' = [snapshots EXCEPT ![f] = doc]
    BY <1>2, <2>2
  <2> QED BY <1>1, <2>1, <2>2
<1>9. \A g \in Files : g \in current' => g \in current \/ (g = f /\ snapshots'[g] = doc)
  <2>1. CASE current' = current
    BY <2>1
  <2>2. CASE snapshots' = [snapshots EXCEPT ![f] = doc] /\ current' = current \union {f}
    BY <1>2, <2>2
  <2> QED BY <1>1, <2>1, <2>2
<1> QED BY <1>5, <1>7, <1>8, <1>9

\* A page of the options agent is of the marks it has.
LEMMA OptionsPageIsTrue ==
  ASSUME PageTypes, NEW at \in Nat, NEW priced
  PROVE  LET doc == OptionsSnapshot(at, priced) IN
         /\ doc \in OptionsPage /\ doc.asOf = at
         /\ doc.unpriced = {} => doc.positions = market.marks
<1> DEFINE doc == OptionsSnapshot(at, priced)
<1>1. PICK kept \in SUBSET Positions : market.marks \in [kept -> Int]
  BY DEF PageTypes, Marks
<1>2. doc.positions \in [kept -> Int] /\ doc.positions \in Marks
  BY <1>1 DEF OptionsSnapshot, Marks
<1>3. doc.unpriced \subseteq Positions
  BY <1>1 DEF OptionsSnapshot
<1>4. doc \in OptionsPage /\ doc.asOf = at
  BY <1>2, <1>3 DEF OptionsPage, OptionsSnapshot
<1>5. ASSUME doc.unpriced = {}  PROVE doc.positions = market.marks
  <2>1. \A p \in kept : p \in priced
    BY <1>1, <1>5 DEF OptionsSnapshot
  <2> QED BY <1>1, <2>1 DEF OptionsSnapshot
<1> QED BY <1>4, <1>5

\* The account and the sleeves are of the market alone.
LEMMA SleevesStand ==
  ASSUME market' = market
  PROVE  Account' = Account /\ OwnSleeve' = OwnSleeve
BY DEF Account, OwnSleeve, ResidualSleeve, Sleeve, MarksOf, LargerOf

LEMMA MarketMoves ==
  ASSUME PageInv, NEW m \in [marks : Marks, stock : Int, closed : Int, moves : Nat], Moved(m)
  PROVE  PageInv' /\ snapshots' = snapshots
<1>1. market' \in [marks : Marks, stock : Int, closed : Int, moves : Nat]
  BY DEF Moved
<1>2. UNCHANGED <<clock, sessions, snapshots, peak, sessionDeaths>> /\ current' = {}
  BY DEF Moved
<1>3. PageTypes'
  BY <1>1, <1>2 DEF PageInv, PageTypes
<1> QED BY <1>2, <1>3 DEF PageInv, PagesAreOrdered, OptionsAreCurrent, EquityIsCurrent

\* An entry more, or one less, and they are marks still.
LEMMA MarksMove ==
  ASSUME PageTypes, StockMoves \/ MarkMoves \/ PositionOpens \/ PositionCloses
  PROVE  \E m \in [marks : Marks, stock : Int, closed : Int, moves : Nat] : Moved(m)
<1>1. PICK kept \in SUBSET Positions : market.marks \in [kept -> Int]
  BY DEF PageTypes, Marks
<1>2. DOMAIN market.marks = kept
  BY <1>1
<1>3. market \in [marks : Marks, stock : Int, closed : Int, moves : Nat]
  BY DEF PageTypes
<1>4. CASE StockMoves
  BY <1>3, <1>4 DEF StockMoves
<1>5. CASE MarkMoves
  <2>1. PICK p \in kept, by \in {-1, 1} : Moved([market EXCEPT !.marks[p] = @ + by])
    BY <1>2, <1>5 DEF MarkMoves
  <2>2. [market.marks EXCEPT ![p] = @ + by] \in Marks
    BY <1>1 DEF Marks
  <2> QED BY <1>3, <2>1, <2>2
<1>6. CASE PositionOpens
  <2>1. PICK p \in Positions :
          Moved([market EXCEPT !.marks = [q \in DOMAIN @ \cup {p} |-> IF q = p THEN 0 ELSE @[q]]])
    BY <1>6 DEF PositionOpens
  <2> DEFINE more == [q \in DOMAIN market.marks \cup {p} |-> IF q = p THEN 0 ELSE market.marks[q]]
  <2>2. more \in [kept \cup {p} -> Int]
    BY <1>1, <1>2
  <2>3. more \in Marks
    BY <2>2 DEF Marks
  <2> QED BY <1>3, <2>1, <2>3
<1>7. CASE PositionCloses
  <2>1. PICK p \in kept :
          Moved([market EXCEPT !.marks = [q \in DOMAIN @ \ {p} |-> @[q]], !.closed = @ + market.marks[p]])
    BY <1>2, <1>7 DEF PositionCloses
  <2> DEFINE fewer == [q \in DOMAIN market.marks \ {p} |-> market.marks[q]]
  <2>2. fewer \in [kept \ {p} -> Int] /\ market.marks[p] \in Int
    BY <1>1, <1>2
  <2>3. fewer \in Marks
    BY <2>2 DEF Marks
  <2> DEFINE m == [market EXCEPT !.marks = fewer, !.closed = @ + market.marks[p]]
  <2>4. m \in [marks : Marks, stock : Int, closed : Int, moves : Nat]
    <3> HIDE DEF fewer
    <3>1. market.closed + market.marks[p] \in Int
      BY <1>3, <2>2
    <3> QED BY <1>3, <2>3, <3>1
  <2>5. Moved(m)
    BY <2>1
  <2> QED BY <2>4, <2>5
<1> QED BY <1>4, <1>5, <1>6, <1>7

\* A page of one agent, and the other's as it was.
LEMMA OptionsArePublished ==
  ASSUME PageInv, NEW at \in Nat, at <= clock, NEW priced, UNCHANGED <<clock, market, peak>>,
         snapshots["options"] # Nothing => snapshots["options"].asOf <= at,
         WriteSnapshot("options", at, OptionsSnapshot(at, priced))
  PROVE  PageInv' /\ ContactIsKept
<1> DEFINE doc == OptionsSnapshot(at, priced)
<1>1. "options" \in Files /\ "equity" \in Files /\ "options" # "equity"
  BY DEF Files
<1>2. doc \in Pages("options") /\ doc.asOf = at /\ (doc.unpriced = {} => doc.positions = market.marks)
  BY OptionsPageIsTrue DEF Pages, PageInv
<1>3. peak' \in Int \union {Nothing}
  BY DEF PageInv, PageTypes
<1> HIDE DEF doc
<1>4. /\ PageTypes' /\ PagesAreOrdered'
      /\ \A g \in Files : snapshots'[g] = snapshots[g] \/ (g = "options" /\ snapshots'[g] = doc)
      /\ \A g \in Files : g \in current' => g \in current \/ (g = "options" /\ snapshots'[g] = doc)
  BY <1>1, <1>2, <1>3, PublicationKeeps DEF doc
<1>5. snapshots'["equity"] = snapshots["equity"] /\ snapshots'["options"] \in {snapshots["options"], doc} /\ doc # Nothing
  BY <1>1, <1>2, <1>4 DEF Pages
<1>6. OptionsAreCurrent'
  BY <1>1, <1>2, <1>4, <1>5 DEF OptionsAreCurrent, PageInv
<1>7. EquityIsCurrent'
  BY <1>1, <1>4, <1>5, SleevesStand DEF EquityIsCurrent, PageInv, Fall, LargerOf
<1>8. ASSUME NEW f \in Files, snapshots[f] # Nothing  PROVE snapshots'[f] # Nothing /\ snapshots'[f].asOf >= snapshots[f].asOf
  <2>1. snapshots[f].asOf \in Int
    BY <1>8, PagesAreKinds DEF PageInv, Pages, OptionsPage, EquityPage
  <2> QED BY <1>2, <1>4, <1>5, <1>8, <2>1
<1>9. ContactIsKept
  <2>1. \A f \in Files : ReadStatus(f) = snapshots[f]
    BY PagesAreKinds DEF PageInv
  <2>2. \A f \in Files : ReadStatus(f)' = snapshots'[f]
    BY <1>4, PagesStayWhole DEF PagesAreWhole
  <2> QED BY <1>8, <2>1, <2>2 DEF ContactIsKept
<1> QED BY <1>4, <1>6, <1>7, <1>9 DEF PageInv

LEMMA EquityIsPublished ==
  ASSUME PageInv, Heartbeat
  PROVE  PageInv' /\ ContactIsKept
<1> DEFINE doc == EquitySnapshot(clock)
<1>1. "options" \in Files /\ "equity" \in Files /\ "options" # "equity"
  BY DEF Files
<1>2. Account \in Int /\ OwnSleeve \in Int /\ clock \in Nat
  BY SleevesAreInteger DEF PageInv, PageTypes
<1>3. Observed \in Int /\ Observed >= OwnSleeve /\ (peak # Nothing => Observed >= peak)
      /\ (peak # Nothing /\ peak >= OwnSleeve => Observed = peak)
  BY <1>2 DEF Observed, PageInv, PageTypes
<1>4. Fall(Observed, OwnSleeve) \in Int
  BY <1>2, <1>3 DEF Fall, LargerOf
<1>5. doc \in Pages("equity") /\ doc.asOf = clock /\ doc.equity = Account /\ doc.fall = Fall(Observed, OwnSleeve)
  BY <1>1, <1>2, <1>4 DEF EquitySnapshot, Pages, EquityPage
<1>6. snapshots["equity"] # Nothing => snapshots["equity"].asOf <= clock
  BY <1>1 DEF PageInv, PagesAreOrdered
<1>7. peak' = Observed /\ UNCHANGED <<clock, market>> /\ WriteSnapshot("equity", clock, doc)
  BY DEF Heartbeat
<1> HIDE DEF doc
<1>8. /\ PageTypes' /\ PagesAreOrdered'
      /\ \A g \in Files : snapshots'[g] = snapshots[g] \/ (g = "equity" /\ snapshots'[g] = doc)
      /\ \A g \in Files : g \in current' => g \in current \/ (g = "equity" /\ snapshots'[g] = doc)
  BY <1>1, <1>2, <1>3, <1>5, <1>6, <1>7, PublicationKeeps
<1>9. snapshots'["options"] = snapshots["options"] /\ snapshots'["equity"] \in {snapshots["equity"], doc} /\ doc # Nothing /\ Observed # Nothing
  BY <1>1, <1>3, <1>5, <1>8 DEF Pages
<1>10. OptionsAreCurrent'
  BY <1>1, <1>7, <1>8, <1>9 DEF OptionsAreCurrent, PageInv
<1>11. EquityIsCurrent'
  <2>1. Account' = Account /\ OwnSleeve' = OwnSleeve
    BY <1>7, SleevesStand
  <2>2. Fall(peak, OwnSleeve)' = Fall(Observed, OwnSleeve)
    BY <1>7, <2>1 DEF Fall, LargerOf
  <2>3. CASE snapshots'["equity"] = doc
    BY <1>3, <1>5, <1>7, <1>9, <2>1, <2>2, <2>3 DEF EquityIsCurrent
  <2>4. CASE snapshots'["equity"] # doc
    <3>1. snapshots'["equity"] = snapshots["equity"] /\ ("equity" \in current' => "equity" \in current)
      BY <1>1, <1>8, <1>9, <2>4
    <3>2. "equity" \in current => Observed = peak
      BY <1>3 DEF EquityIsCurrent, PageInv
    <3> QED BY <1>3, <1>7, <1>9, <2>1, <2>2, <3>1, <3>2 DEF EquityIsCurrent, PageInv
  <2> QED BY <2>3, <2>4
<1>12. ASSUME NEW f \in Files, snapshots[f] # Nothing  PROVE snapshots'[f] # Nothing /\ snapshots'[f].asOf >= snapshots[f].asOf
  <2>1. snapshots[f].asOf \in Int
    BY <1>12, PagesAreKinds DEF PageInv, Pages, OptionsPage, EquityPage
  <2> QED BY <1>2, <1>5, <1>6, <1>8, <1>9, <1>12, <2>1
<1>13. ContactIsKept
  <2>1. \A f \in Files : ReadStatus(f) = snapshots[f]
    BY PagesAreKinds DEF PageInv
  <2>2. \A f \in Files : ReadStatus(f)' = snapshots'[f]
    BY <1>8, PagesStayWhole DEF PagesAreWhole
  <2> QED BY <1>12, <2>1, <2>2 DEF ContactIsKept
<1> QED BY <1>8, <1>10, <1>11, <1>13 DEF PageInv

\* A step that writes no page keeps what is told.
LEMMA PagesStand ==
  ASSUME PageInv, PageTypes', PagesAreOrdered', UNCHANGED <<market, snapshots, peak, current>>
  PROVE  PageInv' /\ ContactIsKept
<1>1. OptionsAreCurrent' /\ EquityIsCurrent'
  BY SleevesStand DEF OptionsAreCurrent, EquityIsCurrent, PageInv, Fall, LargerOf
<1>2. \A f \in Files : ReadStatus(f) = snapshots[f] /\ ReadStatus(f)' = snapshots[f]
  BY PagesStayWhole DEF PageInv, PagesAreWhole
<1>3. \A f \in Files : snapshots[f] # Nothing => snapshots[f].asOf \in Int
  BY PagesAreKinds DEF PageInv, Pages, OptionsPage, EquityPage
<1> QED BY <1>1, <1>2, <1>3 DEF PageInv, ContactIsKept

LEMMA PageStep == PageInv /\ [PageNext]_dvars => PageInv' /\ ContactIsKept
<1> SUFFICES ASSUME PageInv, [PageNext]_dvars PROVE PageInv' /\ ContactIsKept
  OBVIOUS
<1>1. CASE Tick
  <2>1. PageTypes'
    BY <1>1 DEF Tick, PageInv, PageTypes
  <2>2. PagesAreOrdered'
    <3>1. \A f \in Files : snapshots[f] # Nothing => snapshots[f].asOf \in Int
      BY PagesAreKinds DEF PageInv, Pages, OptionsPage, EquityPage
    <3> QED BY <1>1, <3>1 DEF Tick, PageInv, PagesAreOrdered, PageTypes
  <2> QED BY <1>1, <2>1, <2>2, PagesStand DEF Tick
<1>2. CASE StockMoves \/ MarkMoves \/ PositionOpens \/ PositionCloses
  <2>1. PageInv' /\ snapshots' = snapshots
    BY <1>2, MarksMove, MarketMoves DEF PageInv
  <2>2. \A f \in Files : ReadStatus(f) = snapshots[f] /\ ReadStatus(f)' = snapshots[f]
    BY <2>1, PagesStayWhole DEF PageInv, PagesAreWhole
  <2>3. \A f \in Files : snapshots[f] # Nothing => snapshots[f].asOf \in Int
    BY PagesAreKinds DEF PageInv, Pages, OptionsPage, EquityPage
  <2> QED BY <2>1, <2>2, <2>3 DEF ContactIsKept
<1>3. CASE OneSession
  <2>1. clock \in Nat /\ (snapshots["options"] # Nothing => snapshots["options"].asOf <= clock)
    BY DEF PageInv, PageTypes, PagesAreOrdered, Files
  <2> QED BY <1>3, <2>1, OptionsArePublished DEF OneSession, PublishStartup
<1>4. CASE GatherSlot
  <2> DEFINE slot == Min(Pending)
  <2>1. Pending \subseteq Nat /\ Pending # {}
    BY <1>4 DEF GatherSlot, Pending
  <2>2. slot \in Nat /\ slot > sessions["options"].since
    BY <2>1, LeastNatural DEF Pending
  <2>3. slot <= clock /\ sessions["options"].phase = "waiting" /\ UNCHANGED <<clock, market, peak>>
    BY <1>4 DEF GatherSlot
  <2>4. PICK priced : WriteSnapshot("options", slot, OptionsSnapshot(slot, priced))
    BY <1>4 DEF GatherSlot
  <2>5. snapshots["options"] # Nothing => snapshots["options"].asOf <= slot
    <3>1. snapshots["options"] # Nothing => snapshots["options"].asOf \in Int /\ snapshots["options"].asOf <= sessions["options"].since
      BY PagesAreKinds DEF PageInv, PagesAreOrdered, Files, OptionsPage
    <3>2. sessions["options"].since \in Int
      BY DEF PageInv, PageTypes, Files
    <3> QED BY <2>2, <3>1, <3>2
  <2> HIDE DEF slot
  <2> QED BY <2>2, <2>3, <2>4, <2>5, OptionsArePublished
<1>5. CASE Heartbeat
  BY <1>5, EquityIsPublished
<1>6. CASE EquityRun
  <2>1. clock - 1 \in Int /\ clock \in Int
    BY DEF PageInv, PageTypes
  <2>2. PageTypes'
    <3>1. \E s \in [phase : {"down", "waiting"}, since : Int, untold : BOOLEAN] :
            sessions' = [sessions EXCEPT !["equity"] = s]
      BY <1>6, <2>1 DEF EquityRun
    <3>2. sessions' \in [Files -> [phase : {"down", "waiting"}, since : Int, untold : BOOLEAN]]
      BY <3>1 DEF PageInv, PageTypes
    <3> QED BY <1>6, <3>2 DEF EquityRun, PageInv, PageTypes
  <2>3. PagesAreOrdered'
    BY <1>6, <2>1 DEF EquityRun, PageInv, PagesAreOrdered, PageTypes, Files
  <2> QED BY <1>6, <2>2, <2>3, PagesStand DEF EquityRun
<1>7. ASSUME NEW f \in Files, SessionEnds(f) \/ Die(f)  PROVE PageInv' /\ ContactIsKept
  <2>1. sessions' = [sessions EXCEPT ![f] = [phase |-> "down", since |-> clock, untold |-> FALSE]]
    BY <1>7 DEF SessionEnds, Die, Closed
  <2>2. UNCHANGED <<clock, market, snapshots, peak, current>> /\ sessionDeaths' \in Nat
    BY <1>7 DEF SessionEnds, Die, PageInv, PageTypes
  <2>3. PageTypes'
    BY <2>1, <2>2 DEF PageInv, PageTypes
  <2>4. PagesAreOrdered'
    BY <2>1, <2>2 DEF PageInv, PagesAreOrdered, PageTypes
  <2> QED BY <2>2, <2>3, <2>4, PagesStand
<1>8. CASE UNCHANGED dvars
  BY <1>8, PagesStand DEF dvars, PageInv, PageTypes, PagesAreOrdered
<1> QED BY <1>1, <1>2, <1>3, <1>4, <1>5, <1>6, <1>7, <1>8 DEF PageNext

\* What the page says of each agent and sleeve, of what is on the disk.
LEMMA PagesTell == PageInv => RunningIsTold /\ SleevesAreTold
<1> SUFFICES ASSUME PageInv PROVE RunningIsTold /\ SleevesAreTold
  OBVIOUS
<1>1. \A f \in Files : ReadStatus(f) = snapshots[f] /\ (snapshots[f] # Nothing => snapshots[f].asOf \in Int)
  BY PagesAreKinds DEF PageInv, Pages, OptionsPage, EquityPage
<1>2. ASSUME NEW f \in Files
      PROVE  /\ sessions[f].phase = "waiting" /\ ~sessions[f].untold
                /\ clock - sessions[f].since < StaleAfter(f) => Running(f)
             /\ sessions[f].phase = "down" /\ clock - sessions[f].since >= StaleAfter(f) => ~Running(f)
  <2>1. sessions[f].since \in Int /\ clock \in Int /\ StaleAfter(f) \in Int
    BY DEF PageInv, PageTypes, StaleAfter
  <2>2. ReadStatus(f) = snapshots[f] /\ (snapshots[f] # Nothing => snapshots[f].asOf \in Int)
    BY <1>1
  <2> QED BY <2>1, <2>2 DEF Running, PageInv, PagesAreOrdered
<1>3. RunningIsTold
  BY <1>2 DEF RunningIsTold
<1>4. SleevesAreTold
  <2> DEFINE M == MarksOf(market.marks)
             own == OptionsAllocation + M
             residual == EquityAllocation + market.stock + market.closed
  <2>1. M \in Int /\ market.stock \in Int /\ market.closed \in Int
    BY SleevesAreInteger DEF PageInv, PageTypes
  <2>2. Account = OptionsAllocation + EquityAllocation + M + market.stock + market.closed
    BY DEF Account
  <2>3. ReadStatus("options") = snapshots["options"] /\ ReadStatus("equity") = snapshots["equity"]
    BY <1>1 DEF Files
  <2> SUFFICES ASSUME own >= 0, residual >= 0
               PROVE  /\ Files \subseteq current /\ ReadStatus("options").unpriced = {} =>
                           OptionsSleeveView = own /\ EquitySleeveView = residual /\ own + residual = Account
                      /\ "equity" \in current /\ sessions["equity"].phase = "waiting" =>
                           ReadStatus("equity").fall = Fall(peak, residual)
    BY DEF SleevesAreTold
  <2>4. OwnSleeve = residual
    <3>1. Sleeve(OptionsAllocation, M) = own
      BY <2>1 DEF Sleeve, LargerOf
    <3> HIDE DEF M
    <3> QED BY <2>1, <2>2, <3>1 DEF OwnSleeve, ResidualSleeve, Sleeve, LargerOf, M
  <2>5. ASSUME "equity" \in current  PROVE ReadStatus("equity").fall = Fall(peak, residual)
    BY <2>3, <2>4, <2>5 DEF PageInv, EquityIsCurrent
  <2>6. ASSUME Files \subseteq current, ReadStatus("options").unpriced = {}
        PROVE  OptionsSleeveView = own /\ EquitySleeveView = residual /\ own + residual = Account
    <3>1. snapshots["options"] # Nothing /\ snapshots["options"].positions = market.marks
      BY <2>3, <2>6 DEF PageInv, OptionsAreCurrent, Files
    <3>2. snapshots["equity"] # Nothing /\ snapshots["equity"].equity = Account
      BY <2>6 DEF PageInv, EquityIsCurrent, Files
    <3> HIDE DEF M
    <3>3. OptionsSleeveView = own
      BY <2>1, <2>3, <3>1 DEF OptionsSleeveView, Sleeve, LargerOf, M
    <3>4. own # Nothing
      BY <2>1
    <3>5. EquitySleeveView = ResidualSleeve(Account, own)
      BY <2>3, <3>2, <3>3, <3>4 DEF EquitySleeveView
    <3> QED BY <2>1, <2>2, <3>3, <3>5 DEF ResidualSleeve, Sleeve, LargerOf
  <2> QED BY <2>5, <2>6
<1> QED BY <1>3, <1>4

(***************************************************************************)
(* Through every death, every write that fails and every move of the       *)
(* market: a page never loses an agent it has told, tells one that runs    *)
(* and not one that has stopped, and shows each sleeve as it is, for any   *)
(* positions, slots, allocations and ages at which a page is stale.        *)
(***************************************************************************)
THEOREM PagesTellTheTruth == PageSpec => PagesAreTrue
<1>1. PageInit => PageInv
  BY PageStarts
<1>2. PageInv /\ [PageNext]_dvars => PageInv' /\ ContactIsKept
  BY PageStep
<1>3. PageInv => RunningIsTold /\ SleevesAreTold
  BY PagesTell
<1>4. PageInv' => RunningIsTold' /\ SleevesAreTold'
  BY <1>3, PTL
<1>5. PageInv /\ PageInv' /\ [PageNext]_dvars => [ContactIsKept /\ RunningIsTold' /\ SleevesAreTold']_dvars
  BY <1>2, <1>4
<1> QED BY <1>1, <1>2, <1>5, PTL DEF PageSpec, PagesAreTrue
=============================================================================
