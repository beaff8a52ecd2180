---------------------------- MODULE JournalFile -----------------------------
(***************************************************************************)
(* journal/writer.py: one day's file.  append writes a line and flushes; a *)
(* process that dies inside append leaves a piece of a line without its    *)
(* newline, and the next process appends after it.  read folds the lines,  *)
(* amendments in file order, one entry a cycle id.                         *)
(*                                                                         *)
(* A record or an amendment carries one fact (a small number); a record    *)
(* line replaces the entry and an amendment overwrites its fact.  The      *)
(* piece left behind never parses, alone or with what follows it.          *)
(***************************************************************************)
EXTENDS Naturals, Sequences, FiniteSets

CONSTANTS CycleIds, Facts,
          NoFact,       \* what an entry without an amendment says
          MaxLines      \* bound on the lines of a day

VARIABLES
  lines,   \* the lines of the file, a garbled one included
  torn,    \* the file ends in a piece of a line
  wrote,   \* what append has returned for, in order
  deaths   \* the whole lines there were when a process died inside append

fvars == <<lines, torn, wrote, deaths>>

Line == [amendment : {FALSE}, id : CycleIds, fact : {NoFact}]
        \union [amendment : {TRUE}, id : CycleIds, fact : Facts]
Garbled == [amendment |-> FALSE, id |-> "none", fact |-> NoFact]

FileInit == lines = <<>> /\ torn = FALSE /\ wrote = <<>> /\ deaths = {}

\* append, to the end: after a torn tail the two pieces are one line.
AppendLine(l) ==
  /\ Len(lines) < MaxLines
  /\ lines' = Append(lines, IF torn THEN Garbled ELSE l)
  /\ torn' = FALSE
  /\ wrote' = Append(wrote, l)
  /\ UNCHANGED deaths

\* The process dies inside append.
Dies ==
  /\ Len(lines) < MaxLines
  /\ torn' = TRUE
  /\ deaths' = deaths \union {Len(lines)}
  /\ UNCHANGED <<lines, wrote>>

FileNext == Dies \/ \E l \in Line : AppendLine(l)

FileSpec == FileInit /\ [][FileNext]_fvars

(***************************************************************************)
(* read, orphaned_amendments, duplicate_cycles: folds over the lines       *)
(***************************************************************************)
Absent == [written |-> FALSE, fact |-> NoFact, held |-> NoFact]

\* Mutant: an amendment that comes before its record is dropped.
DropsEarly(c) ==
  LET fold[n \in 0..Len(lines)] ==
        IF n = 0 THEN Absent
        ELSE LET l == lines[n] IN
          IF l.id # c THEN fold[n - 1]
          ELSE IF ~l.amendment THEN [written |-> TRUE, fact |-> NoFact, held |-> NoFact]
          ELSE IF fold[n - 1].written THEN [fold[n - 1] EXCEPT !.fact = l.fact]
          ELSE fold[n - 1]
  IN fold[Len(lines)]

\* What read knows of one cycle id: its entry, and the last amendment held for
\* a record that has not come.
ReadOf(c) ==
  LET fold[n \in 0..Len(lines)] ==
        IF n = 0 THEN Absent
        ELSE LET l == lines[n] IN
          IF l.id # c THEN fold[n - 1]
          ELSE IF ~l.amendment THEN [written |-> TRUE, fact |-> fold[n - 1].held, held |-> NoFact]
          ELSE IF fold[n - 1].written THEN [fold[n - 1] EXCEPT !.fact = l.fact]
          ELSE [fold[n - 1] EXCEPT !.held = l.fact]
  IN fold[Len(lines)]

\* orphaned_amendments keeps its own fold: amended so far without a record.
Orphaned(c) ==
  LET fold[n \in 0..Len(lines)] ==
        IF n = 0 THEN [seen |-> FALSE, orphan |-> FALSE]
        ELSE LET l == lines[n] IN
          IF l.id # c THEN fold[n - 1]
          ELSE IF l.amendment THEN [fold[n - 1] EXCEPT !.orphan = @ \/ ~fold[n - 1].seen]
          ELSE [seen |-> TRUE, orphan |-> FALSE]
  IN fold[Len(lines)].orphan

RecordLines(c) == {n \in 1..Len(lines) : lines[n].id = c /\ ~lines[n].amendment}

-----------------------------------------------------------------------------
AmendmentLines(c) == {n \in 1..Len(lines) : lines[n].id = c /\ lines[n].amendment}
LastOf(S) == CHOOSE n \in S : \A m \in S : m <= n

\* read gives the last legible amendment of a cycle recorded once, whatever the
\* order of the record and its amendments ("a later fact beats an earlier one
\* whatever order the originals appear in").
LastFactWins ==
  \A c \in CycleIds :
    RecordLines(c) # {} /\ (\A m, n \in RecordLines(c) : m = n) =>
      ReadOf(c).fact = IF AmendmentLines(c) = {} THEN NoFact
                       ELSE lines[LastOf(AmendmentLines(c))].fact

\* Every legible fact is an entry of the day or reported as an orphan.
NothingIsSilentlyDropped ==
  \A c \in CycleIds :
    /\ ReadOf(c).written <=> RecordLines(c) # {}
    /\ Orphaned(c) <=> AmendmentLines(c) # {} /\ RecordLines(c) = {}

\* What read and orphaned_amendments make of a day together: no fact of it is
\* lost, and none that was overtaken is told.
NoFactIsLost == LastFactWins /\ NothingIsSilentlyDropped

\* What append has returned for is on the disk as it was written, but for the
\* first line after a death, which ends up on the piece the death left; and it
\* is one line of the file, so that no later one is lost with it.
OnlyTheNextIsGarbled ==
  /\ Len(lines) = Len(wrote)
  /\ \A n \in 1..Len(wrote) : lines[n] # wrote[n] => n - 1 \in deaths

\* What a day has come to after any deaths: every legible fact of it is told,
\* and what is not legible is the first line after a death.
JournalSurvives == NoFactIsLost /\ OnlyTheNextIsGarbled

\* "A crash mid-cycle loses at most the current line": a line that append has
\* returned for, which it has flushed, is not lost to a process that died.
CrashLosesTheCurrentLine == \A n \in 1..Len(wrote) : lines[n] = wrote[n]
=============================================================================
