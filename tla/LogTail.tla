------------------------------- MODULE LogTail -------------------------------
(***************************************************************************)
(* The last lines of an app's log, as two parts of the program compute     *)
(* them: logs::execute scans the file backwards byte by byte               *)
(* (src/commands/app_command/logs.rs), get_logs splits it into lines       *)
(* (src/api.rs).                                                           *)
(***************************************************************************)
EXTENDS Naturals, Sequences, FiniteSets

\* A byte is a newline or not. A carriage return before a newline, which
\* str::lines drops as well, is left out.
Byte == {"char", "newline"}

IsNewline(byte) == byte = "newline"

------------------------------------------------------------------------------
\* logs::execute. Its position is that of the bytes before, so that the byte it
\* reads next is the one at this index.

\* Variant: a final newline counts too.
CountsFinal(file, index) == IsNewline(file[index])

\* Every newline but a final one, which begins no line.
Counts(file, index) == IsNewline(file[index]) /\ index < Len(file)

\* line_count when the scan has come back to a position.
LineCount(file, position) ==
  Cardinality({index \in position + 1 .. Len(file) : Counts(file, index)})

\* The scan goes on until it has counted enough or is at the beginning.
GoesOn(file, lines, position) == position > 0 /\ LineCount(file, position) < lines

\* The first position, from the end, that it does not go on from.
Stop(file, lines) ==
  CHOOSE position \in 0 .. Len(file) :
    /\ ~GoesOn(file, lines, position)
    /\ \A later \in position + 1 .. Len(file) : GoesOn(file, lines, later)

Scanned(file, lines) ==
  LET buffer == SubSeq(file, Stop(file, lines) + 1, Len(file)) IN
  IF buffer # << >> /\ IsNewline(Head(buffer)) THEN Tail(buffer) ELSE buffer

------------------------------------------------------------------------------
\* get_logs.

\* Where the lines end: at their newline, the last one perhaps without.
LineEnds(file) ==
  {i \in DOMAIN file : IsNewline(file[i])} \cup (IF file = << >> THEN {} ELSE {Len(file)})

\* How many lines there are after an index that ends one.
LinesAfter(file, index) == Cardinality({end \in LineEnds(file) : end > index})

\* Where the lines before the wanted ones end.
Start(file, lines) ==
  IF Cardinality(LineEnds(file)) > lines
    THEN CHOOSE end \in LineEnds(file) : LinesAfter(file, end) = lines
    ELSE 0

\* A text without the newline that ends it.
Chomp(text) ==
  IF text # << >> /\ IsNewline(text[Len(text)]) THEN SubSeq(text, 1, Len(text) - 1) ELSE text

\* The lines from the first one wanted on, joined with newlines in between.
Joined(file, lines) == Chomp(SubSeq(file, Start(file, lines) + 1, Len(file)))

------------------------------------------------------------------------------
\* That the two agree.

\* An empty first line, which the backwards scan drops with the newline that it
\* takes for the end of the line before the wanted ones.
LosesFirstLine(file, lines) ==
  /\ Len(file) > 1 /\ IsNewline(file[1])
  /\ lines > LineCount(file, 0)

SameTail(file, lines) ==
  LET scanned == Chomp(Scanned(file, lines)) IN
  Joined(file, lines) = IF LosesFirstLine(file, lines) THEN <<"newline">> \o scanned
                                                        ELSE scanned

==============================================================================
