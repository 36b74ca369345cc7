-------------------------------- MODULE MCFront -------------------------------
(***************************************************************************)
(* The proxy in front of the server, and the tail of a log, on small       *)
(* instances.                                                              *)
(***************************************************************************)
EXTENDS Proxy, LogTail

MaxBytes == 5
MaxLines == 4

Files == UNION {[1 .. n -> Byte] : n \in 0 .. MaxBytes}

SameTails == \A file \in Files, lines \in 0 .. MaxLines : SameTail(file, lines)

\* Of an app that is stored - logs::execute knows no others - the backwards scan
\* of logs::execute and the splitting of get_logs show the same last lines,
\* whatever its log is, however many lines are asked for and whether or not the
\* log ends with a newline, but for an empty first line.
TailAgrees == Stored # {} => SameTails

==============================================================================
