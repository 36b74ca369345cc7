------------------------------ MODULE LogFollow ------------------------------
(***************************************************************************)
(* Following an app's log over HTTP: get_logs with follow=true             *)
(* (src/api.rs) turns the lines that the app goes on to write into a       *)
(* stream of events, and handle_request                                    *)
(* (src/commands/server_command/serve.rs) answers the client with it.      *)
(***************************************************************************)
EXTENDS Naturals, Sequences

CONSTANT MaxBytes  \* bound: the length of the log

VARIABLES
  file,   \* the log, which the app's stdout and stderr append to
  follow  \* the request

vars == <<file, follow>>

\* UTF-8: a byte that is a character, a newline, or one of the two bytes of a
\* character, which the app may well write one after the other.
Byte == {"char", "newline", "lead", "trail"}

\* pc is "idle", "reading", "ended" or "answered"; start is where the file ended
\* when it was opened, pos how far it has been read, and sent what the client
\* has got of that.
Idle == [pc |-> "idle", start |-> 0, pos |-> 0, sent |-> 0]

At(pc) == follow.pc = pc

------------------------------------------------------------------------------

Write(byte) ==
  /\ Len(file) < MaxBytes
  /\ file' = Append(file, byte)
  /\ UNCHANGED follow

\* The file is opened and the reader put at its end.
Open ==
  /\ At("idle")
  /\ follow' = [Idle EXCEPT !.pc = "reading", !.start = Len(file), !.pos = Len(file)]
  /\ UNCHANGED file

\* read_line comes back with what there is, up to a newline if there is one.
LineEnd ==
  CHOOSE end \in follow.pos + 1 .. Len(file) :
    /\ end = Len(file) \/ file[end] = "newline"
    /\ \A i \in follow.pos + 1 .. end - 1 : file[i] # "newline"

ValidUtf8(from, to) ==
  \A i \in from .. to :
    /\ file[i] = "lead" => i < to /\ file[i + 1] = "trail"
    /\ file[i] = "trail" => i > from /\ file[i - 1] = "lead"

\* A line becomes an event of the body; an error ends the body.
ReadLine ==
  /\ At("reading")
  /\ follow.pos < Len(file)
  /\ follow' = IF ValidUtf8(follow.pos + 1, LineEnd) THEN [follow EXCEPT !.pos = LineEnd]
                                                     ELSE [follow EXCEPT !.pc = "ended"]
  /\ UNCHANGED file

\* to_bytes waits for the end of the body, and only then is the client answered.
Answer ==
  /\ At("ended")
  /\ follow' = [follow EXCEPT !.pc = "answered", !.sent = follow.pos - follow.start]
  /\ UNCHANGED file

\* The client leaves, with or without an answer.
Leave ==
  /\ At("reading") \/ At("answered")
  /\ follow' = Idle
  /\ UNCHANGED file

Init == file = << >> /\ follow = Idle

Next == (\E byte \in Byte : Write(byte)) \/ Open \/ ReadLine \/ Answer \/ Leave

\* The reader polls every 200 ms. Nobody has to write or to leave.
Fairness == WF_vars(ReadLine) /\ WF_vars(Answer)

FairSpec == Init /\ [][Next]_vars /\ Fairness

------------------------------------------------------------------------------

\* "Follow logs in real time": what the app writes after the request has begun
\* reaches the client while it waits, unless it leaves or is told of an error.
LogReachesClient ==
  \A i \in 1 .. MaxBytes :
    At("reading") /\ follow.start < i /\ i <= Len(file)
      ~> follow.sent >= i - follow.start \/ ~At("reading")

==============================================================================
