-------------------------------- MODULE Start --------------------------------
(***************************************************************************)
(* start::execute (src/commands/app_command/start.rs), the procedure that  *)
(* turns a row into a process.  The supervisor calls it for the app it is  *)
(* working on, and the HTTP handler start_app calls it as well, without    *)
(* asking the supervisor: calls of several callers interleave at every     *)
(* await, so each await is an action.                                      *)
(***************************************************************************)
EXTENDS Host

CONSTANTS
  Requests,  \* slots for HTTP requests in flight
  Super      \* the supervisor task

ASSUME StartAssumption == Super \notin Requests

Callers == Requests \cup {Super}

VARIABLE call  \* the activation of start::execute that each caller awaits

Call == [pc    : {"idle", "read", "mark", "spawn", "record", "commit", "failed", "done"},
         app   : Names \cup {None},
         row   : App \cup {None},
         child : Pids \cup {None}]

IdleCall == [pc |-> "idle", app |-> None, row |-> None, child |-> None]

StartCall(n) == [IdleCall EXCEPT !.pc = "read", !.app = n]

StartTypeOK == call \in [Callers -> Call]

\* The supervisor waits for the outcome, a child or an error. The HTTP handler
\* answers and forgets: `Ok(_)` drops the Child, which neither kills nor reaps.
Returned(c, pc) == IF c = Super THEN [call[c] EXCEPT !.pc = pc] ELSE IdleCall

Return(c, pc) == call' = [call EXCEPT ![c] = Returned(c, pc)]

Continue(c, pc, row) == call' = [call EXCEPT ![c].pc = pc, ![c].row = row]

------------------------------------------------------------------------------

StartRead(c) ==
  LET app == apps[call[c].app] IN
  /\ call[c].pc = "read"
  /\ IF app # None /\ IsDeployed(app)
       THEN Continue(c, "mark", Started(app))
       ELSE Return(c, "failed")
  /\ UNCHANGED <<storeVars, hostVars>>

StartMark(c) ==
  /\ call[c].pc = "mark"
  /\ Save(call[c].row)
  /\ Continue(c, "spawn", call[c].row)
  /\ UNCHANGED hostVars

StartSpawn(c) ==
  /\ call[c].pc = "spawn"
  /\ \E p \in Pids :
       /\ Spawn(p, call[c].row)
       /\ call' = [call EXCEPT ![c].pc = "record", ![c].child = p]
  /\ UNCHANGED storeVars

\* The log file, the data directory or the exec may fail at any time.
SpawnFails(c) ==
  /\ call[c].pc = "spawn"
  /\ Return(c, "failed")
  /\ UNCHANGED <<storeVars, hostVars>>

StartRecord(c) ==
  /\ call[c].pc = "record"
  /\ InsertRun(call[c].row.id, call[c].child)
  /\ Continue(c, "commit", call[c].row)
  /\ UNCHANGED hostVars

StartCommit(c) ==
  /\ call[c].pc = "commit"
  /\ Save(Running(call[c].row, call[c].child))
  /\ Return(c, "done")
  /\ UNCHANGED hostVars

\* A statement refused by a constraint makes `?` return. A child spawned by
\* then is dropped, and runs on.
StartRefused(c) ==
  /\ \/ call[c].pc = "mark" /\ ~Saveable(call[c].row)
     \/ call[c].pc = "record" /\ ~HasId(call[c].row.id)
     \/ call[c].pc = "commit" /\ ~Saveable(call[c].row)
  /\ Return(c, "failed")
  /\ UNCHANGED <<storeVars, hostVars>>

StartStep(c) ==
  \/ StartRead(c)
  \/ StartMark(c)
  \/ StartSpawn(c)
  \/ SpawnFails(c)
  \/ StartRecord(c)
  \/ StartCommit(c)
  \/ StartRefused(c)

==============================================================================
