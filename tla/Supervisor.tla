----------------------------- MODULE Supervisor ------------------------------
(***************************************************************************)
(* The supervisor task (src/supervisor.rs): one loop that takes a message  *)
(* from a bounded channel or a tick of the health timer and works on it to *)
(* the end before it takes the next.  It alone holds Child handles, in the *)
(* map running_processes.  Every await is an action, because HTTP requests *)
(* change the same rows in between.                                        *)
(***************************************************************************)
EXTENDS Start

CONSTANTS
  Capacity,  \* of the mpsc channel (100 in the code)
  Faults     \* which failures a run admits, see module Server

ASSUME SupervisorAssumption ==
  /\ Capacity \in Nat \ {0}
  /\ Faults \subseteq {"io", "crash", "orphans"}

VARIABLES
  running,  \* running_processes: the child whose handle is held for each app
  queue,    \* the channel
  sup       \* where the task is, and its local variables

\* ProcessExit carries an exit code, the other messages do not.
Message == [kind : {"Start", "Stop", "Restart", "CheckHealth", "ProcessExit"},
            app  : Names,
            code : ExitCode \cup {None}]

SupPc == {"restore", "next", "restoreFail", "idle", "starting", "health", "probe",
          "restart", "startCheck", "stop", "stopMark", "kill", "closeRun", "stopSave",
          "forget", "exit", "exitClose", "exitSave"}

Task == [pc      : SupPc,
         job     : {"boot", "message", "tick"},  \* what the loop is doing
         restart : BOOLEAN,             \* is handle_stop called by handle_restart?
         app     : Names \cup {None},   \* app_name
         row     : App \cup {None},     \* app
         child   : Pids \cup {None},    \* the handle taken out of the map
         code    : ExitCode \cup {None},  \* exit_code of a ProcessExit
         todo    : SUBSET App]          \* rows of get_by_state not yet visited

IdleTask == [pc |-> "idle", job |-> "message", restart |-> FALSE, app |-> None,
             row |-> None, child |-> None, code |-> None, todo |-> {}]

BootTask == [IdleTask EXCEPT !.pc = "restore", !.job = "boot"]

SupervisorTypeOK ==
  /\ running \in [Names -> Pids \cup {None}]
  /\ queue \in Seq(Message)
  /\ Len(queue) <= Capacity
  /\ sup \in Task

supVars == <<running, queue, sup>>

------------------------------------------------------------------------------
\* Steps that change the task alone, and steps that also end the handler.

At(pc) == sup.pc = pc

Goto(pc) == sup' = [sup EXCEPT !.pc = pc]

\* The handler returns, with Ok or Err: to the loop over the listed rows, or to
\* the select!. Its locals go, and with them the handle of a child.
Returns ==
  IF sup.job = "message" THEN IdleTask
  ELSE [IdleTask EXCEPT !.pc = "next", !.job = sup.job, !.todo = sup.todo]

Finish == sup' = Returns

\* handle_stop is done: handle_restart goes on to sleep and handle_start.
AfterStop ==
  IF sup.restart
    THEN [sup EXCEPT !.pc = "startCheck", !.row = None, !.child = None, !.code = None]
    ELSE Returns

CallStart(n) == call' = [call EXCEPT ![Super] = StartCall(n)]

Row == apps[sup.app]

------------------------------------------------------------------------------
\* The loop: restore, receive, tick.

Restore ==
  /\ At("restore")
  /\ sup' = [sup EXCEPT !.pc = "next", !.todo = GetByState("Running")]
  /\ UNCHANGED <<storeVars, hostVars, call, running, queue>>

NextApp ==
  /\ At("next")
  /\ \E row \in sup.todo :
       IF sup.job = "boot"
         THEN /\ sup' = [sup EXCEPT !.pc = "starting", !.app = row.name, !.row = row,
                                    !.todo = @ \ {row}]
              /\ CallStart(row.name)
         ELSE /\ sup' = [sup EXCEPT !.pc = "health", !.app = row.name, !.todo = @ \ {row}]
              /\ UNCHANGED call
  /\ UNCHANGED <<storeVars, hostVars, running, queue>>

LoopEnds ==
  /\ At("next")
  /\ sup.todo = {}
  /\ sup' = IdleTask
  /\ UNCHANGED <<storeVars, hostVars, call, running, queue>>

Handler(kind) ==
  CASE kind = "Start"       -> "startCheck"
    [] kind = "Stop"        -> "stop"
    [] kind = "Restart"     -> "restart"
    [] kind = "CheckHealth" -> "health"
    [] kind = "ProcessExit" -> "exit"

Receive ==
  /\ At("idle")
  /\ queue # << >>
  /\ LET m == Head(queue) IN
       sup' = [sup EXCEPT !.pc = Handler(m.kind), !.app = m.app, !.code = m.code]
  /\ queue' = Tail(queue)
  /\ UNCHANGED <<storeVars, hostVars, call, running>>

\* The 10 s timer, whose first tick is immediate. Apps without a health check
\* are passed over.
Tick ==
  /\ At("idle")
  /\ sup' = [sup EXCEPT !.pc = "next", !.job = "tick",
                        !.todo = {app \in GetByState("Running") : app.health}]
  /\ UNCHANGED <<storeVars, hostVars, call, running, queue>>

------------------------------------------------------------------------------
\* start_process and handle_start.

\* Variant: without the look into the map.
StartUnchecked ==
  /\ At("startCheck")
  /\ IF Row # None THEN Goto("starting") /\ CallStart(sup.app) ELSE Finish /\ UNCHANGED call
  /\ UNCHANGED <<storeVars, hostVars, running, queue>>

StartCheck ==
  /\ At("startCheck")
  /\ IF Row # None /\ running[sup.app] = None
       THEN Goto("starting") /\ CallStart(sup.app)
       ELSE Finish /\ UNCHANGED call
  /\ UNCHANGED <<storeVars, hostVars, running, queue>>

StartDone ==
  /\ At("starting")
  /\ call[Super].pc = "done"
  /\ running' = [running EXCEPT ![sup.app] = call[Super].child]
  /\ call' = [call EXCEPT ![Super] = IdleCall]
  /\ Finish
  /\ UNCHANGED <<storeVars, hostVars, queue>>

StartFailed ==
  /\ At("starting")
  /\ call[Super].pc = "failed"
  /\ call' = [call EXCEPT ![Super] = IdleCall]
  /\ IF sup.job = "boot" THEN Goto("restoreFail") ELSE Finish
  /\ UNCHANGED <<storeVars, hostVars, running, queue>>

\* restore_running_apps writes the row it listed, with the new state; a
\* refusal is only logged.
\* Variant: the listed copy is written back as it was.
RestoreFailStale ==
  /\ At("restoreFail")
  /\ IF Saveable(sup.row) THEN Save(sup.row) ELSE UNCHANGED storeVars
  /\ Finish
  /\ UNCHANGED <<hostVars, call, running, queue>>

RestoreFail ==
  LET row == InState(sup.row, "Failed") IN
  /\ At("restoreFail")
  /\ IF Saveable(row) THEN Save(row) ELSE UNCHANGED storeVars
  /\ Finish
  /\ UNCHANGED <<hostVars, call, running, queue>>

------------------------------------------------------------------------------
\* handle_stop.

\* Variant: the handle is looked up and stays in the map.
LeaveChild == UNCHANGED running

TakeChild == running' = [running EXCEPT ![sup.app] = None]

\* Variant: the history is updated although there is no child to stop.
StopReadClosing ==
  /\ At("stop")
  /\ IF Row = None
       THEN Finish /\ UNCHANGED running
       ELSE /\ TakeChild
            /\ sup' = [sup EXCEPT !.pc = IF running[sup.app] # None THEN "stopMark" ELSE "closeRun",
                                  !.row = Row, !.child = running[sup.app]]
  /\ UNCHANGED <<storeVars, hostVars, call, queue>>

StopRead ==
  /\ At("stop")
  /\ IF Row = None
       THEN Finish /\ UNCHANGED running
       ELSE /\ TakeChild
            /\ sup' = [sup EXCEPT !.pc = IF running[sup.app] # None THEN "stopMark" ELSE "forget",
                                  !.row = Row, !.child = running[sup.app]]
  /\ UNCHANGED <<storeVars, hostVars, call, queue>>

\* Variant: the row is saved and the process is not killed.
StopMarkOnly ==
  /\ At("stopMark")
  /\ Saveable(InState(sup.row, "Stopping"))
  /\ Save(InState(sup.row, "Stopping"))
  /\ Goto("closeRun")
  /\ UNCHANGED <<hostVars, call, running, queue>>

\* A refused save returns here: the handle is dropped and the child lives on.
StopMark ==
  /\ At("stopMark")
  /\ LET row == InState(sup.row, "Stopping") IN
       IF Saveable(row)
         THEN Save(row) /\ sup' = [sup EXCEPT !.pc = "kill", !.row = row]
         ELSE UNCHANGED storeVars /\ Finish
  /\ UNCHANGED <<hostVars, call, running, queue>>

\* Variant: whatever runs the app's binary is killed.
KillByName ==
  /\ At("kill")
  /\ proc' = [p \in Pids |-> IF p \in LiveOf(sup.app) \cup {sup.child}
                               THEN [proc[p] EXCEPT !.st = "reaped", !.code = None] ELSE proc[p]]
  /\ sup' = [sup EXCEPT !.pc = "closeRun", !.code = proc[sup.child].code]
  /\ UNCHANGED <<storeVars, disk, call, running, queue>>

Kill ==
  /\ At("kill")
  /\ Reap(sup.child)
  /\ sup' = [sup EXCEPT !.pc = "closeRun", !.code = proc[sup.child].code]
  /\ UNCHANGED <<storeVars, call, running, queue>>

CloseRun ==
  /\ At("closeRun")
  /\ CloseLatestRun(sup.row.id, "Stopped by user")
  /\ Goto("stopSave")
  /\ UNCHANGED <<hostVars, call, running, queue>>

\* The last write of handle_stop, on either branch.
StopSave ==
  /\ At("stopSave") \/ At("forget")
  /\ LET row == IF At("stopSave") THEN Stopped(sup.row, sup.code) ELSE Forgotten(sup.row) IN
       IF Saveable(row)
         THEN Save(row) /\ sup' = AfterStop
         ELSE UNCHANGED storeVars /\ Finish
  /\ UNCHANGED <<hostVars, call, running, queue>>

\* Variant: a restart that does not stop first.
RestartWithoutStop ==
  /\ At("restart")
  /\ IF Row = None THEN Finish ELSE sup' = [sup EXCEPT !.pc = "startCheck", !.restart = TRUE]
  /\ UNCHANGED <<storeVars, hostVars, call, running, queue>>

\* handle_restart. Its sleep of 1 s adds no state: "startCheck" waits as long
\* as it likes.
RestartRead ==
  /\ At("restart")
  /\ IF Row = None
       THEN Finish
       ELSE sup' = [sup EXCEPT !.pc = IF IsRunning(Row) THEN "stop" ELSE "startCheck",
                               !.restart = TRUE]
  /\ UNCHANGED <<storeVars, hostVars, call, running, queue>>

------------------------------------------------------------------------------
\* handle_health_check. An error ends a CheckHealth message, and makes
\* run_health_checks call handle_restart.

\* Variant: a failed check is only logged.
UnhealthyLogged == Finish

Unhealthy ==
  IF sup.job = "tick" THEN sup' = [sup EXCEPT !.pc = "restart", !.row = None] ELSE Finish

Checked(row) == row # None /\ IsRunning(row) /\ row.health

HealthRead ==
  /\ At("health")
  /\ \/ Row # None /\ ~Checked(Row) /\ Finish
     \/ (Checked(Row) => running[sup.app] = None) /\ (Row = None \/ Checked(Row)) /\ Unhealthy
     \/ /\ Checked(Row)
        /\ running[sup.app] # None
        /\ sup' = [sup EXCEPT !.pc = "probe", !.row = Row]
  /\ UNCHANGED <<storeVars, hostVars, call, running, queue>>

\* GET app.url(): whoever listens on the port may answer with the expected
\* status.
ProbePasses ==
  /\ At("probe")
  /\ Answers(sup.row.port)
  /\ Finish
  /\ UNCHANGED <<storeVars, hostVars, call, running, queue>>

\* Variant: the supervisor asks itself for the restart, through its own channel,
\* and tries again as long as that is full.
ProbeFailsSending ==
  /\ At("probe")
  /\ IF sup.job # "tick" \/ Len(queue) < Capacity THEN Finish ELSE UNCHANGED sup
  /\ queue' = IF sup.job = "tick" /\ Len(queue) < Capacity
                THEN Append(queue, [kind |-> "Restart", app |-> sup.app, code |-> None])
                ELSE queue
  /\ UNCHANGED <<storeVars, hostVars, call, running>>

\* A refused connection, a wrong status or a timeout.
ProbeFails ==
  /\ At("probe")
  /\ Unhealthy
  /\ UNCHANGED <<storeVars, hostVars, call, running, queue>>

------------------------------------------------------------------------------
\* handle_process_exit.

\* Variant: the handle of the process that ended stays in the map.
ExitReadKeeping ==
  /\ At("exit")
  /\ IF Row = None
       THEN Finish
       ELSE sup' = [sup EXCEPT !.pc = "exitClose", !.row = Exited(Row, sup.code)]
  /\ UNCHANGED <<storeVars, hostVars, call, running, queue>>

ExitRead ==
  /\ At("exit")
  /\ IF Row = None
       THEN Finish /\ UNCHANGED running
       ELSE /\ TakeChild
            /\ sup' = [sup EXCEPT !.pc = "exitClose", !.row = Exited(Row, sup.code)]
  /\ UNCHANGED <<storeVars, hostVars, call, queue>>

ExitClose ==
  /\ At("exitClose")
  /\ CloseLatestRun(sup.row.id, IF sup.code = 0 THEN "Clean exit" ELSE "Crashed")
  /\ Goto("exitSave")
  /\ UNCHANGED <<hostVars, call, running, queue>>

\* What becomes of the app whose process has ended.
AfterExit(row) ==
  CASE ShouldRestart(row) /\ ReachedMaxRestarts(row)  -> InState(row, "Crashed")
    [] ShouldRestart(row) /\ ~ReachedMaxRestarts(row) -> Retried(row)
    [] ~ShouldRestart(row) -> InState(row, IF row.code = 0 THEN "Stopped" ELSE "Failed")

\* The backoff before start_process adds no state either.
ExitSave ==
  /\ At("exitSave")
  /\ LET row == AfterExit(sup.row) IN
       IF Saveable(row)
         THEN /\ Save(row)
              /\ IF row.state = "Restarting"
                   THEN Goto("starting") /\ CallStart(sup.app)
                   ELSE Finish /\ UNCHANGED call
         ELSE UNCHANGED <<storeVars, call>> /\ Finish
  /\ UNCHANGED <<hostVars, running, queue>>

------------------------------------------------------------------------------

\* A statement of the supervisor fails, for instance because the database is
\* locked, or a child can be neither killed nor waited for: `?` returns from
\* the handler, or from start::execute, wherever it is.
StatementFails ==
  /\ "io" \in Faults
  /\ \/ /\ sup.pc \in {"restart", "startCheck", "stop", "stopMark", "kill", "closeRun",
                       "stopSave", "forget", "restoreFail", "exit", "exitClose", "exitSave"}
        /\ Finish
        /\ UNCHANGED call
     \/ At("health") /\ Unhealthy /\ UNCHANGED call
     \/ At("restore") /\ sup' = IdleTask /\ UNCHANGED call
     \/ /\ At("starting")
        /\ call[Super].pc \in {"read", "mark", "record", "commit"}
        /\ Return(Super, "failed")
        /\ UNCHANGED sup
  /\ UNCHANGED <<storeVars, hostVars, running, queue>>

\* What the task does once it is working on something.
Work ==
  \/ Restore
  \/ NextApp
  \/ LoopEnds
  \/ StartCheck
  \/ StartDone
  \/ StartFailed
  \/ RestoreFail
  \/ StopRead
  \/ StopMark
  \/ Kill
  \/ CloseRun
  \/ StopSave
  \/ RestartRead
  \/ HealthRead
  \/ ProbePasses
  \/ ProbeFails
  \/ ExitRead
  \/ ExitClose
  \/ ExitSave

==============================================================================
