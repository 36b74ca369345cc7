---------------------------- MODULE ServerProofs -----------------------------
(***************************************************************************)
(* Proofs about the server, for every value of the constants: the          *)
(* invariant Inv of module Properties, and what follows from it.  The      *)
(* lemmas go through one part of the program at a time - rows, statements, *)
(* processes, activations of start::execute, the supervisor task, requests *)
(* - and NextKeepsInv puts them together.                                  *)
(***************************************************************************)
EXTENDS Properties, SequenceTheorems, TLAPS

USE DEF Ids, Pids

\* What create inserts is a row.
LEMMA NewAppIsApp ==
  ASSUME NEW id \in Ids, NEW n \in Names, NEW port \in Ports
  PROVE  NewApp(id, n, port) \in App
  BY AppModelAssumption DEF NewApp, App, AppState, RestartPolicy, ExitCode

\* Every operator that changes a row in memory yields a row, so that no handler
\* ever writes back something else.
LEMMA RowsStayRows ==
  ASSUME NEW app \in App
  PROVE  /\ \A state \in AppState : InState(app, state) \in App
         /\ \A hash \in Hashes : Deployed(app, hash) \in App
         /\ Started(app) \in App
         /\ \A pid \in Pids : Running(app, pid) \in App
         /\ \A code \in ExitCode \cup {None} : Stopped(app, code) \in App
         /\ Forgotten(app) \in App
         /\ \A code \in ExitCode \cup {None} : Exited(app, code) \in App
         /\ AfterExit(app) \in App
  <1>1. \A state \in AppState : InState(app, state) \in App
    BY DEF InState, App
  <1>2. \A hash \in Hashes : Deployed(app, hash) \in App
    BY DEF Deployed, App, AppState
  <1>3. Started(app) \in App
    BY <1>1 DEF Started, AppState
  <1>4. \A pid \in Pids : Running(app, pid) \in App
    BY DEF Running, App, AppState
  <1>5. \A code \in ExitCode \cup {None} : Stopped(app, code) \in App
    BY DEF Stopped, App, AppState
  <1>6. Forgotten(app) \in App
    BY DEF Forgotten, App, AppState
  <1>7. \A code \in ExitCode \cup {None} : Exited(app, code) \in App
    BY DEF Exited, App
  <1>8. AfterExit(app) \in App
    <2>1. app.count + 1 \in Nat
      BY DEF App
    <2>2. Retried(app) \in App
      BY <2>1 DEF Retried, App, AppState
    <2> QED BY <1>1, <2>2 DEF AfterExit, AppState
  <1> QED BY <1>1, <1>2, <1>3, <1>4, <1>5, <1>6, <1>7, <1>8

\* An upsert keeps the tables well formed and each row under its name.
LEMMA SaveKeeps ==
  ASSUME StoreTypeOK, Rooted, NEW app \in App, Save(app)
  PROVE  /\ StoreTypeOK'
         /\ \A n \in Names : apps'[n] # None => apps'[n].name = n
  <1>1. app.name \in Names
    BY DEF App
  <1> QED BY <1>1 DEF StoreTypeOK, Rooted, Save

\* A new run extends the history of one app.
LEMMA InsertRunKeeps ==
  ASSUME StoreTypeOK, NEW id \in Ids, NEW pid \in Pids, InsertRun(id, pid)
  PROVE  StoreTypeOK'
  <1>1. [pid |-> pid, reason |-> None] \in Run
    BY DEF Run
  <1>2. Append(history[id], [pid |-> pid, reason |-> None]) \in Seq(Run)
    BY <1>1 DEF StoreTypeOK
  <1> QED BY <1>2 DEF StoreTypeOK, InsertRun

\* update_process_history keeps the history a sequence of runs, also when it
\* finds none.
LEMMA CloseKeeps ==
  ASSUME StoreTypeOK, NEW id \in Ids, NEW reason \in ExitReason, CloseLatestRun(id, reason)
  PROVE  StoreTypeOK'
  <1> DEFINE runs == history[id]
             closed == ClosedRun(runs, Len(runs), reason)
  <1>1. runs \in Seq(Run)
    BY DEF StoreTypeOK
  <1>2. closed \in Seq(Run)
    <2>1. CASE runs = << >>
      BY <1>1, <2>1 DEF ClosedRun
    <2>2. CASE runs # << >>
      <3>1. Len(runs) \in 1 .. Len(runs)
        BY <1>1, <2>2, EmptySeq
      <3>2. runs[Len(runs)] \in Run
        BY <1>1, <3>1
      <3>3. [runs[Len(runs)] EXCEPT !.reason = reason] \in Run
        BY <3>2 DEF Run
      <3>4. closed = [runs EXCEPT ![Len(runs)] = [runs[Len(runs)] EXCEPT !.reason = reason]]
        BY <2>2 DEF ClosedRun
      <3> QED BY <1>1, <3>1, <3>3, <3>4, ExceptSeq
    <2> QED BY <2>1, <2>2
  <1> QED BY <1>2 DEF StoreTypeOK, CloseLatestRun

\* Deleting runs or an app removes rows and changes none.
LEMMA DeletesKeep ==
  ASSUME StoreTypeOK, NEW id \in Ids, DeleteRuns(id) \/ DeleteApp(id)
  PROVE  /\ StoreTypeOK'
         /\ \A n \in Names : apps'[n] # None => apps'[n] = apps[n]
  <1>1. CASE DeleteRuns(id)
    <2>1. << >> \in Seq(Run)
      OBVIOUS
    <2> QED BY <1>1, <2>1 DEF StoreTypeOK, DeleteRuns
  <1>2. CASE DeleteApp(id)
    BY <1>2 DEF StoreTypeOK, DeleteApp
  <1> QED BY <1>1, <1>2

------------------------------------------------------------------------------
\* Processes are never forgotten, and keep their type.

ProcKept == \A p \in Pids : proc[p] # None => proc'[p] # None

\* Nothing happens to a machine that is left alone.
LEMMA HostUnchanged ==
  ASSUME HostTypeOK, UNCHANGED hostVars
  PROVE  HostTypeOK' /\ ProcKept
  BY DEF HostTypeOK, ProcKept, hostVars

\* Spawning adds one process.
LEMMA SpawnKeeps ==
  ASSUME HostTypeOK, NEW p \in Pids, NEW app \in App, Spawn(p, app)
  PROVE  HostTypeOK' /\ ProcKept /\ proc'[p] # None
  <1> DEFINE new == [st |-> "booting", app |-> app.name, port |-> ListenPort(app),
                     bin |-> disk[app.name], code |-> None]
  <1>1. new \in Process
    <2>1. ListenPort(app) \in Ports \cup Overrides
      BY DEF ListenPort, App
    <2> QED BY <2>1 DEF Process, App, HostTypeOK, Spawn
  <1>2. new # None
    BY <1>1, NoneIsNoProcess
  <1> QED BY <1>1, <1>2 DEF Spawn, HostTypeOK, ProcKept

\* Reaping leaves a record of the process.
LEMMA ReapKeeps ==
  ASSUME HostTypeOK, NEW p \in Pids, proc[p] # None, Reap(p)
  PROVE  HostTypeOK' /\ ProcKept
  <1>1. [[proc[p] EXCEPT !.st = "reaped"] EXCEPT !.code = None] \in Process
    BY DEF HostTypeOK, Process
  <1>2. proc' = [proc EXCEPT ![p] = [[proc[p] EXCEPT !.st = "reaped"] EXCEPT !.code = None]]
    BY DEF Reap, HostTypeOK
  <1> QED BY <1>1, <1>2, NoneIsNoProcess DEF HostTypeOK, Reap, ProcKept

\* So does listening, ...
LEMMA ListenKeeps ==
  ASSUME HostTypeOK, NEW p \in Pids, Listen(p)
  PROVE  HostTypeOK' /\ ProcKept
  <1>1. [proc[p] EXCEPT !.st = "serving"] \in Process
    BY DEF HostTypeOK, Process, Listen
  <1> QED BY <1>1, NoneIsNoProcess DEF HostTypeOK, Listen, ProcKept

\* ... and exiting.
LEMMA ExitKeeps ==
  ASSUME HostTypeOK, NEW p \in Pids, NEW code \in ExitCode, Exit(p, code)
  PROVE  HostTypeOK' /\ ProcKept
  <1>1. [[proc[p] EXCEPT !.st = "exited"] EXCEPT !.code = code] \in Process
    BY DEF HostTypeOK, Process, Exit, Live
  <1>2. proc' = [proc EXCEPT ![p] = [[proc[p] EXCEPT !.st = "exited"] EXCEPT !.code = code]]
    BY DEF Exit, HostTypeOK
  <1> QED BY <1>1, <1>2, NoneIsNoProcess DEF HostTypeOK, Exit, ProcKept

\* Writing a binary or removing a directory touches no process.
LEMMA DiskWritesKeep ==
  ASSUME HostTypeOK, NEW n \in Names,
         RemoveDir(n) \/ \E hash \in Hashes : WriteBinary(n, hash)
  PROVE  HostTypeOK' /\ ProcKept
  BY DEF HostTypeOK, RemoveDir, WriteBinary, ProcKept

------------------------------------------------------------------------------
\* Activations of start::execute.

\* An activation stays ready while others work.
LEMMA CallsUnchanged ==
  ASSUME StartTypeOK, CallsReady, ProcKept, UNCHANGED call
  PROVE  StartTypeOK' /\ CallsReady'
  BY DEF StartTypeOK, CallsReady, ProcKept

\* A caller that has no activation needs nothing.
LEMMA CallResets ==
  ASSUME StartTypeOK, CallsReady, ProcKept, NEW c \in Callers,
         call' = [call EXCEPT ![c] = IdleCall]
  PROVE  StartTypeOK' /\ CallsReady'
  BY DEF StartTypeOK, CallsReady, ProcKept, Call, IdleCall

\* A new activation knows its app.
LEMMA CallBegins ==
  ASSUME StartTypeOK, CallsReady, ProcKept, NEW c \in Callers, NEW n \in Names,
         call' = [call EXCEPT ![c] = StartCall(n)]
  PROVE  StartTypeOK' /\ CallsReady'
  <1>1. StartCall(n) \in Call
    BY DEF StartCall, IdleCall, Call
  <1>2. StartCall(n).pc = "read" /\ StartCall(n).app = n
    BY DEF StartCall, IdleCall
  <1> QED BY <1>1, <1>2 DEF StartTypeOK, CallsReady, ProcKept

\* start::execute returns: a child goes with "done", nothing with "failed".
LEMMA CallReturns ==
  ASSUME StartTypeOK, CallsReady, ProcKept, NEW c \in Callers, call[c].pc # "idle",
         NEW pc \in {"failed", "done"},
         pc = "done" => call[c].child \in Pids /\ proc[call[c].child] # None,
         Return(c, pc)
  PROVE  StartTypeOK' /\ CallsReady'
  <1>1. CASE c # Super
    BY <1>1, CallResets DEF Return, Returned
  <1>2. CASE c = Super
    <2> DEFINE new == [call[c] EXCEPT !.pc = pc]
    <2>1. new \in Call /\ new.pc = pc /\ new.app = call[c].app /\ new.child = call[c].child
      BY DEF StartTypeOK, Call
    <2>2. call' = [call EXCEPT ![c] = new]
      BY <1>2 DEF Return, Returned
    <2> QED BY <2>1, <2>2 DEF StartTypeOK, CallsReady, ProcKept
  <1> QED BY <1>1, <1>2

\* start::execute goes on with the row it has read.
LEMMA CallContinues ==
  ASSUME StartTypeOK, CallsReady, ProcKept, NEW c \in Callers, call[c].pc # "idle",
         NEW pc \in {"mark", "spawn", "record", "commit"}, NEW row \in App,
         pc \in {"record", "commit"} => call[c].child \in Pids /\ proc[call[c].child] # None,
         Continue(c, pc, row)
  PROVE  StartTypeOK' /\ CallsReady'
  <1> DEFINE new == [[call[c] EXCEPT !.pc = pc] EXCEPT !.row = row]
  <1>1. new \in Call /\ new.pc = pc /\ new.row = row /\ new.app = call[c].app
        /\ new.child = call[c].child
    BY DEF StartTypeOK, Call
  <1>2. call' = [call EXCEPT ![c] = new]
    BY DEF Continue, StartTypeOK
  <1> QED BY <1>1, <1>2 DEF StartTypeOK, CallsReady, ProcKept

\* What a step of start::execute leaves alone, and what it keeps.
LEMMA StartStepKeeps ==
  ASSUME StoreTypeOK, HostTypeOK, StartTypeOK, CallsReady, Rooted,
         NEW c \in Callers, StartStep(c)
  PROVE  /\ StoreTypeOK' /\ HostTypeOK' /\ StartTypeOK' /\ CallsReady'
         /\ ProcKept
         /\ \A n \in Names : apps'[n] # None => apps'[n].name = n
  <1> DEFINE Named == \A n \in Names : apps'[n] # None => apps'[n].name = n
  <1>1. ASSUME UNCHANGED storeVars PROVE StoreTypeOK' /\ Named
    BY <1>1 DEF StoreTypeOK, Rooted, storeVars
  <1>2. call[c].pc # "idle" /\ call[c].app \in Names
    BY DEF StartStep, StartRead, StartMark, StartSpawn, SpawnFails, StartRecord, StartCommit,
           StartRefused, CallsReady
  <1>3. CASE StartRead(c)
    <2>1. UNCHANGED storeVars /\ HostTypeOK' /\ ProcKept
      BY <1>3, HostUnchanged DEF StartRead
    <2>2. CASE Return(c, "failed")
      BY <2>1, <2>2, <1>1, <1>2, CallReturns
    <2>3. CASE apps[call[c].app] # None /\ Continue(c, "mark", Started(apps[call[c].app]))
      <3>1. Started(apps[call[c].app]) \in App
        BY <2>3, <1>2, RowsStayRows DEF StoreTypeOK
      <3> QED BY <2>1, <2>3, <3>1, <1>1, <1>2, CallContinues
    <2> QED BY <1>3, <2>2, <2>3 DEF StartRead
  <1>4. CASE StartMark(c)
    <2>1. call[c].row \in App
      BY <1>4 DEF StartMark, CallsReady
    <2>2. HostTypeOK' /\ ProcKept
      BY <1>4, HostUnchanged DEF StartMark
    <2>3. StoreTypeOK' /\ Named
      BY <1>4, <2>1, SaveKeeps DEF StartMark
    <2> QED BY <1>2, <1>4, <2>1, <2>2, <2>3, CallContinues DEF StartMark
  <1>5. CASE StartSpawn(c)
    <2>1. call[c].row \in App
      BY <1>5 DEF StartSpawn, CallsReady
    <2>2. PICK p \in Pids : /\ Spawn(p, call[c].row)
                            /\ call' = [call EXCEPT ![c].pc = "record", ![c].child = p]
      BY <1>5 DEF StartSpawn
    <2>3. HostTypeOK' /\ ProcKept /\ proc'[p] # None
      BY <2>1, <2>2, SpawnKeeps
    <2> DEFINE new == [[call[c] EXCEPT !.pc = "record"] EXCEPT !.child = p]
    <2>4. new \in Call /\ new.pc = "record" /\ new.row = call[c].row /\ new.app = call[c].app
          /\ new.child = p
      BY DEF StartTypeOK, Call
    <2>5. call' = [call EXCEPT ![c] = new]
      BY <2>2 DEF StartTypeOK
    <2>6. StartTypeOK' /\ CallsReady'
      BY <2>1, <2>3, <2>4, <2>5, <1>2 DEF StartTypeOK, CallsReady, ProcKept
    <2> QED BY <1>1, <1>5, <2>3, <2>6 DEF StartSpawn
  <1>6. CASE SpawnFails(c)
    BY <1>1, <1>2, <1>6, HostUnchanged, CallReturns DEF SpawnFails
  <1>7. CASE StartRecord(c)
    <2>1. call[c].row \in App /\ call[c].child \in Pids /\ proc[call[c].child] # None
      BY <1>7 DEF StartRecord, CallsReady
    <2>2. call[c].row.id \in Ids
      BY <2>1 DEF App
    <2>3. HostTypeOK' /\ ProcKept
      BY <1>7, HostUnchanged DEF StartRecord
    <2>4. StoreTypeOK' /\ Named
      BY <1>7, <2>1, <2>2, InsertRunKeeps DEF StartRecord, InsertRun, Rooted
    <2> QED BY <1>2, <1>7, <2>1, <2>3, <2>4, CallContinues DEF StartRecord
  <1>8. CASE StartCommit(c)
    <2>1. call[c].row \in App /\ call[c].child \in Pids /\ proc[call[c].child] # None
      BY <1>8 DEF StartCommit, CallsReady
    <2>2. Running(call[c].row, call[c].child) \in App
      BY <2>1, RowsStayRows
    <2>3. HostTypeOK' /\ ProcKept
      BY <1>8, HostUnchanged DEF StartCommit
    <2>4. StoreTypeOK' /\ Named
      BY <1>8, <2>2, SaveKeeps DEF StartCommit
    <2> QED BY <1>2, <1>8, <2>1, <2>3, <2>4, CallReturns DEF StartCommit
  <1>9. CASE StartRefused(c)
    BY <1>1, <1>2, <1>9, HostUnchanged, CallReturns DEF StartRefused
  <1> QED BY <1>3, <1>4, <1>5, <1>6, <1>7, <1>8, <1>9 DEF StartStep

------------------------------------------------------------------------------
\* The supervisor task.

SupervisorStep == Work \/ Receive \/ Tick \/ StatementFails

\* A handler that returns leaves the task idle, or in the loop over the rows
\* it has still to visit.
LEMMA FinishType ==
  ASSUME SupervisorTypeOK, Finish
  PROVE  /\ sup' \in Task
         /\ sup'.pc \in {"idle", "next"}
         /\ sup'.job = sup.job
         /\ sup'.job = "boot" => sup'.pc = "next"
         /\ sup'.todo \subseteq sup.todo
         /\ TaskReady'
  BY DEF SupervisorTypeOK, Finish, Returns, Task, IdleTask, SupPc, TaskReady

\* Of all its steps only the kill changes a process, and it has one to kill.
LEMMA SupervisorKeepsHost ==
  ASSUME HostTypeOK, SupervisorTypeOK, TaskReady, SupervisorStep
  PROVE  HostTypeOK' /\ ProcKept
  <1>1. CASE Kill
    BY <1>1, ReapKeeps DEF Kill, At, TaskReady
  <1>2. CASE UNCHANGED hostVars
    BY <1>2, HostUnchanged
  <1> QED BY <1>1, <1>2 DEF SupervisorStep, Work, Receive, Tick, StatementFails, Restore,
        NextApp, LoopEnds, StartCheck, StartDone, StartFailed, RestoreFail, StopRead, StopMark,
        CloseRun, StopSave, RestartRead, HealthRead, ProbePasses, ProbeFails, ExitRead,
        ExitClose, ExitSave

\* All that the task writes back are rows.
LEMMA SupervisorKeepsStore ==
  ASSUME StoreTypeOK, SupervisorTypeOK, TaskReady, Rooted, SupervisorStep
  PROVE  /\ StoreTypeOK'
         /\ \A n \in Names : apps'[n] # None => apps'[n].name = n
  <1> DEFINE Named == \A n \in Names : apps'[n] # None => apps'[n].name = n
  <1>1. CASE UNCHANGED storeVars
    BY <1>1 DEF StoreTypeOK, Rooted, storeVars
  <1>2. CASE RestoreFail
    <2>1. InState(sup.row, "Failed") \in App
      BY <1>2, RowsStayRows DEF RestoreFail, At, TaskReady, AppState
    <2> QED BY <1>1, <1>2, <2>1, SaveKeeps DEF RestoreFail
  <1>3. CASE StopMark
    <2>1. InState(sup.row, "Stopping") \in App
      BY <1>3, RowsStayRows DEF StopMark, At, TaskReady, AppState
    <2> QED BY <1>1, <1>3, <2>1, SaveKeeps DEF StopMark
  <1>4. CASE CloseRun \/ ExitClose
    <2>1. sup.row.id \in Ids
      BY <1>4 DEF CloseRun, ExitClose, At, TaskReady, App
    <2>2. StoreTypeOK' /\ UNCHANGED apps
      BY <1>4, <2>1, CloseKeeps DEF CloseRun, ExitClose, ExitReason, CloseLatestRun
    <2> QED BY <2>2 DEF Rooted
  <1>5. CASE StopSave
    <2>1. sup.row \in App /\ sup.code \in ExitCode \cup {None}
      BY <1>5 DEF StopSave, At, TaskReady, SupervisorTypeOK, Task
    <2>2. Stopped(sup.row, sup.code) \in App /\ Forgotten(sup.row) \in App
      BY <2>1, RowsStayRows
    <2> QED BY <1>1, <1>5, <2>2, SaveKeeps DEF StopSave
  <1>6. CASE ExitSave
    <2>1. AfterExit(sup.row) \in App
      BY <1>6, RowsStayRows DEF ExitSave, At, TaskReady
    <2> QED BY <1>1, <1>6, <2>1, SaveKeeps DEF ExitSave
  <1> QED BY <1>1, <1>2, <1>3, <1>4, <1>5, <1>6 DEF SupervisorStep, Work, Receive, Tick,
        StatementFails, Restore, NextApp, LoopEnds, StartCheck, StartDone, StartFailed,
        StopRead, Kill, RestartRead, HealthRead, ProbePasses, ProbeFails, ExitRead

\* The task calls start::execute for an app it knows, and takes the outcome.
LEMMA SupervisorKeepsCalls ==
  ASSUME StartTypeOK, CallsReady, SupervisorTypeOK, TaskReady, ProcKept, SupervisorStep
  PROVE  StartTypeOK' /\ CallsReady'
  <1>1. Super \in Callers
    BY DEF Callers
  <1>2. CASE UNCHANGED call
    BY <1>2, CallsUnchanged
  <1>3. CASE \E n \in Names : CallStart(n)
    BY <1>1, <1>3, CallBegins DEF CallStart
  <1>4. CASE call' = [call EXCEPT ![Super] = IdleCall]
    BY <1>1, <1>4, CallResets
  <1>5. CASE call[Super].pc # "idle" /\ Return(Super, "failed")
    BY <1>1, <1>5, CallReturns
  <1>6. CASE NextApp
    <2>1. \A row \in sup.todo : row.name \in Names
      BY DEF SupervisorTypeOK, Task, App
    <2> QED BY <1>2, <1>3, <1>6, <2>1 DEF NextApp
  <1>7. CASE StartCheck \/ ExitSave
    <2>1. sup.app \in Names
      BY <1>7 DEF StartCheck, ExitSave, At, TaskReady
    <2> QED BY <1>2, <1>3, <1>7, <2>1 DEF StartCheck, ExitSave
  <1>8. CASE StartDone \/ StartFailed
    BY <1>4, <1>8 DEF StartDone, StartFailed
  <1>9. CASE StatementFails
    BY <1>2, <1>5, <1>9 DEF StatementFails
  <1> QED BY <1>2, <1>6, <1>7, <1>8, <1>9 DEF SupervisorStep, Work, Receive, Tick, Restore,
        LoopEnds, RestoreFail, StopRead, StopMark, Kill, CloseRun, StopSave, RestartRead,
        HealthRead, ProbePasses, ProbeFails, ExitRead, ExitClose

\* Queue and map.
LEMMA SupervisorKeepsMap ==
  ASSUME SupervisorTypeOK, StartTypeOK, CallsReady, TaskReady, Rooted, ProcKept, SupervisorStep
  PROVE  /\ running' \in [Names -> Pids \cup {None}]
         /\ queue' \in Seq(Message)
         /\ Len(queue') <= Capacity
         /\ \A n \in Names : running'[n] # None => proc'[running'[n]] # None
  <1> DEFINE Sound == \A n \in Names : running'[n] # None => proc'[running'[n]] # None
  <1>1. running' \in [Names -> Pids \cup {None}] /\ Sound
    <2>1. CASE UNCHANGED running
      BY <2>1 DEF SupervisorTypeOK, Rooted, ProcKept
    <2>2. CASE TakeChild
      BY <2>2 DEF TakeChild, SupervisorTypeOK, Rooted, ProcKept
    <2>3. CASE StartDone
      <3>1. call[Super].child \in Pids /\ proc[call[Super].child] # None
        BY <2>3 DEF StartDone, CallsReady, Callers
      <3> QED BY <2>3, <3>1 DEF StartDone, SupervisorTypeOK, Rooted, ProcKept
    <2> QED BY <2>1, <2>2, <2>3 DEF SupervisorStep, Work, Receive, Tick, StatementFails, Restore,
          NextApp, LoopEnds, StartCheck, StartFailed, RestoreFail, StopRead, StopMark, Kill,
          CloseRun, StopSave, RestartRead, HealthRead, ProbePasses, ProbeFails, ExitRead,
          ExitClose, ExitSave
  <1>2. queue' \in Seq(Message) /\ Len(queue') <= Capacity
    <2>1. CASE UNCHANGED queue
      BY <2>1 DEF SupervisorTypeOK
    <2>2. CASE Receive
      <3>1. queue \in Seq(Message) /\ queue # << >> /\ queue' = Tail(queue)
        BY <2>2 DEF Receive, SupervisorTypeOK
      <3>2. queue' \in Seq(Message) /\ Len(queue') = Len(queue) - 1
        BY <3>1, HeadTailProperties
      <3> QED BY <3>1, <3>2, SupervisorAssumption, LenProperties DEF SupervisorTypeOK
    <2> QED BY <2>1, <2>2 DEF SupervisorStep, Work, Tick, StatementFails, Restore, NextApp,
          LoopEnds, StartCheck, StartDone, StartFailed, RestoreFail, StopRead, StopMark, Kill,
          CloseRun, StopSave, RestartRead, HealthRead, ProbePasses, ProbeFails, ExitRead,
          ExitClose, ExitSave
  <1> QED BY <1>1, <1>2

\* The task has what its next step uses.
LEMMA SupervisorKeepsTask ==
  ASSUME StoreTypeOK, HostTypeOK, SupervisorTypeOK, TaskReady, Rooted, SlotFree, ProcKept,
         SupervisorStep
  PROVE  sup' \in Task /\ TaskReady'
  <1>1. sup \in Task
    BY DEF SupervisorTypeOK
  <1>2. CASE UNCHANGED sup
    BY <1>1, <1>2 DEF TaskReady, ProcKept
  <1>3. CASE Finish
    BY <1>3, FinishType
  <1>4. CASE sup' = IdleTask
    BY <1>4 DEF IdleTask, Task, SupPc, TaskReady
  <1>5. CASE Restore
    <2>1. GetByState("Running") \subseteq App
      BY DEF GetByState, Stored, StoreTypeOK
    <2> QED BY <1>1, <1>5, <2>1 DEF Restore, At, Task, SupPc, TaskReady
  <1>6. CASE Tick
    <2>1. GetByState("Running") \subseteq App
      BY DEF GetByState, Stored, StoreTypeOK
    <2> QED BY <1>1, <1>6, <2>1 DEF Tick, At, Task, SupPc, TaskReady
  <1>7. CASE NextApp
    <2>1. PICK row \in sup.todo :
            IF sup.job = "boot"
              THEN sup' = [sup EXCEPT !.pc = "starting", !.app = row.name, !.row = row,
                                      !.todo = @ \ {row}]
              ELSE sup' = [sup EXCEPT !.pc = "health", !.app = row.name, !.todo = @ \ {row}]
      BY <1>7 DEF NextApp
    <2>2. row \in App /\ row.name \in Names /\ sup.todo \ {row} \in SUBSET App
      BY <1>1 DEF Task, App
    <2>3. CASE sup.job = "boot"
      <3>1. sup' = [sup EXCEPT !.pc = "starting", !.app = row.name, !.row = row,
                               !.todo = sup.todo \ {row}]
        BY <2>1, <2>3
      <3>2. sup' \in Task
        BY <1>1, <2>2, <3>1 DEF Task, SupPc
      <3>3. sup'.pc = "starting" /\ sup'.app = row.name /\ sup'.row = row
        BY <1>1, <3>1 DEF Task
      <3> QED BY <2>2, <3>2, <3>3 DEF TaskReady
    <2>4. CASE sup.job # "boot"
      <3>1. sup' = [sup EXCEPT !.pc = "health", !.app = row.name, !.todo = sup.todo \ {row}]
        BY <2>1, <2>4
      <3>2. sup' \in Task
        BY <1>1, <2>2, <3>1 DEF Task, SupPc
      <3>3. sup'.pc = "health" /\ sup'.app = row.name
        BY <1>1, <3>1 DEF Task
      <3> QED BY <2>2, <3>2, <3>3 DEF TaskReady
    <2> QED BY <2>3, <2>4
  <1>8. CASE Receive
    <2>1. Head(queue) \in Message
      BY <1>8, HeadTailProperties DEF Receive, SupervisorTypeOK
    <2>2. Handler(Head(queue).kind) \in {"startCheck", "stop", "restart", "health", "exit"}
      BY <2>1 DEF Handler, Message
    <2> QED BY <1>1, <1>8, <2>1, <2>2 DEF Receive, At, Task, SupPc, TaskReady, Message
  <1>9. CASE StartCheck
    <2>1. CASE Goto("starting")
      <3>1. sup.pc = "startCheck" /\ sup.app \in Names /\ sup.job # "boot"
        BY <1>9 DEF StartCheck, At, TaskReady, SlotFree
      <3>2. sup' \in Task /\ sup'.pc = "starting" /\ sup'.app = sup.app /\ sup'.job = sup.job
        BY <1>1, <2>1 DEF Goto, Task, SupPc
      <3> QED BY <3>1, <3>2 DEF TaskReady
    <2> QED BY <1>3, <1>9, <2>1 DEF StartCheck
  <1>10. CASE StartFailed
    BY <1>1, <1>3, <1>10 DEF StartFailed, Goto, At, Task, SupPc, TaskReady
  <1>11. CASE StopRead
    <2>1. CASE Row = None
      BY <1>3, <1>11, <2>1 DEF StopRead
    <2>2. CASE Row # None
      <3>1. sup.app \in Names
        BY <1>11 DEF StopRead, At, TaskReady
      <3>2. Row \in App
        BY <2>2, <3>1 DEF Row, StoreTypeOK
      <3>3. /\ running[sup.app] \in Pids \cup {None}
            /\ running[sup.app] # None => proc[running[sup.app]] # None
        BY <3>1 DEF SupervisorTypeOK, Rooted
      <3> QED BY <1>1, <1>11, <2>2, <3>1, <3>2, <3>3 DEF StopRead, Task, SupPc, TaskReady, ProcKept
    <2> QED BY <2>1, <2>2
  <1>12. CASE StopMark
    <2>1. CASE Finish
      BY <2>1, <1>3
    <2>2. CASE sup' = [sup EXCEPT !.pc = "kill", !.row = InState(sup.row, "Stopping")]
      <3>1. InState(sup.row, "Stopping") \in App
        BY <1>12, RowsStayRows DEF StopMark, At, TaskReady, AppState
      <3> QED BY <1>1, <1>12, <2>2, <3>1 DEF StopMark, At, Task, SupPc, TaskReady, ProcKept
    <2> QED BY <1>12, <2>1, <2>2 DEF StopMark
  <1>13. CASE Kill
    <2>1. proc[sup.child].code \in ExitCode \cup {None}
      BY <1>13 DEF Kill, At, TaskReady, HostTypeOK, Process
    <2> QED BY <1>1, <1>13, <2>1 DEF Kill, At, Task, SupPc, TaskReady
  <1>14. CASE CloseRun
    BY <1>1, <1>14 DEF CloseRun, Goto, At, Task, SupPc, TaskReady
  <1>15. CASE StopSave
    <2>1. CASE sup' = AfterStop
      BY <1>1, <1>3, <1>15, <2>1 DEF AfterStop, Finish, StopSave, At, Task, SupPc, TaskReady
    <2> QED BY <1>3, <1>15, <2>1 DEF StopSave
  <1>16. CASE RestartRead
    <2>1. CASE \E pc \in {"stop", "startCheck"} : sup' = [sup EXCEPT !.pc = pc, !.restart = TRUE]
      BY <1>1, <1>16, <2>1 DEF RestartRead, At, Task, SupPc, TaskReady
    <2> QED BY <1>3, <1>16, <2>1 DEF RestartRead
  <1>17. CASE HealthRead \/ ProbeFails \/ StatementFails
    <2>1. CASE At("health") \/ At("probe")
      <3>1. sup.app \in Names
        BY <2>1 DEF At, TaskReady
      <3>2. CASE Unhealthy
        BY <1>1, <1>3, <3>1, <3>2 DEF Unhealthy, Task, SupPc, TaskReady
      <3>3. CASE HealthRead
        <4>1. CASE Checked(Row) /\ sup' = [sup EXCEPT !.pc = "probe", !.row = Row]
          <5>1. Row \in App
            BY <3>1, <4>1 DEF Row, Checked, StoreTypeOK
          <5> QED BY <1>1, <3>1, <4>1, <5>1 DEF Task, SupPc, TaskReady
        <4> QED BY <1>3, <3>2, <3>3, <4>1 DEF HealthRead
      <3> QED BY <1>2, <1>3, <1>4, <1>17, <3>2, <3>3 DEF ProbeFails, StatementFails
    <2> QED BY <1>2, <1>3, <1>4, <1>17, <2>1 DEF HealthRead, ProbeFails, StatementFails
  <1>18. CASE ExitRead
    <2>1. CASE Row = None
      BY <1>3, <1>18, <2>1 DEF ExitRead
    <2>2. CASE Row # None
      <3>1. sup.app \in Names
        BY <1>18 DEF ExitRead, At, TaskReady
      <3>2. Row \in App
        BY <2>2, <3>1 DEF Row, StoreTypeOK
      <3>3. Exited(Row, sup.code) \in App
        BY <1>1, <3>2, RowsStayRows DEF Task
      <3> QED BY <1>1, <1>18, <2>2, <3>1, <3>3 DEF ExitRead, Task, SupPc, TaskReady
    <2> QED BY <2>1, <2>2
  <1>19. CASE ExitClose
    BY <1>1, <1>19 DEF ExitClose, Goto, At, Task, SupPc, TaskReady
  <1>20. CASE ExitSave
    <2>1. CASE Goto("starting")
      BY <1>1, <1>20, <2>1 DEF ExitSave, Goto, At, Task, SupPc, TaskReady
    <2> QED BY <1>3, <1>20, <2>1 DEF ExitSave
  <1>21. CASE LoopEnds \/ StartDone \/ RestoreFail \/ ProbePasses
    BY <1>3, <1>4, <1>21 DEF LoopEnds, StartDone, RestoreFail, ProbePasses
  <1> QED BY <1>5, <1>6, <1>7, <1>8, <1>9, <1>10, <1>11, <1>12, <1>13, <1>14, <1>15, <1>16,
        <1>17, <1>18, <1>19, <1>20, <1>21 DEF SupervisorStep, Work

\* The map has room where the task is about to put a handle.
LEMMA SupervisorKeepsSlots ==
  ASSUME StoreTypeOK, SupervisorTypeOK, TaskReady, Rooted, SlotFree, SupervisorStep
  PROVE  SlotFree'
  <1>1. sup \in Task
    BY DEF SupervisorTypeOK
  <1>2. ASSUME Finish, \A row \in sup.todo : sup.job = "boot" => running'[row.name] = None
        PROVE  SlotFree'
    <2>1. /\ sup'.pc \in {"idle", "next"}
          /\ sup'.job = sup.job
          /\ sup'.job = "boot" => sup'.pc = "next"
          /\ sup'.todo \subseteq sup.todo
      BY <1>2, FinishType
    <2> QED BY <1>2, <2>1 DEF SlotFree
  <1>3. ASSUME UNCHANGED running, Finish PROVE SlotFree'
    BY <1>2, <1>3 DEF SlotFree
  <1>4. ASSUME sup' = IdleTask PROVE SlotFree'
    BY <1>4 DEF SlotFree, IdleTask
  <1>5. ASSUME sup.job # "boot", sup'.job # "boot",
               sup'.pc \notin {"restore", "starting", "exitClose", "exitSave"}
        PROVE  SlotFree'
    BY <1>5 DEF SlotFree
  <1>6. sup.pc \notin {"restore", "next", "starting", "restoreFail"} => sup.job # "boot"
    BY DEF SlotFree
  <1>7. CASE Restore
    <2>1. \A row \in GetByState("Running") : row.name \in Names /\ row = apps[row.name]
      BY DEF GetByState, Stored, Rooted
    <2> QED BY <1>1, <1>7, <2>1 DEF Restore, At, Task, SlotFree
  <1>8. CASE NextApp
    <2>1. PICK row \in sup.todo :
            IF sup.job = "boot"
              THEN sup' = [sup EXCEPT !.pc = "starting", !.app = row.name, !.row = row,
                                      !.todo = @ \ {row}]
              ELSE sup' = [sup EXCEPT !.pc = "health", !.app = row.name, !.todo = @ \ {row}]
      BY <1>8 DEF NextApp
    <2>2. CASE sup.job = "boot"
      <3>1. sup' = [sup EXCEPT !.pc = "starting", !.app = row.name, !.row = row,
                               !.todo = sup.todo \ {row}]
        BY <2>1, <2>2
      <3>2. /\ sup'.pc = "starting" /\ sup'.app = row.name /\ sup'.job = "boot"
            /\ sup'.todo = sup.todo \ {row}
        BY <1>1, <2>2, <3>1 DEF Task
      <3>3. UNCHANGED running
        BY <1>8 DEF NextApp
      <3> QED BY <2>1, <2>2, <3>2, <3>3 DEF SlotFree
    <2>3. CASE sup.job # "boot"
      BY <1>1, <1>8, <2>1, <2>3 DEF NextApp, Task, SlotFree
    <2> QED BY <2>2, <2>3
  <1>9. CASE StartCheck
    <2>1. CASE Goto("starting")
      <3>1. sup.job # "boot" /\ UNCHANGED running
        BY <1>6, <1>9 DEF StartCheck, At
      <3>2. running[sup.app] = None
        BY <1>1, <1>3, <1>9, <2>1 DEF StartCheck, At, Goto, Finish, Returns, Task, IdleTask
      <3>3. sup'.pc = "starting" /\ sup'.app = sup.app /\ sup'.job = sup.job
        BY <1>1, <2>1 DEF Goto, Task
      <3> QED BY <3>1, <3>2, <3>3 DEF SlotFree
    <2> QED BY <1>3, <1>9, <2>1 DEF StartCheck
  <1>10. CASE StartDone
    <2>1. \A row \in sup.todo : sup.job = "boot" => row.name # sup.app /\ running[row.name] = None
      BY <1>10 DEF StartDone, At, SlotFree
    <2>2. \A row \in sup.todo : sup.job = "boot" => running'[row.name] = None
      BY <1>1, <1>10, <2>1 DEF StartDone, SupervisorTypeOK, Task, App
    <2> QED BY <1>2, <1>10, <2>2 DEF StartDone
  <1>11. CASE StartFailed
    <2>1. CASE sup.job = "boot"
      BY <1>1, <1>11, <2>1 DEF StartFailed, Goto, At, Task, SlotFree
    <2> QED BY <1>3, <1>11, <2>1 DEF StartFailed
  <1>12. CASE ExitRead
    <2>1. CASE Row = None
      BY <1>3, <1>12, <2>1 DEF ExitRead
    <2>2. CASE Row # None
      <3>1. sup.app \in Names /\ sup.job # "boot"
        BY <1>6, <1>12 DEF ExitRead, At, TaskReady
      <3>2. running'[sup.app] = None
        BY <1>12, <2>2, <3>1 DEF ExitRead, TakeChild, SupervisorTypeOK
      <3>3. sup'.pc = "exitClose" /\ sup'.app = sup.app /\ sup'.job = sup.job
        BY <1>1, <1>12, <2>2 DEF ExitRead, Task
      <3> QED BY <3>1, <3>2, <3>3 DEF SlotFree
    <2> QED BY <2>1, <2>2
  <1>13. CASE ExitClose
    BY <1>1, <1>6, <1>13 DEF ExitClose, Goto, At, Task, SlotFree
  <1>14. CASE ExitSave
    <2>1. CASE Goto("starting")
      BY <1>1, <1>6, <1>14, <2>1 DEF ExitSave, Goto, At, Task, SlotFree
    <2> QED BY <1>3, <1>14, <2>1 DEF ExitSave
  <1>15. CASE Receive
    <2>1. Handler(Head(queue).kind) \in {"startCheck", "stop", "restart", "health", "exit"}
      <3>1. Head(queue) \in Message
        BY <1>15, HeadTailProperties DEF Receive, SupervisorTypeOK
      <3> QED BY <3>1 DEF Handler, Message
    <2> QED BY <1>1, <1>5, <1>6, <1>15, <2>1 DEF Receive, At, Task
  <1>16. CASE Tick
    BY <1>1, <1>5, <1>6, <1>16 DEF Tick, At, Task
  <1>17. CASE StopRead
    <2>1. CASE Row = None
      BY <1>3, <1>17, <2>1 DEF StopRead
    <2>2. CASE Row # None
      BY <1>1, <1>5, <1>6, <1>17, <2>2 DEF StopRead, At, Task
    <2> QED BY <2>1, <2>2
  <1>18. CASE StopMark \/ Kill \/ CloseRun
    BY <1>1, <1>3, <1>5, <1>6, <1>18 DEF StopMark, Kill, CloseRun, Goto, At, Task
  <1>19. CASE StopSave
    <2>1. CASE sup.restart /\ sup' = AfterStop
      BY <1>1, <1>5, <1>6, <1>19, <2>1 DEF StopSave, AfterStop, At, Task
    <2> QED BY <1>3, <1>19, <2>1 DEF StopSave, AfterStop, Finish
  <1>20. CASE RestartRead
    <2>1. CASE \E pc \in {"stop", "startCheck"} : sup' = [sup EXCEPT !.pc = pc, !.restart = TRUE]
      BY <1>1, <1>5, <1>6, <1>20, <2>1 DEF RestartRead, At, Task
    <2> QED BY <1>3, <1>20, <2>1 DEF RestartRead
  <1>21. CASE Unhealthy /\ UNCHANGED running
    BY <1>1, <1>3, <1>5, <1>21 DEF Unhealthy, Task
  <1>22. CASE HealthRead
    <2>1. CASE sup' = [sup EXCEPT !.pc = "probe", !.row = Row]
      BY <1>1, <1>5, <1>6, <1>22, <2>1 DEF HealthRead, At, Task
    <2> QED BY <1>3, <1>21, <1>22, <2>1 DEF HealthRead
  <1>23. CASE LoopEnds \/ RestoreFail \/ ProbePasses \/ ProbeFails
    BY <1>3, <1>4, <1>21, <1>23 DEF LoopEnds, RestoreFail, ProbePasses, ProbeFails
  <1>24. CASE StatementFails
    <2>1. CASE UNCHANGED sup
      BY <1>24, <2>1 DEF StatementFails, SlotFree
    <2> QED BY <1>3, <1>4, <1>21, <1>24, <2>1 DEF StatementFails
  <1> QED BY <1>7, <1>8, <1>9, <1>10, <1>11, <1>12, <1>13, <1>14, <1>15, <1>16, <1>17, <1>18,
        <1>19, <1>20, <1>22, <1>23, <1>24 DEF SupervisorStep, Work

------------------------------------------------------------------------------
\* HTTP requests.

\* A handler that goes on holds what its next step uses.
LEMMA StepKeeps ==
  ASSUME ApiTypeOK, RequestsReady, NEW r \in Requests, NEW frame \in Request, Step(r, frame),
         frame.pc \in {"insert", "write", "deployed", "envSave"} => frame.row \in App,
         frame.pc = "write" => frame.hash \in Hashes,
         frame.pc \in {"setup", "teardown", "send"} => frame.app \in Names,
         frame.pc \in {"setup", "teardown", "deleteRuns", "deleteApp"} => frame.id \in Ids,
         frame.pc = "send" => frame.kind \in {"Stop", "Restart"}
  PROVE  ApiTypeOK' /\ RequestsReady'
  BY DEF ApiTypeOK, RequestsReady, Step

\* A handler that answers holds nothing any more.
LEMMA RespondKeeps ==
  ASSUME ApiTypeOK, RequestsReady, NEW r \in Requests, Respond(r)
  PROVE  ApiTypeOK' /\ RequestsReady'
  <1>1. IdleRequest \in Request /\ IdleRequest.pc = "idle"
    BY DEF IdleRequest, Request
  <1> QED BY <1>1, StepKeeps DEF Respond

\* What a handler holds at each of its steps.
LEMMA RequestsKeepFrames ==
  ASSUME StoreTypeOK, ApiTypeOK, RequestsReady, NEW r \in Requests, Begin(r) \/ Proceed(r) \/ Abandon(r)
  PROVE  ApiTypeOK' /\ RequestsReady'
  <1> USE DEF Request
  <1>1. req[r] \in Request
    BY DEF ApiTypeOK
  <1>2. \A n \in Stored : apps[n] \in App /\ n \in Names
    BY DEF Stored, StoreTypeOK
  <1>3. CASE UNCHANGED req
    BY <1>3 DEF ApiTypeOK, RequestsReady
  <1>4. CASE Respond(r)
    BY <1>4, RespondKeeps
  <1>5. CASE CreateCheck(r)
    <2>1. PICK n \in Names : Step(r, [IdleRequest EXCEPT !.pc = "setup", !.app = n, !.id = issued + 1])
      BY <1>5 DEF CreateCheck
    <2>2. issued + 1 \in Ids
      BY <1>5, AppModelAssumption DEF CreateCheck, StoreTypeOK
    <2> QED BY <2>1, <2>2, StepKeeps DEF IdleRequest
  <1>6. CASE CreateSetup(r)
    <2>1. PICK port \in Ports :
            Step(r, [req[r] EXCEPT !.pc = "insert", !.id = None, !.app = None,
                                   !.row = NewApp(req[r].id, req[r].app, port)])
      BY <1>6 DEF CreateSetup
    <2>2. NewApp(req[r].id, req[r].app, port) \in App
      BY <1>6, NewAppIsApp DEF CreateSetup, ReqAt, RequestsReady
    <2> QED BY <1>1, <2>1, <2>2, StepKeeps
  <1>7. CASE DeleteCheck(r)
    <2>1. PICK n \in Stored :
            Step(r, [IdleRequest EXCEPT !.pc = "teardown", !.app = n, !.id = apps[n].id])
      BY <1>7 DEF DeleteCheck
    <2>2. apps[n].id \in Ids
      BY <1>2 DEF App
    <2> QED BY <1>2, <2>1, <2>2, StepKeeps DEF IdleRequest
  <1>8. CASE DeleteFiles(r)
    <2>1. req[r].id \in Ids /\ Step(r, [req[r] EXCEPT !.pc = "deleteRuns", !.app = None])
      BY <1>8 DEF DeleteFiles, ReqAt, RequestsReady
    <2> QED BY <1>1, <2>1, StepKeeps
  <1>9. CASE DeleteHistory(r)
    <2>1. req[r].id \in Ids /\ Step(r, [req[r] EXCEPT !.pc = "deleteApp"])
      BY <1>9 DEF DeleteHistory, ReqAt, RequestsReady
    <2> QED BY <1>1, <2>1, StepKeeps
  <1>10. CASE DeployCheck(r)
    <2>1. PICK n \in Stored, hash \in Hashes :
            Step(r, [IdleRequest EXCEPT !.pc = "write", !.row = apps[n], !.hash = hash])
      BY <1>10 DEF DeployCheck
    <2> QED BY <1>2, <2>1, StepKeeps DEF IdleRequest
  <1>11. CASE DeployWrite(r)
    <2>1. req[r].row \in App /\ req[r].hash \in Hashes
      BY <1>11 DEF DeployWrite, ReqAt, RequestsReady
    <2>2. Deployed(req[r].row, req[r].hash) \in App
      BY <2>1, RowsStayRows
    <2>3. Step(r, [req[r] EXCEPT !.pc = "deployed", !.hash = None,
                                 !.row = Deployed(req[r].row, req[r].hash)])
      BY <1>11 DEF DeployWrite
    <2> QED BY <1>1, <2>2, <2>3, StepKeeps
  <1>12. CASE EnvRead(r)
    <2>1. PICK n \in Stored, port \in Overrides \cup {None} :
            Step(r, [IdleRequest EXCEPT !.pc = "envSave", !.row = WithEnv(apps[n], port)])
      BY <1>12 DEF EnvRead
    <2>2. WithEnv(apps[n], port) \in App
      BY <1>2 DEF WithEnv, App
    <2> QED BY <2>1, <2>2, StepKeeps DEF IdleRequest
  <1>13. CASE StopCheck(r)
    <2>1. PICK n \in Stored :
            Step(r, [IdleRequest EXCEPT !.pc = "send", !.app = n, !.kind = "Stop"])
      BY <1>13 DEF StopCheck
    <2> QED BY <1>2, <2>1, StepKeeps DEF IdleRequest
  <1>14. CASE RestartCheck(r)
    <2>1. PICK n \in Stored :
            Step(r, [IdleRequest EXCEPT !.pc = "send", !.app = n, !.kind = "Restart"])
      BY <1>14 DEF RestartCheck
    <2> QED BY <1>2, <2>1, StepKeeps DEF IdleRequest
  <1> QED BY <1>3, <1>4, <1>5, <1>6, <1>7, <1>8, <1>9, <1>10, <1>11, <1>12, <1>13, <1>14
      DEF Begin, Proceed, ApiStart, CreateSave, DeleteRow, DeployBusy, DeploySave, EnvSave,
          SaveRow, Send, Abandon

\* What requests do to the database and the disk.
LEMMA RequestsKeepStore ==
  ASSUME StoreTypeOK, HostTypeOK, RequestsReady, Rooted,
         NEW r \in Requests, Begin(r) \/ Proceed(r) \/ Abandon(r)
  PROVE  /\ StoreTypeOK' /\ HostTypeOK' /\ ProcKept
         /\ \A n \in Names : apps'[n] # None => apps'[n].name = n
  <1> DEFINE Named == \A n \in Names : apps'[n] # None => apps'[n].name = n
  <1>1. ASSUME UNCHANGED storeVars PROVE StoreTypeOK' /\ Named
    BY <1>1 DEF StoreTypeOK, Rooted, storeVars
  <1>2. ASSUME UNCHANGED hostVars PROVE HostTypeOK' /\ ProcKept
    BY <1>2, HostUnchanged
  <1>3. CASE CreateCheck(r)
    BY <1>2, <1>3, AppModelAssumption DEF CreateCheck, StoreTypeOK, Rooted
  <1>4. CASE \E pc \in {"insert", "deployed", "envSave"} : SaveRow(r, pc)
    <2>1. req[r].row \in App
      BY <1>4 DEF SaveRow, ReqAt, RequestsReady
    <2> QED BY <1>1, <1>2, <1>4, <2>1, SaveKeeps DEF SaveRow
  <1>5. CASE DeleteFiles(r)
    <2>1. req[r].app \in Names
      BY <1>5 DEF DeleteFiles, ReqAt, RequestsReady
    <2> QED BY <1>1, <1>5, <2>1, DiskWritesKeep DEF DeleteFiles
  <1>6. CASE DeleteHistory(r) \/ DeleteRow(r)
    <2>1. req[r].id \in Ids
      BY <1>6 DEF DeleteHistory, DeleteRow, ReqAt, RequestsReady
    <2>2. StoreTypeOK' /\ \A n \in Names : apps'[n] # None => apps'[n].name = n
      BY <1>1, <1>6, <2>1, DeletesKeep DEF DeleteHistory, DeleteRow, Rooted
    <2> QED BY <1>2, <1>6, <2>2 DEF DeleteHistory, DeleteRow
  <1>7. CASE DeployWrite(r)
    <2>1. req[r].row.name \in Names /\ req[r].hash \in Hashes
      BY <1>7 DEF DeployWrite, ReqAt, RequestsReady, App
    <2> QED BY <1>1, <1>7, <2>1, DiskWritesKeep DEF DeployWrite
  <1> QED BY <1>1, <1>2, <1>3, <1>4, <1>5, <1>6, <1>7
      DEF Begin, Proceed, DeleteCheck, DeployCheck, EnvRead, StopCheck, RestartCheck, ApiStart,
          CreateSetup, CreateSave, DeployBusy, DeploySave, EnvSave, Send, Abandon

\* start_app is the only handler that calls start::execute.
LEMMA RequestsKeepCalls ==
  ASSUME StartTypeOK, CallsReady, ProcKept, NEW r \in Requests, Begin(r) \/ Proceed(r) \/ Abandon(r)
  PROVE  StartTypeOK' /\ CallsReady'
  <1>1. r \in Callers
    BY DEF Callers
  <1>2. CASE ApiStart(r)
    BY <1>1, <1>2, CallBegins DEF ApiStart, Stored
  <1>3. CASE Abandon(r)
    BY <1>1, <1>3, CallResets DEF Abandon
  <1>4. CASE UNCHANGED call
    BY <1>4, CallsUnchanged
  <1> QED BY <1>2, <1>3, <1>4
      DEF Begin, Proceed, CreateCheck, DeleteCheck, DeployCheck, EnvRead, StopCheck,
          RestartCheck, CreateSetup, CreateSave, DeleteFiles, DeleteHistory, DeleteRow,
          DeployWrite, DeployBusy, DeploySave, EnvSave, SaveRow, Send

\* Requests reach the supervisor through the channel alone.
LEMMA RequestsKeepSupervisor ==
  ASSUME SupervisorTypeOK, RequestsReady, NEW r \in Requests, Begin(r) \/ Proceed(r) \/ Abandon(r)
  PROVE  UNCHANGED <<running, sup>> /\ SupervisorTypeOK'
  <1>1. CASE Send(r)
    <2> DEFINE m == [kind |-> req[r].kind, app |-> req[r].app, code |-> None]
    <2>1. m \in Message
      BY <1>1 DEF Send, ReqAt, RequestsReady, Message
    <2>2. queue' \in Seq(Message) /\ Len(queue') = Len(queue) + 1
      BY <1>1, <2>1, AppendProperties DEF Send, SupervisorTypeOK
    <2>3. Len(queue) + 1 <= Capacity
      BY <1>1, SupervisorAssumption DEF Send, SupervisorTypeOK
    <2> QED BY <1>1, <2>2, <2>3 DEF Send, SupervisorTypeOK
  <1>2. CASE UNCHANGED supVars
    BY <1>2 DEF supVars, SupervisorTypeOK
  <1> QED BY <1>1, <1>2
      DEF Begin, Proceed, CreateCheck, DeleteCheck, DeployCheck, EnvRead, StopCheck,
          RestartCheck, ApiStart, CreateSetup, CreateSave, DeleteFiles, DeleteHistory,
          DeleteRow, DeployWrite, DeployBusy, DeploySave, EnvSave, SaveRow, Abandon

------------------------------------------------------------------------------
\* The invariant.

\* What a step leaves to show once it leaves the supervisor and requests alone.
LEMMA OthersKept ==
  ASSUME SupervisorTypeOK, TaskReady, SlotFree, Rooted, ProcKept, UNCHANGED <<running, sup>>
  PROVE  /\ TaskReady' /\ SlotFree'
         /\ \A n \in Names : running'[n] # None => proc'[running'[n]] # None
  <1>1. TaskReady'
    BY DEF TaskReady, ProcKept
  <1>2. SlotFree'
    BY DEF SlotFree
  <1>3. \A n \in Names : running'[n] # None => proc'[running'[n]] # None
    BY DEF Rooted, ProcKept, SupervisorTypeOK
  <1> QED BY <1>1, <1>2, <1>3

\* An installed app is a row of its name, with the id it was given.
LEMMA InstalledRow ==
  ASSUME NEW num \in Numbering, NEW bin \in [Installed -> Hashes],
         NEW state \in [Installed -> InitStates], NEW health \in [Installed -> InitHealth],
         NEW policy \in [Installed -> InitPolicies],
         NEW env \in [Installed -> Overrides \cup {None}], NEW n \in Installed
  PROVE  LET row == InitialRow(n, num[n], bin[n], state[n], health[n], policy[n], env[n])
         IN  row \in App /\ row.name = n /\ row.id = num[n]
  <1>1. num[n] \in Ids /\ n \in Names
    BY ServerAssumption, AppModelAssumption DEF Numbering
  <1>2. FirstPort + num[n] - 1 \in Ports
    BY <1>1, ServerAssumption, AppModelAssumption DEF Ports, FirstPort
  <1> DEFINE new == NewApp(num[n], n, FirstPort + num[n] - 1)
  <1>3. new \in App /\ new.name = n /\ new.id = num[n]
    BY <1>1, <1>2, NewAppIsApp DEF NewApp
  <1>4. /\ bin[n] \in Hashes /\ state[n] \in AppState /\ health[n] \in BOOLEAN
        /\ policy[n] \in RestartPolicy /\ env[n] \in Overrides \cup {None}
    BY ServerAssumption
  <1> DEFINE pid == IF state[n] = "Running" THEN 0 ELSE None
  <1>5. [[[[[[new EXCEPT !.hash = bin[n]] EXCEPT !.state = state[n]] EXCEPT !.health = health[n]]
           EXCEPT !.policy = policy[n]] EXCEPT !.env = env[n]] EXCEPT !.pid = pid] \in App
    BY <1>3, <1>4 DEF App
  <1> QED BY <1>3, <1>5 DEF InitialRow, App

\* The server starts within the invariant, with what an earlier one left in the
\* database.
LEMMA InitInv ==
  ASSUME Init
  PROVE  Inv
  <1>1. PICK num \in Numbering, bin \in [Installed -> Hashes], state \in [Installed -> InitStates],
             health \in [Installed -> InitHealth], policy \in [Installed -> InitPolicies],
             env \in [Installed -> Overrides \cup {None}] :
          /\ apps = [n \in Names |->
                       IF n \in Installed
                         THEN InitialRow(n, num[n], bin[n], state[n], health[n], policy[n], env[n])
                         ELSE None]
          /\ history = [id \in Ids |->
                          IF \E n \in Installed : num[n] = id /\ state[n] = "Running"
                            THEN << [pid |-> 0, reason |-> None] >> ELSE << >>]
          /\ disk = [n \in Names |-> IF n \in Installed THEN bin[n] ELSE None]
    BY DEF Init
  <1>2. \A n \in Installed :
          /\ InitialRow(n, num[n], bin[n], state[n], health[n], policy[n], env[n]) \in App
          /\ InitialRow(n, num[n], bin[n], state[n], health[n], policy[n], env[n]).name = n
    BY InstalledRow
  <1>3. StoreTypeOK
    <2>1. << [pid |-> 0, reason |-> None] >> \in Seq(Run) /\ << >> \in Seq(Run)
      BY DEF Run
    <2>2. history \in [Ids -> Seq(Run)]
      BY <1>1, <2>1
    <2>3. apps \in [Names -> App \cup {None}]
      BY <1>1, <1>2
    <2>4. issued \in 0 .. MaxIds
      BY ServerAssumption DEF Init
    <2> QED BY <2>2, <2>3, <2>4 DEF StoreTypeOK
  <1>4. HostTypeOK
    BY <1>1 DEF HostTypeOK, Init
  <1>5. StartTypeOK /\ CallsReady
    BY DEF StartTypeOK, CallsReady, Init, Call, IdleCall
  <1>6. SupervisorTypeOK
    <2>1. sup \in Task
      BY DEF Init, BootTask, IdleTask, Task, SupPc
    <2>2. queue \in Seq(Message) /\ Len(queue) = 0
      BY DEF Init
    <2> QED BY <2>1, <2>2, SupervisorAssumption DEF SupervisorTypeOK, Init
  <1>7. ApiTypeOK /\ RequestsReady
    BY DEF ApiTypeOK, RequestsReady, Init, Request, IdleRequest
  <1>8. TaskReady /\ SlotFree
    BY DEF TaskReady, SlotFree, Init, BootTask, IdleTask
  <1>9. Rooted
    BY <1>1, <1>2 DEF Rooted, Init
  <1>10. crashes \in 0 .. MaxCrashes
    BY ServerAssumption DEF Init
  <1> QED BY <1>3, <1>4, <1>5, <1>6, <1>7, <1>8, <1>9, <1>10 DEF Inv, TypeOK

\* Every step keeps it: the supervisor, an activation, a request, a process, a
\* message of a library user, the end of the server.
LEMMA NextKeepsInv ==
  ASSUME Inv, [Next]_vars
  PROVE  Inv'
  <1>0. /\ StoreTypeOK /\ HostTypeOK /\ StartTypeOK /\ SupervisorTypeOK /\ ApiTypeOK
        /\ crashes \in 0 .. MaxCrashes
        /\ CallsReady /\ TaskReady /\ RequestsReady /\ Rooted /\ SlotFree
    BY DEF Inv, TypeOK
  <1>1. ASSUME UNCHANGED req PROVE ApiTypeOK' /\ RequestsReady'
    BY <1>0, <1>1 DEF ApiTypeOK, RequestsReady
  <1>2. CASE SupervisorNext
    <2>1. SupervisorStep /\ UNCHANGED <<req, crashes>>
      BY <1>2 DEF SupervisorNext, SupervisorStep
    <2>2. HostTypeOK' /\ ProcKept
      BY <1>0, <2>1, SupervisorKeepsHost
    <2>3. StoreTypeOK' /\ \A n \in Names : apps'[n] # None => apps'[n].name = n
      BY <1>0, <2>1, SupervisorKeepsStore
    <2>4. StartTypeOK' /\ CallsReady'
      BY <1>0, <2>1, <2>2, SupervisorKeepsCalls
    <2>5. sup' \in Task /\ TaskReady'
      BY <1>0, <2>1, <2>2, SupervisorKeepsTask
    <2>6. /\ running' \in [Names -> Pids \cup {None}]
          /\ queue' \in Seq(Message)
          /\ Len(queue') <= Capacity
          /\ \A n \in Names : running'[n] # None => proc'[running'[n]] # None
      BY <1>0, <2>1, <2>2, SupervisorKeepsMap
    <2>7. SlotFree'
      BY <1>0, <2>1, SupervisorKeepsSlots
    <2>8. SupervisorTypeOK' /\ Rooted' /\ (crashes \in 0 .. MaxCrashes)'
      BY <1>0, <2>1, <2>3, <2>5, <2>6 DEF SupervisorTypeOK, Rooted
    <2> QED BY <1>1, <2>1, <2>2, <2>3, <2>4, <2>5, <2>7, <2>8 DEF Inv, TypeOK
  <1>3. CASE \E c \in Callers : CallNext(c)
    <2>1. PICK c \in Callers : StartStep(c) /\ UNCHANGED <<supVars, req, crashes>>
      BY <1>3 DEF CallNext
    <2>2. /\ StoreTypeOK' /\ HostTypeOK' /\ StartTypeOK' /\ CallsReady'
          /\ ProcKept
          /\ \A n \in Names : apps'[n] # None => apps'[n].name = n
      BY <1>0, <2>1, StartStepKeeps
    <2>3. /\ TaskReady' /\ SlotFree'
          /\ \A n \in Names : running'[n] # None => proc'[running'[n]] # None
      BY <1>0, <2>1, <2>2, OthersKept DEF supVars
    <2>4. SupervisorTypeOK' /\ Rooted' /\ (crashes \in 0 .. MaxCrashes)'
      BY <1>0, <2>1, <2>2, <2>3 DEF SupervisorTypeOK, Rooted, supVars
    <2> QED BY <1>1, <2>1, <2>2, <2>3, <2>4 DEF Inv, TypeOK
  <1>4. CASE \E r \in Requests : RequestNext(r)
    <2>1. PICK r \in Requests : (Begin(r) \/ Proceed(r) \/ Abandon(r)) /\ UNCHANGED crashes
      BY <1>4 DEF RequestNext
    <2>2. /\ StoreTypeOK' /\ HostTypeOK' /\ ProcKept
          /\ \A n \in Names : apps'[n] # None => apps'[n].name = n
      BY <1>0, <2>1, RequestsKeepStore
    <2>3. StartTypeOK' /\ CallsReady'
      BY <1>0, <2>1, <2>2, RequestsKeepCalls
    <2>4. ApiTypeOK' /\ RequestsReady'
      BY <1>0, <2>1, RequestsKeepFrames
    <2>5. UNCHANGED <<running, sup>> /\ SupervisorTypeOK'
      BY <1>0, <2>1, RequestsKeepSupervisor
    <2>6. /\ TaskReady' /\ SlotFree'
          /\ \A n \in Names : running'[n] # None => proc'[running'[n]] # None
      BY <1>0, <2>2, <2>5, OthersKept
    <2>7. Rooted' /\ (crashes \in 0 .. MaxCrashes)'
      BY <1>0, <2>1, <2>2, <2>6 DEF Rooted
    <2> QED BY <2>2, <2>3, <2>4, <2>5, <2>6, <2>7 DEF Inv, TypeOK
  <1>5. CASE \E p \in Pids : ProcessNext(p)
    <2>1. PICK p \in Pids : /\ Listen(p) \/ \E code \in ExitCode : Exit(p, code)
                            /\ UNCHANGED <<storeVars, call, supVars, req, crashes>>
      BY <1>5 DEF ProcessNext
    <2>2. HostTypeOK' /\ ProcKept
      BY <1>0, <2>1, ListenKeeps, ExitKeeps
    <2>3. StartTypeOK' /\ CallsReady'
      BY <1>0, <2>1, <2>2, CallsUnchanged
    <2>4. /\ TaskReady' /\ SlotFree'
          /\ \A n \in Names : running'[n] # None => proc'[running'[n]] # None
      BY <1>0, <2>1, <2>2, OthersKept DEF supVars
    <2>5. StoreTypeOK' /\ SupervisorTypeOK' /\ Rooted' /\ (crashes \in 0 .. MaxCrashes)'
      BY <1>0, <2>1, <2>4 DEF StoreTypeOK, storeVars, SupervisorTypeOK, supVars, Rooted
    <2> QED BY <1>1, <2>1, <2>2, <2>3, <2>4, <2>5 DEF Inv, TypeOK
  <1>6. CASE LibrarySend
    <2>1. PICK kind \in Library, n \in Names :
            \E code \in IF kind = "ProcessExit" THEN ExitCode ELSE {None} :
              queue' = Append(queue, [kind |-> kind, app |-> n, code |-> code])
      BY <1>6 DEF LibrarySend
    <2>2. PICK code \in ExitCode \cup {None} :
            queue' = Append(queue, [kind |-> kind, app |-> n, code |-> code])
      BY <2>1
    <2>3. [kind |-> kind, app |-> n, code |-> code] \in Message
      BY ServerAssumption DEF Message
    <2>4. queue' \in Seq(Message) /\ Len(queue') = Len(queue) + 1
      BY <1>0, <2>2, <2>3, AppendProperties DEF SupervisorTypeOK
    <2>5. Len(queue) + 1 <= Capacity
      BY <1>0, <1>6, SupervisorAssumption DEF LibrarySend, SupervisorTypeOK
    <2>6. SupervisorTypeOK'
      BY <1>0, <1>6, <2>4, <2>5 DEF LibrarySend, SupervisorTypeOK
    <2>7. HostTypeOK' /\ ProcKept
      BY <1>0, <1>6, HostUnchanged DEF LibrarySend
    <2>8. StartTypeOK' /\ CallsReady'
      BY <1>0, <1>6, <2>7, CallsUnchanged DEF LibrarySend
    <2>9. /\ TaskReady' /\ SlotFree'
          /\ \A m \in Names : running'[m] # None => proc'[running'[m]] # None
      BY <1>0, <1>6, <2>7, OthersKept DEF LibrarySend
    <2>10. StoreTypeOK' /\ Rooted' /\ (crashes \in 0 .. MaxCrashes)'
      BY <1>0, <1>6, <2>9 DEF LibrarySend, StoreTypeOK, storeVars, Rooted
    <2> QED BY <1>1, <1>6, <2>6, <2>7, <2>8, <2>9, <2>10 DEF Inv, TypeOK, LibrarySend
  <1>7. CASE Crash
    <2>0. /\ call' = [c \in Callers |-> IdleCall]
          /\ running' = [n \in Names |-> None]
          /\ queue' = << >>
          /\ sup' = BootTask
          /\ req' = [r \in Requests |-> IdleRequest]
          /\ UNCHANGED storeVars
      BY <1>7 DEF Crash
    <2>1. HostTypeOK'
      <3>1. \A p \in Pids : proc[p] # None =>
              [[proc[p] EXCEPT !.st = "reaped"] EXCEPT !.code = None] \in Process
        BY <1>0 DEF HostTypeOK, Process
      <3>2. PICK survivors \in SUBSET {p \in Pids : Live(p)} :
              proc' = [p \in Pids |-> IF proc[p] = None \/ p \in survivors
                                        THEN proc[p]
                                        ELSE [proc[p] EXCEPT !.st = "reaped", !.code = None]]
        BY <1>7 DEF Crash
      <3>3. \A p \in Pids : proc'[p] \in Process \cup {None}
        BY <1>0, <3>1, <3>2 DEF HostTypeOK
      <3> QED BY <1>0, <1>7, <3>2, <3>3 DEF HostTypeOK, Crash
    <2>2. StartTypeOK' /\ CallsReady'
      BY <2>0 DEF StartTypeOK, CallsReady, Call, IdleCall
    <2>3. SupervisorTypeOK'
      <3>1. sup' \in Task
        BY <2>0 DEF BootTask, IdleTask, Task, SupPc
      <3>2. queue' \in Seq(Message) /\ Len(queue') = 0
        BY <2>0
      <3> QED BY <2>0, <3>1, <3>2, SupervisorAssumption DEF SupervisorTypeOK
    <2>4. ApiTypeOK' /\ RequestsReady'
      BY <2>0 DEF ApiTypeOK, RequestsReady, Request, IdleRequest
    <2>5. TaskReady' /\ SlotFree'
      BY <2>0 DEF TaskReady, SlotFree, BootTask, IdleTask
    <2>6. StoreTypeOK' /\ Rooted'
      BY <1>0, <2>0 DEF StoreTypeOK, storeVars, Rooted
    <2>7. (crashes \in 0 .. MaxCrashes)'
      <3>1. crashes < MaxCrashes /\ crashes' = crashes + 1
        BY <1>7 DEF Crash
      <3>2. MaxCrashes \in Nat
        BY ServerAssumption
      <3> QED BY <1>0, <3>1, <3>2
    <2> QED BY <2>1, <2>2, <2>3, <2>4, <2>5, <2>6, <2>7 DEF Inv, TypeOK
  <1>8. CASE UNCHANGED vars
    BY <1>8 DEF vars, storeVars, hostVars, supVars, Inv, TypeOK, StoreTypeOK, HostTypeOK,
       StartTypeOK, SupervisorTypeOK, ApiTypeOK, CallsReady, TaskReady, RequestsReady, Rooted,
       SlotFree
  <1> QED BY <1>2, <1>3, <1>4, <1>5, <1>6, <1>7, <1>8 DEF Next

------------------------------------------------------------------------------

\* No activation, request or supervisor step ever lacks what it uses, and the
\* map has room wherever the supervisor puts a handle.
THEOREM Invariance == Spec => []Inv
  BY InitInv, NextKeepsInv, PTL DEF Spec

\* Every variable keeps its type; in particular the channel never holds more
\* than its capacity.
THEOREM TypeCorrect == Spec => []TypeOK
  <1>1. Inv => TypeOK
    BY DEF Inv
  <1> QED BY <1>1, Invariance, PTL

\* Only start_process puts a handle into the map.
LEMMA OnlyStartDoneAdds ==
  ASSUME SupervisorTypeOK, TaskReady, [Next]_vars, NEW n \in Names, running'[n] # running[n],
         running'[n] # None
  PROVE  StartDone
  <1>1. CASE SupervisorNext
    <2>1. CASE TakeChild
      BY <2>1 DEF TakeChild, SupervisorTypeOK
    <2> QED BY <1>1, <2>1 DEF SupervisorNext, Work, Receive, Tick, StatementFails, Restore,
          NextApp, LoopEnds, StartCheck, StartFailed, RestoreFail, StopRead, StopMark, Kill,
          CloseRun, StopSave, RestartRead, HealthRead, ProbePasses, ProbeFails, ExitRead,
          ExitClose, ExitSave
  <1>2. CASE \E r \in Requests : RequestNext(r)
    BY <1>2 DEF RequestNext, Begin, Proceed, CreateCheck, DeleteCheck, DeployCheck, EnvRead,
       StopCheck, RestartCheck, ApiStart, CreateSetup, CreateSave, DeleteFiles, DeleteHistory,
       DeleteRow, DeployWrite, DeployBusy, DeploySave, EnvSave, SaveRow, Send, Abandon, supVars
  <1>3. CASE Crash
    BY <1>3 DEF Crash
  <1>4. CASE UNCHANGED supVars \/ LibrarySend \/ UNCHANGED vars
    BY <1>4 DEF supVars, vars, LibrarySend
  <1> QED BY <1>1, <1>2, <1>3, <1>4 DEF Next, CallNext, ProcessNext

\* HashMap::insert in start_process never replaces a handle, whatever requests,
\* exits, notifications and failures come in between.
THEOREM HandlesKept == Spec => HandleNeverOverwritten
  <1> DEFINE Kept == \A n \in Names : running[n] # None => running'[n] \in {running[n], None}
  <1>1. Inv /\ [Next]_vars => Kept
    <2> SUFFICES ASSUME Inv, [Next]_vars, NEW n \in Names, running[n] # None,
                        running'[n] # running[n], running'[n] # None
                 PROVE  FALSE
      OBVIOUS
    <2>1. SupervisorTypeOK /\ TaskReady /\ SlotFree
      BY DEF Inv, TypeOK
    <2>2. StartDone
      BY <2>1, OnlyStartDoneAdds
    <2>3. n = sup.app
      BY <2>1, <2>2 DEF StartDone, SupervisorTypeOK
    <2>4. running[sup.app] = None
      BY <2>1, <2>2 DEF StartDone, At, SlotFree
    <2> QED BY <2>3, <2>4
  <1>2. Inv /\ [Next]_vars => [Kept]_vars
    BY <1>1
  <1> QED BY <1>2, Invariance, PTL DEF Spec, HandleNeverOverwritten

==============================================================================
