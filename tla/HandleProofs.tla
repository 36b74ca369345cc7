---------------------------- MODULE HandleProofs -----------------------------
(***************************************************************************)
(* The proof that handles are sound, for every value of the constants:     *)
(* that each handle in the map is of a process of that app, which nobody   *)
(* has waited for.  It rests on the invariant of module ServerProofs.      *)
(*                                                                         *)
(* HandlesAreSound is not inductive: it says nothing of a child between    *)
(* its spawn and the map, nor of one between the map and the kill.  Owned  *)
(* does.                                                                   *)
(***************************************************************************)
EXTENDS ServerProofs

\* A process of app n that was spawned and that nobody has waited for.
Unreaped(p, n) == proc[p] # None /\ proc[p].st # "reaped" /\ proc[p].app = n

\* Each child is in one place at a time, and its activation works on the app
\* that the supervisor works on.
Owned ==
  /\ sup.pc = "starting" <=> call[Super].pc # "idle"
  /\ sup.pc = "starting" => call[Super].app = sup.app
  /\ call[Super].pc = "idle" => call[Super].child = None
  /\ call[Super].row # None => call[Super].row.name = call[Super].app
  /\ call[Super].child # None =>
       /\ Unreaped(call[Super].child, sup.app)
       /\ \A n \in Names : running[n] # call[Super].child
  /\ sup.child # None => sup.pc \in {"stopMark", "kill", "closeRun", "stopSave"}

HandleInv == Owned /\ HandlesAreSound

------------------------------------------------------------------------------
\* What steps do to processes that nobody has waited for.

\* A step that waits for no process.
NoneReaped ==
  \A p \in Pids : proc[p] # None /\ proc[p].st # "reaped" =>
    proc'[p] # None /\ proc'[p].st # "reaped" /\ proc'[p].app = proc[p].app

\* start::execute only adds processes, ...
LEMMA StartReapsNone ==
  ASSUME HostTypeOK, NEW c \in Callers, StartStep(c)
  PROVE  NoneReaped
  <1>1. CASE UNCHANGED hostVars
    BY <1>1 DEF hostVars, NoneReaped
  <1>2. CASE StartSpawn(c)
    <2>1. PICK p \in Pids : Spawn(p, call[c].row)
      BY <1>2 DEF StartSpawn
    <2>2. proc[p] = None /\ \A q \in Pids \ {p} : proc'[q] = proc[q]
      BY <2>1 DEF Spawn, Fresh, HostTypeOK
    <2> QED BY <2>2 DEF NoneReaped
  <1> QED BY <1>1, <1>2 DEF StartStep, StartRead, StartMark, SpawnFails, StartRecord, StartCommit,
        StartRefused

\* ... requests work on the disk alone, ...
LEMMA RequestsReapNone ==
  ASSUME NEW r \in Requests, RequestNext(r)
  PROVE  NoneReaped
  <1>1. UNCHANGED proc
    BY DEF RequestNext, Begin, Proceed, CreateCheck, DeleteCheck, DeployCheck, EnvRead,
       StopCheck, RestartCheck, ApiStart, CreateSetup, CreateSave, DeleteFiles, DeleteHistory,
       DeleteRow, DeployWrite, DeployBusy, DeploySave, EnvSave, SaveRow, Send, Abandon, hostVars,
       RemoveDir, WriteBinary
  <1> QED BY <1>1 DEF NoneReaped

\* ... and a process that listens or exits waits for its parent.
LEMMA ProcessesReapNone ==
  ASSUME HostTypeOK, NEW p \in Pids, ProcessNext(p)
  PROVE  NoneReaped
  <1> SUFFICES ASSUME NEW q \in Pids, proc[q] # None, proc[q].st # "reaped"
               PROVE  proc'[q] # None /\ proc'[q].st # "reaped" /\ proc'[q].app = proc[q].app
    BY DEF NoneReaped
  <1>1. proc[q] \in Process
    BY DEF HostTypeOK
  <1>2. CASE Listen(p)
    <2>1. [proc[p] EXCEPT !.st = "serving"] \in Process
      BY <1>2 DEF HostTypeOK, Process, Listen
    <2> QED BY <1>1, <1>2, <2>1, NoneIsNoProcess DEF Listen, HostTypeOK, Process
  <1>3. CASE \E code \in ExitCode : Exit(p, code)
    <2>1. PICK code \in ExitCode : Exit(p, code)
      BY <1>3
    <2> DEFINE new == [[proc[p] EXCEPT !.st = "exited"] EXCEPT !.code = code]
    <2>2. new \in Process /\ new.st = "exited" /\ new.app = proc[p].app
      BY <2>1 DEF HostTypeOK, Process, Exit, Live
    <2>3. proc' = [proc EXCEPT ![p] = new]
      BY <2>1 DEF Exit, HostTypeOK
    <2> QED BY <1>1, <2>2, <2>3, NoneIsNoProcess DEF HostTypeOK
  <1> QED BY <1>2, <1>3 DEF ProcessNext

------------------------------------------------------------------------------
\* Steps of everybody else.

\* Nobody but the supervisor, and the activation it awaits, touches handles.
LEMMA OthersKeepHandles ==
  ASSUME Inv, HandleInv, NoneReaped, UNCHANGED <<running, sup>>, call'[Super] = call[Super]
  PROVE  HandleInv'
  <1>1. running \in [Names -> Pids \cup {None}] /\ call[Super].child \in Pids \cup {None}
    BY DEF Inv, TypeOK, SupervisorTypeOK, StartTypeOK, Callers, Call
  <1>2. HandlesAreSound'
    BY <1>1 DEF HandleInv, HandlesAreSound, NoneReaped
  <1>3. Owned'
    BY <1>1 DEF HandleInv, Owned, Unreaped, NoneReaped
  <1> QED BY <1>2, <1>3 DEF HandleInv

\* An activation changes no other one.
LEMMA StartStepIsOwn ==
  ASSUME NEW c \in Callers, c # Super, StartStep(c), StartTypeOK
  PROVE  call'[Super] = call[Super]
  BY DEF StartStep, StartRead, StartMark, StartSpawn, SpawnFails, StartRecord, StartCommit,
     StartRefused, Return, Continue, StartTypeOK, Callers

\* Requests begin and drop their own activations only.
LEMMA RequestsKeepSuper ==
  ASSUME NEW r \in Requests, RequestNext(r), StartTypeOK
  PROVE  call'[Super] = call[Super]
  <1>1. r # Super
    BY StartAssumption
  <1> QED BY <1>1 DEF RequestNext, Begin, Proceed, CreateCheck, DeleteCheck, DeployCheck, EnvRead,
       StopCheck, RestartCheck, ApiStart, CreateSetup, CreateSave, DeleteFiles, DeleteHistory,
       DeleteRow, DeployWrite, DeployBusy, DeploySave, EnvSave, SaveRow, Send, Abandon,
       StartTypeOK, Callers

------------------------------------------------------------------------------
\* Steps of the activation that the supervisor awaits.

\* The row it has read is that of the app it was called for, and a child it
\* spawns is a new one.
LEMMA SuperStartKeepsHandles ==
  ASSUME Inv, HandleInv, StartStep(Super), UNCHANGED supVars
  PROVE  HandleInv'
  <1>0. /\ StoreTypeOK /\ HostTypeOK /\ StartTypeOK /\ SupervisorTypeOK /\ CallsReady /\ Rooted
        /\ Super \in Callers
        /\ Owned /\ HandlesAreSound
    BY DEF Inv, TypeOK, Callers, HandleInv
  <1>1. NoneReaped /\ UNCHANGED <<running, sup>>
    BY <1>0, StartReapsNone DEF supVars
  <1>2. running \in [Names -> Pids \cup {None}] /\ call[Super] \in Call
        /\ call[Super].child \in Pids \cup {None}
    BY <1>0 DEF SupervisorTypeOK, StartTypeOK, Call
  <1>3. HandlesAreSound'
    BY <1>0, <1>1, <1>2 DEF HandlesAreSound, NoneReaped
  <1>4. call[Super].pc # "idle" /\ call[Super].app \in Names
    BY <1>0 DEF StartStep, StartRead, StartMark, StartSpawn, SpawnFails, StartRecord, StartCommit,
           StartRefused, CallsReady
  <1>5. sup.pc = "starting" /\ sup.child = None /\ call[Super].app = sup.app
    BY <1>0, <1>4 DEF Owned
  <1> DEFINE child == call[Super].child
  <1>6. child # None =>
          /\ proc'[child] # None /\ proc'[child].st # "reaped" /\ proc'[child].app = sup.app
          /\ \A n \in Names : running'[n] # child
    BY <1>0, <1>1, <1>2 DEF Owned, Unreaped, NoneReaped
  <1> SUFFICES Owned'
    BY <1>3 DEF HandleInv
  \* Whatever the step does, this much of the new activation is enough.
  <1>7. ASSUME call'[Super].pc # "idle", call'[Super].app = call[Super].app,
               call'[Super].row # None => call'[Super].row.name = call[Super].app,
               call'[Super].child = call[Super].child
        PROVE  Owned'
    BY <1>1, <1>5, <1>6, <1>7 DEF Owned, Unreaped
  <1>8. ASSUME NEW pc \in {"failed", "done"}, Return(Super, pc)
        PROVE  Owned'
    <2> DEFINE new == [call[Super] EXCEPT !.pc = pc]
    <2>1. call'[Super] = new
      BY <1>0, <1>8 DEF Return, Returned, StartTypeOK
    <2>2. new.pc = pc /\ new.app = call[Super].app /\ new.row = call[Super].row
          /\ new.child = call[Super].child
      BY <1>2 DEF Call
    <2> QED BY <1>0, <1>7, <2>1, <2>2 DEF Owned
  <1>9. ASSUME NEW pc \in {"mark", "spawn", "commit"}, NEW row \in App,
               row.name = call[Super].app, Continue(Super, pc, row)
        PROVE  Owned'
    <2> DEFINE new == [[call[Super] EXCEPT !.pc = pc] EXCEPT !.row = row]
    <2>1. call'[Super] = new
      BY <1>0, <1>9 DEF Continue, StartTypeOK
    <2>2. new.pc = pc /\ new.app = call[Super].app /\ new.row = row
          /\ new.child = call[Super].child
      BY <1>2 DEF Call
    <2> QED BY <1>7, <1>9, <2>1, <2>2
  <1>10. call[Super].pc \in {"mark", "spawn", "record", "commit"} =>
           call[Super].row \in App /\ call[Super].row.name = call[Super].app
    BY <1>0, NoneIsNoApp DEF CallsReady, Owned
  <1>11. CASE StartRead(Super)
    <2>1. CASE Return(Super, "failed")
      BY <2>1, <1>8
    <2>2. CASE apps[call[Super].app] # None
               /\ Continue(Super, "mark", Started(apps[call[Super].app]))
      <3>1. apps[call[Super].app] \in App /\ apps[call[Super].app].name = call[Super].app
        BY <1>0, <1>4, <2>2 DEF StoreTypeOK, Rooted
      <3>2. Started(apps[call[Super].app]) \in App
        BY <3>1, RowsStayRows
      <3>3. Started(apps[call[Super].app]).name = call[Super].app
        BY <3>1 DEF Started, InState, App
      <3> QED BY <1>9, <2>2, <3>2, <3>3
    <2> QED BY <1>11, <2>1, <2>2 DEF StartRead
  <1>12. CASE StartMark(Super)
    BY <1>9, <1>10, <1>12 DEF StartMark
  <1>13. CASE StartSpawn(Super)
    <2>1. PICK p \in Pids : /\ Spawn(p, call[Super].row)
                            /\ call' = [call EXCEPT ![Super].pc = "record", ![Super].child = p]
      BY <1>13 DEF StartSpawn
    <2> DEFINE new == [[call[Super] EXCEPT !.pc = "record"] EXCEPT !.child = p]
    <2>2. call'[Super] = new
      BY <1>0, <2>1 DEF StartTypeOK
    <2>3. new.pc = "record" /\ new.app = call[Super].app /\ new.row = call[Super].row
          /\ new.child = p
      BY <1>2 DEF Call
    <2>4. call[Super].row.name = sup.app /\ call[Super].row \in App
      BY <1>5, <1>10, <1>13 DEF StartSpawn
    <2>5. Unreaped(p, sup.app)'
      <3> DEFINE spawned == [st |-> "booting", app |-> call[Super].row.name,
                             port |-> ListenPort(call[Super].row),
                             bin |-> disk[call[Super].row.name], code |-> None]
      <3>1. proc'[p] = spawned
        BY <1>0, <2>1 DEF Spawn, HostTypeOK
      <3>2. proc'[p] # None
        BY <1>0, <2>1, <2>4, SpawnKeeps
      <3> QED BY <1>1, <2>4, <3>1, <3>2 DEF Unreaped
    <2>6. \A n \in Names : running'[n] # p
      <3>1. proc[p] = None
        BY <2>1 DEF Spawn, Fresh
      <3>2. p \in Nat
        BY <2>1, AppModelAssumption DEF Pids
      <3>3. p # None
        BY <3>2, AppModelAssumption
      <3> QED BY <1>0, <1>1, <3>1, <3>3 DEF HandlesAreSound
    <2> QED BY <1>0, <1>1, <1>5, <2>2, <2>3, <2>4, <2>5, <2>6 DEF Owned, Unreaped
  <1>14. CASE SpawnFails(Super) \/ StartRefused(Super)
    BY <1>8, <1>14 DEF SpawnFails, StartRefused
  <1>15. CASE StartRecord(Super)
    BY <1>9, <1>10, <1>15 DEF StartRecord
  <1>16. CASE StartCommit(Super)
    BY <1>8, <1>16 DEF StartCommit
  <1> QED BY <1>11, <1>12, <1>13, <1>14, <1>15, <1>16 DEF StartStep

------------------------------------------------------------------------------
\* Steps of the supervisor task.

\* Where the supervisor keeps the child it took, if it took one, and moves
\* neither handles nor activations.
LEMMA QuietStepKeepsHandles ==
  ASSUME HandleInv, UNCHANGED <<proc, call, running>>,
         sup.pc # "starting", sup'.pc # "starting",
         sup'.child \in {sup.child, None},
         sup'.child # None => sup'.pc \in {"stopMark", "kill", "closeRun", "stopSave"}
  PROVE  HandleInv'
  <1>1. call[Super].pc = "idle" /\ call[Super].child = None
    BY DEF HandleInv, Owned
  <1>2. HandlesAreSound'
    BY AppModelAssumption DEF HandleInv, HandlesAreSound
  <1>3. Owned'
    BY <1>1 DEF HandleInv, Owned
  <1> QED BY <1>2, <1>3 DEF HandleInv

\* start_process begins without a child, ...
LEMMA CallStartKeepsHandles ==
  ASSUME HandleInv, StartTypeOK, UNCHANGED <<proc, running>>, NEW n \in Names,
         CallStart(n), sup.child = None,
         sup'.pc = "starting", sup'.app = n, sup'.child = None
  PROVE  HandleInv'
  <1> DEFINE new == StartCall(n)
  <1>1. call'[Super] = new
    BY DEF CallStart, StartTypeOK, Callers
  <1>2. new.pc = "read" /\ new.app = n /\ new.row = None /\ new.child = None
    BY DEF StartCall, IdleCall
  <1>3. HandlesAreSound'
    BY DEF HandleInv, HandlesAreSound
  <1>4. Owned'
    BY <1>1, <1>2 DEF Owned
  <1> QED BY <1>3, <1>4 DEF HandleInv

\* ... and ends with the child of start::execute in the map, ...
LEMMA StartDoneKeepsHandles ==
  ASSUME Inv, HandleInv, StartDone
  PROVE  HandleInv'
  <1>1. /\ running \in [Names -> Pids \cup {None}]
        /\ call'[Super] = IdleCall
        /\ sup.app \in Names
    BY DEF Inv, TypeOK, SupervisorTypeOK, StartTypeOK, Callers, StartDone, TaskReady, At
  <1>2. sup'.pc \in {"idle", "next"} /\ sup'.child = None
    BY DEF StartDone, Finish, Returns, IdleTask
  <1>3. running' = [running EXCEPT ![sup.app] = call[Super].child] /\ UNCHANGED proc
    BY DEF StartDone, hostVars
  <1>4. call[Super].child # None => Unreaped(call[Super].child, sup.app)
    BY DEF HandleInv, Owned
  <1>5. HandlesAreSound'
    <2> SUFFICES ASSUME NEW n \in Names, running'[n] # None
                 PROVE  /\ proc'[running'[n]] # None
                        /\ proc'[running'[n]].st # "reaped"
                        /\ proc'[running'[n]].app = n
                        /\ sup'.child # running'[n]
      BY DEF HandlesAreSound
    <2>1. CASE n = sup.app
      BY <1>1, <1>2, <1>3, <1>4, <2>1 DEF Unreaped
    <2>2. CASE n # sup.app
      BY <1>1, <1>2, <1>3, <2>2 DEF Unreaped, HandleInv, HandlesAreSound
    <2> QED BY <2>1, <2>2
  <1>6. Owned'
    BY <1>1, <1>2 DEF Owned, IdleCall
  <1> QED BY <1>5, <1>6 DEF HandleInv

\* ... or without, when start::execute failed: the child, if there is one, is
\* on its own.
LEMMA StartFailedKeepsHandles ==
  ASSUME Inv, HandleInv, StartFailed
  PROVE  HandleInv'
  <1>1. call'[Super] = IdleCall /\ UNCHANGED <<proc, running>>
    BY DEF Inv, TypeOK, StartTypeOK, Callers, StartFailed, hostVars
  <1>2. sup.child = None
    BY DEF StartFailed, At, HandleInv, Owned
  <1>3. sup'.pc \in {"idle", "next", "restoreFail"} /\ sup'.child = None
    <2>1. CASE Goto("restoreFail")
      BY <1>2, <2>1 DEF Goto, Inv, TypeOK, SupervisorTypeOK, Task
    <2>2. CASE Finish
      BY <2>2 DEF Finish, Returns, IdleTask
    <2> QED BY <2>1, <2>2 DEF StartFailed
  <1>4. HandlesAreSound'
    BY <1>1, <1>3 DEF HandleInv, HandlesAreSound
  <1>5. Owned'
    BY <1>1, <1>3 DEF Owned, IdleCall
  <1> QED BY <1>4, <1>5 DEF HandleInv

\* handle_stop and handle_process_exit take a handle out of the map. No other
\* app has the same one, since each is of a process of its own app.
LEMMA TakeChildKeepsHandles ==
  ASSUME Inv, HandleInv, TakeChild, UNCHANGED <<proc, call>>, sup.app \in Names,
         sup.pc # "starting", sup'.pc # "starting",
         sup'.child \in {None, running[sup.app]},
         sup'.child # None => sup'.pc = "stopMark"
  PROVE  HandleInv'
  <1>1. running' = [running EXCEPT ![sup.app] = None]
        /\ running \in [Names -> Pids \cup {None}]
    BY DEF TakeChild, Inv, TypeOK, SupervisorTypeOK
  <1>2. call[Super].pc = "idle" /\ call[Super].child = None
    BY DEF HandleInv, Owned
  <1>3. HandlesAreSound'
    <2> SUFFICES ASSUME NEW n \in Names, running'[n] # None
                 PROVE  /\ proc'[running'[n]] # None
                        /\ proc'[running'[n]].st # "reaped"
                        /\ proc'[running'[n]].app = n
                        /\ sup'.child # running'[n]
      BY DEF HandlesAreSound
    <2>1. n # sup.app /\ running'[n] = running[n]
      BY <1>1
    <2>2. Unreaped(running[n], n)
      BY <2>1 DEF Unreaped, HandleInv, HandlesAreSound
    <2>3. running[sup.app] # None => Unreaped(running[sup.app], sup.app)
      BY DEF Unreaped, HandleInv, HandlesAreSound
    <2> QED BY <2>1, <2>2, <2>3 DEF Unreaped
  <1>4. Owned'
    BY <1>2 DEF HandleInv, Owned
  <1> QED BY <1>3, <1>4 DEF HandleInv

\* Child::kill waits for a child whose handle is out of the map.
LEMMA KillKeepsHandles ==
  ASSUME Inv, HandleInv, Kill
  PROVE  HandleInv'
  <1>1. /\ sup.child \in Pids /\ proc \in [Pids -> Process \cup {None}]
        /\ running \in [Names -> Pids \cup {None}]
    BY DEF Inv, TypeOK, HostTypeOK, SupervisorTypeOK, TaskReady, Kill, At
  <1>2. \A p \in Pids \ {sup.child} : proc'[p] = proc[p]
    BY <1>1 DEF Kill, Reap
  <1>3. UNCHANGED <<call, running>>
    BY DEF Kill
  <1>4. sup.pc = "kill" /\ sup'.pc = "closeRun" /\ sup'.child = sup.child
    BY DEF Kill, At, Inv, TypeOK, SupervisorTypeOK, Task
  <1>5. HandlesAreSound'
    BY <1>1, <1>2, <1>3, <1>4 DEF HandleInv, HandlesAreSound
  <1>6. Owned'
    BY <1>3, <1>4 DEF HandleInv, Owned
  <1> QED BY <1>5, <1>6 DEF HandleInv

\* A handler that returns drops the child it holds; so does one that goes on to
\* restart an unhealthy app, which holds none.
LEMMA FinishDropsChild ==
  ASSUME sup \in Task, sup.pc # "starting",
         Finish \/ (Unhealthy /\ sup.child = None)
  PROVE  sup'.pc # "starting" /\ sup'.child = None
  <1>1. CASE Finish
    BY <1>1 DEF Finish, Returns, IdleTask
  <1>2. CASE sup' = [sup EXCEPT !.pc = "restart", !.row = None] /\ sup.child = None
    BY <1>2 DEF Task
  <1> QED BY <1>1, <1>2 DEF Unhealthy

\* A failed statement ends the handler, or the activation it awaits.
LEMMA FailureKeepsHandles ==
  ASSUME Inv, HandleInv, StatementFails
  PROVE  HandleInv'
  <1>0. /\ UNCHANGED <<proc, running>>
        /\ sup \in Task /\ StartTypeOK /\ Super \in Callers
    BY DEF StatementFails, hostVars, Inv, TypeOK, SupervisorTypeOK, Callers
  <1>1. CASE At("starting")
    <2>1. UNCHANGED sup /\ Return(Super, "failed") /\ call[Super].pc # "idle"
      BY <1>1 DEF StatementFails, At
    <2> DEFINE new == [call[Super] EXCEPT !.pc = "failed"]
    <2>2. call'[Super] = new
      BY <1>0, <2>1 DEF Return, Returned, StartTypeOK
    <2>3. new.pc = "failed" /\ new.app = call[Super].app /\ new.row = call[Super].row
          /\ new.child = call[Super].child
      BY <1>0 DEF StartTypeOK, Call
    <2>4. HandlesAreSound'
      BY <1>0, <2>1 DEF HandleInv, HandlesAreSound
    <2>5. Owned'
      BY <1>0, <2>1, <2>2, <2>3 DEF HandleInv, Owned, Unreaped
    <2> QED BY <2>4, <2>5 DEF HandleInv
  <1>2. CASE ~At("starting")
    <2>1. UNCHANGED call /\ sup.pc # "starting"
      BY <1>2 DEF StatementFails, At
    <2>2. sup'.pc # "starting" /\ sup'.child = None
      <3>1. CASE Finish
        BY <1>0, <2>1, <3>1, FinishDropsChild
      <3>2. CASE At("health") /\ Unhealthy
        BY <1>0, <2>1, <3>2, FinishDropsChild DEF At, HandleInv, Owned
      <3>3. CASE sup' = IdleTask
        BY <3>3 DEF IdleTask
      <3> QED BY <1>2, <3>1, <3>2, <3>3 DEF StatementFails
    <2> QED BY <1>0, <2>1, <2>2, QuietStepKeepsHandles
  <1> QED BY <1>1, <1>2

\* The steps that go from one statement to the next.
LEMMA PlainStepKeepsHandles ==
  ASSUME Inv, HandleInv,
         \/ Restore \/ LoopEnds \/ Receive \/ Tick \/ RestoreFail \/ StopMark \/ CloseRun
         \/ StopSave \/ RestartRead \/ HealthRead \/ ProbePasses \/ ProbeFails \/ ExitClose
  PROVE  HandleInv'
  <1>0. sup \in Task /\ sup.pc # "starting"
    BY DEF Inv, TypeOK, SupervisorTypeOK, Restore, LoopEnds, Receive, Tick, RestoreFail,
       StopMark, CloseRun, StopSave, RestartRead, HealthRead, ProbePasses, ProbeFails, ExitClose,
       At
  <1>1. UNCHANGED <<proc, call, running>>
    BY DEF Restore, LoopEnds, Receive, Tick, RestoreFail, StopMark, CloseRun, StopSave,
       RestartRead, HealthRead, ProbePasses, ProbeFails, ExitClose, hostVars
  <1>2. sup.child # None => sup.pc \in {"stopMark", "kill", "closeRun", "stopSave"}
    BY DEF HandleInv, Owned
  <1> DEFINE Moves == /\ sup'.pc # "starting"
                      /\ sup'.child \in {sup.child, None}
                      /\ sup'.child # None =>
                           sup'.pc \in {"stopMark", "kill", "closeRun", "stopSave"}
  <1> SUFFICES Moves
    BY <1>0, <1>1, QuietStepKeepsHandles
  <1>3. CASE Finish \/ (Unhealthy /\ sup.child = None)
    BY <1>0, <1>3, FinishDropsChild
  <1>4. CASE Restore \/ LoopEnds \/ Tick
    <2>1. sup.child = None
      BY <1>2, <1>4 DEF Restore, LoopEnds, Tick, At
    <2>2. CASE LoopEnds
      BY <2>2 DEF LoopEnds, IdleTask
    <2>3. CASE Restore
      BY <1>0, <2>1, <2>3 DEF Restore, Task
    <2>4. CASE Tick
      BY <1>0, <2>1, <2>4 DEF Tick, Task
    <2> QED BY <1>4, <2>2, <2>3, <2>4
  <1>5. CASE Receive
    <2>1. queue \in Seq(Message) /\ queue # << >>
      BY <1>5 DEF Receive, Inv, TypeOK, SupervisorTypeOK
    <2>2. Head(queue) \in Message
      BY <2>1
    <2>3. Handler(Head(queue).kind) \in {"startCheck", "stop", "restart", "health", "exit"}
      BY <2>2 DEF Handler, Message
    <2> QED BY <1>0, <1>2, <1>5, <2>3 DEF Receive, At, Task
  <1>6. CASE RestoreFail
    BY <1>3, <1>6 DEF RestoreFail
  <1>7. CASE StopMark
    BY <1>0, <1>3, <1>7 DEF StopMark, Task
  <1>8. CASE CloseRun
    BY <1>0, <1>8 DEF CloseRun, Goto, Task
  <1>9. CASE StopSave
    BY <1>0, <1>3, <1>9 DEF StopSave, AfterStop, Finish, Task
  <1>10. CASE RestartRead
    BY <1>0, <1>2, <1>3, <1>10 DEF RestartRead, At, Task
  <1>11. CASE HealthRead
    BY <1>0, <1>2, <1>3, <1>11 DEF HealthRead, At, Task
  <1>12. CASE ProbePasses \/ ProbeFails
    BY <1>2, <1>3, <1>12 DEF ProbePasses, ProbeFails, At
  <1>13. CASE ExitClose
    BY <1>0, <1>2, <1>13 DEF ExitClose, Goto, At, Task
  <1> QED BY <1>4, <1>5, <1>6, <1>7, <1>8, <1>9, <1>10, <1>11, <1>12, <1>13

------------------------------------------------------------------------------

\* The supervisor keeps handles sound.
LEMMA SupervisorKeepsHandles ==
  ASSUME Inv, HandleInv, SupervisorStep
  PROVE  HandleInv'
  <1>0. sup \in Task /\ StartTypeOK
    BY DEF Inv, TypeOK, SupervisorTypeOK
  <1>1. sup.child # None => sup.pc \in {"stopMark", "kill", "closeRun", "stopSave"}
    BY DEF HandleInv, Owned
  <1>2. CASE NextApp
    <2>1. sup.pc = "next" /\ sup.child = None /\ UNCHANGED <<proc, running>>
      BY <1>1, <1>2 DEF NextApp, At, hostVars
    <2>2. PICK row \in sup.todo :
            IF sup.job = "boot"
              THEN /\ sup' = [sup EXCEPT !.pc = "starting", !.app = row.name, !.row = row,
                                         !.todo = @ \ {row}]
                   /\ CallStart(row.name)
              ELSE /\ sup' = [sup EXCEPT !.pc = "health", !.app = row.name, !.todo = @ \ {row}]
                   /\ UNCHANGED call
      BY <1>2 DEF NextApp
    <2>3. row.name \in Names
      BY <1>0 DEF Task, App
    <2>4. CASE sup.job = "boot"
      <3>1. sup'.pc = "starting" /\ sup'.app = row.name /\ sup'.child = None
        BY <1>0, <2>1, <2>2, <2>4 DEF Task
      <3> QED BY <1>0, <2>1, <2>2, <2>3, <2>4, <3>1, CallStartKeepsHandles
    <2>5. CASE sup.job # "boot"
      <3>1. sup'.pc = "health" /\ sup'.child = None /\ UNCHANGED call
        BY <1>0, <2>1, <2>2, <2>5 DEF Task
      <3> QED BY <2>1, <3>1, QuietStepKeepsHandles
    <2> QED BY <2>4, <2>5
  <1>3. CASE StartCheck \/ ExitSave
    <2>1. /\ sup.pc \in {"startCheck", "exitSave"} /\ sup.child = None
          /\ UNCHANGED <<proc, running>> /\ sup.app \in Names
      BY <1>1, <1>3 DEF StartCheck, ExitSave, At, hostVars, Inv, TaskReady
    <2>2. CASE Goto("starting") /\ CallStart(sup.app)
      <3>1. sup'.pc = "starting" /\ sup'.app = sup.app /\ sup'.child = None
        BY <1>0, <2>1, <2>2 DEF Goto, Task
      <3> QED BY <1>0, <2>1, <2>2, <3>1, CallStartKeepsHandles
    <2>3. CASE Finish /\ UNCHANGED call
      <3>1. sup'.pc # "starting" /\ sup'.child = None
        BY <1>0, <2>1, <2>3, FinishDropsChild
      <3> QED BY <2>1, <2>3, <3>1, QuietStepKeepsHandles
    <2> QED BY <1>3, <2>2, <2>3 DEF StartCheck, ExitSave
  <1>4. CASE StopRead \/ ExitRead
    <2>1. /\ sup.pc \in {"stop", "exit"} /\ sup.child = None
          /\ UNCHANGED <<proc, call>> /\ sup.app \in Names
      BY <1>1, <1>4 DEF StopRead, ExitRead, At, hostVars, Inv, TaskReady
    <2>2. CASE Finish /\ UNCHANGED running
      <3>1. sup'.pc # "starting" /\ sup'.child = None
        BY <1>0, <2>1, <2>2, FinishDropsChild
      <3> QED BY <2>1, <2>2, <3>1, QuietStepKeepsHandles
    <2>3. CASE /\ TakeChild
               /\ sup' = [sup EXCEPT !.pc = IF running[sup.app] # None THEN "stopMark"
                                                                       ELSE "forget",
                                     !.row = Row, !.child = running[sup.app]]
      <3>1. /\ sup'.pc # "starting" /\ sup'.child = running[sup.app]
            /\ sup'.child # None => sup'.pc = "stopMark"
        BY <1>0, <2>3 DEF Task
      <3> QED BY <2>1, <2>3, <3>1, TakeChildKeepsHandles
    <2>4. CASE TakeChild /\ sup' = [sup EXCEPT !.pc = "exitClose", !.row = Exited(Row, sup.code)]
      <3>1. sup'.pc = "exitClose" /\ sup'.child = None
        BY <1>0, <2>1, <2>4 DEF Task
      <3> QED BY <2>1, <2>4, <3>1, TakeChildKeepsHandles
    <2> QED BY <1>4, <2>2, <2>3, <2>4 DEF StopRead, ExitRead
  <1> QED BY <1>2, <1>3, <1>4, StartDoneKeepsHandles, StartFailedKeepsHandles, KillKeepsHandles,
        FailureKeepsHandles, PlainStepKeepsHandles DEF SupervisorStep, Work

------------------------------------------------------------------------------

\* A new server holds no handle and awaits nothing.
LEMMA EmptyHandles ==
  ASSUME running = [n \in Names |-> None], call = [c \in Callers |-> IdleCall], sup = BootTask
  PROVE  HandleInv
  <1>1. call[Super] = IdleCall
    BY DEF Callers
  <1>2. sup.pc = "restore" /\ sup.child = None
    BY DEF BootTask, IdleTask
  <1> QED BY <1>1, <1>2 DEF HandleInv, HandlesAreSound, Owned, IdleCall

\* The same of the state that a crash leads to.
LEMMA NewServerHoldsNothing ==
  ASSUME running' = [n \in Names |-> None], call' = [c \in Callers |-> IdleCall],
         sup' = BootTask
  PROVE  HandleInv'
  <1>1. call'[Super] = IdleCall
    BY DEF Callers
  <1>2. sup'.pc = "restore" /\ sup'.child = None
    BY DEF BootTask, IdleTask
  <1> QED BY <1>1, <1>2 DEF HandleInv, HandlesAreSound, Owned, IdleCall

\* Every step keeps handles sound.
LEMMA NextKeepsHandles ==
  ASSUME Inv, HandleInv, [Next]_vars
  PROVE  HandleInv'
  <1>0. StartTypeOK /\ HostTypeOK
    BY DEF Inv, TypeOK
  <1>1. CASE SupervisorNext
    BY <1>1, SupervisorKeepsHandles DEF SupervisorNext, SupervisorStep
  <1>2. CASE \E c \in Callers : CallNext(c)
    <2>1. PICK c \in Callers : StartStep(c) /\ UNCHANGED supVars
      BY <1>2 DEF CallNext
    <2>2. CASE c = Super
      BY <2>1, <2>2, SuperStartKeepsHandles
    <2>3. CASE c # Super
      <3>1. NoneReaped /\ call'[Super] = call[Super]
        BY <1>0, <2>1, <2>3, StartReapsNone, StartStepIsOwn
      <3> QED BY <2>1, <3>1, OthersKeepHandles DEF supVars
    <2> QED BY <2>2, <2>3
  <1>3. CASE \E r \in Requests : RequestNext(r)
    <2>1. PICK r \in Requests : RequestNext(r)
      BY <1>3
    <2>2. UNCHANGED <<running, sup>>
      BY <2>1 DEF RequestNext, Begin, Proceed, CreateCheck, DeleteCheck, DeployCheck, EnvRead,
       StopCheck, RestartCheck, ApiStart, CreateSetup, CreateSave, DeleteFiles, DeleteHistory,
       DeleteRow, DeployWrite, DeployBusy, DeploySave, EnvSave, SaveRow, Send, Abandon, supVars
    <2> QED BY <1>0, <2>1, <2>2, RequestsReapNone, RequestsKeepSuper, OthersKeepHandles
  <1>4. CASE \E p \in Pids : ProcessNext(p)
    <2>1. PICK p \in Pids : ProcessNext(p)
      BY <1>4
    <2>2. UNCHANGED <<running, sup>> /\ call'[Super] = call[Super]
      BY <2>1 DEF ProcessNext, supVars
    <2> QED BY <1>0, <2>1, <2>2, ProcessesReapNone, OthersKeepHandles
  <1>5. CASE LibrarySend \/ UNCHANGED vars
    <2>1. UNCHANGED <<proc, call, running, sup>>
      BY <1>5 DEF LibrarySend, vars, hostVars, supVars
    <2> QED BY <2>1, OthersKeepHandles DEF NoneReaped
  <1>6. CASE Crash
    BY <1>6, NewServerHoldsNothing DEF Crash
  <1> QED BY <1>1, <1>2, <1>3, <1>4, <1>5, <1>6 DEF Next

\* Every handle in the supervisor's map is of a process that it spawned for that
\* app and that nobody has waited for, and it is not the one being stopped: so
\* Child::kill never reaches another app's process, nor one that is gone.
THEOREM HandlesSound == Spec => []HandlesAreSound
  <1>1. Init => HandleInv
    BY EmptyHandles DEF Init
  <1>2. HandleInv => HandlesAreSound
    BY DEF HandleInv
  <1> QED BY <1>1, <1>2, NextKeepsHandles, Invariance, PTL DEF Spec

==============================================================================
