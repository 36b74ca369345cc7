--------------------------------- MODULE Api ---------------------------------
(***************************************************************************)
(* The HTTP handlers (src/api.rs) and the commands they run                *)
(* (src/commands/app_command): each request runs in a task of its own, at  *)
(* any moment of the others.  Stop and restart go through the supervisor's *)
(* channel; create, delete, deploy, env and start work on the database,    *)
(* the disk and the processes directly.                                    *)
(***************************************************************************)
EXTENDS Supervisor

CONSTANT ClientOps  \* the operations that clients use

ASSUME ApiAssumption ==
  ClientOps \subseteq {"create", "delete", "deploy", "env", "start", "stop", "restart"}

VARIABLE req  \* requests in flight, other than inside start::execute

\* Where a handler is, the row it has read and changed, what it is to send.
Request == [pc   : {"idle", "setup", "insert", "teardown", "deleteRuns", "deleteApp",
                    "write", "deployed", "envSave", "send"},
            row  : App \cup {None},
            id   : Ids \cup {None},
            app  : Names \cup {None},
            hash : Hashes \cup {None},
            kind : {"Stop", "Restart", None}]

IdleRequest == [pc |-> "idle", row |-> None, id |-> None, app |-> None, hash |-> None,
                kind |-> None]

ApiTypeOK == req \in [Requests -> Request]

------------------------------------------------------------------------------

Free(r) == req[r] = IdleRequest /\ call[r].pc = "idle"

ReqAt(r, pc) == req[r].pc = pc

Step(r, frame) == req' = [req EXCEPT ![r] = frame]

\* The handler answers.
Respond(r) == Step(r, IdleRequest)

\* Variant: any id that no row has by now.
CreateCheckReusing(r) ==
  /\ "create" \in ClientOps
  /\ Free(r)
  /\ issued < MaxIds
  /\ \E n \in Names, id \in Ids :
       /\ apps[n] = None
       /\ ~HasId(id)
       /\ Step(r, [IdleRequest EXCEPT !.pc = "setup", !.app = n, !.id = id])
  /\ issued' = issued + 1
  /\ UNCHANGED <<apps, history, hostVars, call, supVars>>

\* create::execute: App::new draws an id once no app has the name.
CreateCheck(r) ==
  /\ "create" \in ClientOps
  /\ Free(r)
  /\ issued < MaxIds
  /\ \E n \in Names :
       /\ apps[n] = None
       /\ Step(r, [IdleRequest EXCEPT !.pc = "setup", !.app = n, !.id = issued + 1])
  /\ issued' = issued + 1
  /\ UNCHANGED <<apps, history, hostVars, call, supVars>>

\* Variant: the ports of apps that do not run are free.
FreePortNow(port) ==
  LET used == {apps[n].port : n \in {m \in Stored : IsRunning(apps[m])}} IN
  /\ port \in Ports \ used
  /\ \A q \in Ports : q < port => q \in used

\* get_next_available_port: the least port that no stored row has by now.
FreePort(port) ==
  /\ port \in Ports \ UsedPorts
  /\ \A q \in Ports : q < port => q \in UsedPorts

CreateSetup(r) ==
  /\ ReqAt(r, "setup")
  /\ \E port \in Ports :
       /\ FreePort(port)
       /\ Step(r, [req[r] EXCEPT !.pc = "insert", !.id = None, !.app = None,
                                 !.row = NewApp(req[r].id, req[r].app, port)])
  /\ UNCHANGED <<storeVars, hostVars, call, supVars>>

\* A handler that writes back the row it holds, and answers.
SaveRow(r, pc) ==
  /\ ReqAt(r, pc)
  /\ IF Saveable(req[r].row) THEN Save(req[r].row) ELSE UNCHANGED storeVars
  /\ Respond(r)
  /\ UNCHANGED <<hostVars, call, supVars>>

CreateSave(r) == SaveRow(r, "insert")

------------------------------------------------------------------------------
\* delete::execute looks at the state column, not at the supervisor's map.

DeleteCheck(r) ==
  /\ "delete" \in ClientOps
  /\ Free(r)
  /\ \E n \in Stored :
       /\ ~IsRunning(apps[n])
       /\ Step(r, [IdleRequest EXCEPT !.pc = "teardown", !.app = n, !.id = apps[n].id])
  /\ UNCHANGED <<storeVars, hostVars, call, supVars>>

DeleteFiles(r) ==
  /\ ReqAt(r, "teardown")
  /\ RemoveDir(req[r].app)
  /\ Step(r, [req[r] EXCEPT !.pc = "deleteRuns", !.app = None])
  /\ UNCHANGED <<storeVars, call, supVars>>

DeleteHistory(r) ==
  /\ ReqAt(r, "deleteRuns")
  /\ DeleteRuns(req[r].id)
  /\ Step(r, [req[r] EXCEPT !.pc = "deleteApp"])
  /\ UNCHANGED <<hostVars, call, supVars>>

DeleteRow(r) ==
  /\ ReqAt(r, "deleteApp")
  /\ IF Deletable(req[r].id) THEN DeleteApp(req[r].id) ELSE UNCHANGED storeVars
  /\ Respond(r)
  /\ UNCHANGED <<hostVars, call, supVars>>

------------------------------------------------------------------------------
\* deploy::execute answers "identical" from the stored hash alone.

DeployCheck(r) ==
  /\ "deploy" \in ClientOps
  /\ Free(r)
  /\ \E n \in Stored, hash \in Hashes :
       /\ IsHashChanged(apps[n], hash)
       /\ Step(r, [IdleRequest EXCEPT !.pc = "write", !.row = apps[n], !.hash = hash])
  /\ UNCHANGED <<storeVars, hostVars, call, supVars>>

DeployWrite(r) ==
  /\ ReqAt(r, "write")
  /\ WriteBinary(req[r].row.name, req[r].hash)
  /\ Step(r, [req[r] EXCEPT !.pc = "deployed", !.hash = None,
                            !.row = Deployed(@, req[r].hash)])
  /\ UNCHANGED <<storeVars, call, supVars>>

DeployBusy(r) ==
  /\ ReqAt(r, "write")
  /\ Busy(req[r].row.name)
  /\ Respond(r)
  /\ UNCHANGED <<storeVars, hostVars, call, supVars>>

DeploySave(r) == SaveRow(r, "deployed")

------------------------------------------------------------------------------
\* set_env sets or removes PORT, or some variable that no step here depends on:
\* then it writes the row back as it read it.

EnvRead(r) ==
  /\ "env" \in ClientOps
  /\ Free(r)
  /\ \E n \in Stored, port \in Overrides \cup {None} :
       Step(r, [IdleRequest EXCEPT !.pc = "envSave", !.row = WithEnv(apps[n], port)])
  /\ UNCHANGED <<storeVars, hostVars, call, supVars>>

EnvSave(r) == SaveRow(r, "envSave")

------------------------------------------------------------------------------
\* The three operations on the process. A stop of an app that the database
\* calls Stopped is answered at once.

StopCheck(r) ==
  /\ "stop" \in ClientOps
  /\ Free(r)
  /\ \E n \in Stored :
       /\ apps[n].state # "Stopped"
       /\ Step(r, [IdleRequest EXCEPT !.pc = "send", !.app = n, !.kind = "Stop"])
  /\ UNCHANGED <<storeVars, hostVars, call, supVars>>

RestartCheck(r) ==
  /\ "restart" \in ClientOps
  /\ Free(r)
  /\ \E n \in Stored :
       /\ IsDeployed(apps[n])
       /\ Step(r, [IdleRequest EXCEPT !.pc = "send", !.app = n, !.kind = "Restart"])
  /\ UNCHANGED <<storeVars, hostVars, call, supVars>>

\* Variant: a send that does not wait.
SendAtOnce(r) ==
  /\ ReqAt(r, "send")
  /\ queue' = Append(queue, [kind |-> req[r].kind, app |-> req[r].app, code |-> None])
  /\ Respond(r)
  /\ UNCHANGED <<storeVars, hostVars, call, running, sup>>

\* A send waits for room in the channel. What stop::execute reads 500 ms later
\* is only printed.
Send(r) ==
  /\ ReqAt(r, "send")
  /\ Len(queue) < Capacity
  /\ queue' = Append(queue, [kind |-> req[r].kind, app |-> req[r].app, code |-> None])
  /\ Respond(r)
  /\ UNCHANGED <<storeVars, hostVars, call, running, sup>>

ApiStart(r) ==
  /\ "start" \in ClientOps
  /\ Free(r)
  /\ \E n \in Stored : call' = [call EXCEPT ![r] = StartCall(n)]
  /\ UNCHANGED <<storeVars, hostVars, supVars, req>>

\* The client disconnects, which drops the task at its await, or a statement
\* or a file operation fails: what was done stays done. A directory that is
\* being removed may be gone by then.
Abandon(r) ==
  /\ "io" \in Faults
  /\ ~Free(r)
  /\ Respond(r)
  /\ call' = [call EXCEPT ![r] = IdleCall]
  /\ UNCHANGED <<storeVars, hostVars, supVars>>

Begin(r) ==
  \/ CreateCheck(r)
  \/ DeleteCheck(r)
  \/ DeployCheck(r)
  \/ EnvRead(r)
  \/ StopCheck(r)
  \/ RestartCheck(r)
  \/ ApiStart(r)

Proceed(r) ==
  \/ CreateSetup(r)
  \/ CreateSave(r)
  \/ DeleteFiles(r)
  \/ DeleteHistory(r)
  \/ DeleteRow(r)
  \/ DeployWrite(r)
  \/ DeployBusy(r)
  \/ DeploySave(r)
  \/ EnvSave(r)
  \/ Send(r)

==============================================================================
