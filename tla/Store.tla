-------------------------------- MODULE Store --------------------------------
(***************************************************************************)
(* The SQLite database (src/db.rs, migrations): table apps, whose rows are *)
(* written whole by an upsert on the id, and table process_history, whose  *)
(* rows refer to an app by a foreign key that sqlx enables.                *)
(*                                                                         *)
(* Every operator is one statement.  Statements are atomic, and nothing in *)
(* the program groups two of them into a transaction.                      *)
(***************************************************************************)
EXTENDS AppModel, Sequences

VARIABLES
  apps,     \* the row stored under each name (the column is UNIQUE), or None
  history,  \* the runs recorded under each app id, oldest first
  issued    \* how many ids Uuid::new_v4 has produced

storeVars == <<apps, history, issued>>

\* exit_reason of a closed run. While ended_at is NULL a run has no reason.
ExitReason == {"Stopped by user", "Clean exit", "Crashed"}

ASSUME NoneIsNoReason == None \notin ExitReason

\* The pid tells runs apart in the model; the table has no such column.
Run == [pid : Pids \cup {0}, reason : ExitReason \cup {None}]

StoreTypeOK ==
  /\ apps \in [Names -> App \cup {None}]
  /\ history \in [Ids -> Seq(Run)]
  /\ issued \in 0 .. MaxIds

------------------------------------------------------------------------------

Stored == {n \in Names : apps[n] # None}

HasId(id) == \E n \in Stored : apps[n].id = id

GetByState(state) == {apps[n] : n \in {m \in Stored : apps[m].state = state}}

UsedPorts == {apps[n].port : n \in Stored}

\* INSERT ... ON CONFLICT(id) DO UPDATE. The conflict clause does not cover
\* the name: a row of another id under the same name makes the statement fail.
\* A row that is no longer there is inserted again.
Saveable(app) == apps[app.name] # None => apps[app.name].id = app.id

Save(app) ==
  /\ Saveable(app)
  /\ apps' = [apps EXCEPT ![app.name] = app]
  /\ UNCHANGED <<history, issued>>

\* An INSERT into process_history fails on a missing app.
InsertRun(id, pid) ==
  /\ HasId(id)
  /\ history' = [history EXCEPT ![id] = Append(@, [pid |-> pid, reason |-> None])]
  /\ UNCHANGED <<apps, issued>>

\* update_process_history: the SELECT takes the latest run, closed or not, and
\* the UPDATE by its id follows. Nothing in the program reads a run in between,
\* and a run deleted in between is gone either way, so the two are one step.
ClosedRun(runs, i, reason) ==
  IF runs = << >> THEN runs ELSE [runs EXCEPT ![i].reason = reason]

\* Variant: ORDER BY started_at without DESC.
CloseFirstRun(id, reason) ==
  /\ history' = [history EXCEPT ![id] = ClosedRun(@, 1, reason)]
  /\ UNCHANGED <<apps, issued>>

CloseLatestRun(id, reason) ==
  /\ history' = [history EXCEPT ![id] = ClosedRun(@, Len(@), reason)]
  /\ UNCHANGED <<apps, issued>>

\* The two statements of apps::delete_by_app_id. The foreign key makes the
\* second one fail while the app has a run.
DeleteRuns(id) ==
  /\ history' = [history EXCEPT ![id] = << >>]
  /\ UNCHANGED <<apps, issued>>

Deletable(id) == history[id] = << >>

DeleteApp(id) ==
  /\ Deletable(id)
  /\ apps' = [n \in Names |-> IF apps[n] # None /\ apps[n].id = id THEN None ELSE apps[n]]
  /\ UNCHANGED <<history, issued>>

==============================================================================
