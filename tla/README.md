# Verification of bindrop

bindrop runs small web applications ("apps", one binary each) on one machine:
an HTTP API creates, deploys, starts and stops them, a supervisor keeps them
running, a proxy forwards requests to them.  This directory holds TLA+ modules
that model the server, the TLC configurations that check them, and proofs for
the TLA+ proof system.  Paths below are relative to the root of the repository.

## 1. The system

| Part | Source | State it keeps | Operations |
|---|---|---|---|
| App model | `src/models.rs` | none; one record per app | `new`, `deployed`, `started`, `running`, restart policy |
| Database | `src/db.rs`, `migrations/` | tables `apps` and `process_history` | upsert of a whole row, reads by name and state, insert and close a run, delete |
| Processes and files | `src/providers/cmd.rs` | child processes, the directory of each app | `setup`, `teardown`, `start` |
| `start::execute` | `src/commands/app_command/start.rs` | local variables | turns a row into a process |
| Supervisor | `src/supervisor.rs` | the channel, the map `running_processes`, its local variables | restore, five messages, health timer |
| HTTP API | `src/api.rs`, `src/commands/app_command/*.rs` | local variables of each request | create, delete, deploy, set env, start, stop, restart; list, get, logs |
| Server | `src/commands/server_command/serve.rs` | - | start, dispatch by host name, end |
| Proxy, admin page | `serve.rs` | - | read a row, forward or render |
| Logs | `src/commands/app_command/logs.rs`, `api.rs` | the log file | last lines, follow |
| CLI, API client | `src/cli.rs`, `src/api_client.rs` | - | one HTTP request per command |
| Configuration, errors | `src/config.rs`, `src/errors.rs` | - | paths, the port allocator |

How they interact:

- Every request is a task.  Requests and the supervisor share the **database**
  and nothing guards it: each statement is atomic, no two are in a transaction,
  and every writer saves the *whole row* it read earlier.
- Stop and restart requests go through a **bounded channel** to the supervisor;
  start, create, delete, deploy and set-env do not go through it at all.
- The supervisor alone is meant to hold `Child` handles.  The database says
  what should run, the map says what the supervisor looks after, and the
  operating system knows what does run: `README.md` calls these three apart
  "hardening things that could be addressed".
- Nobody waits for a child.  That one has exited is found out by a health check
  that fails, which restarts the app.
- When the server ends, handles, channel and tasks are gone, and the next one
  starts every app whose row says Running.

What makes each part correct:

- *Database*: a saved row never meets that of another app; only create inserts; ports are unique; the
  hash is that of the binary on disk.
- *Supervisor*: a handle is of a live-or-unreaped process of its own app and is
  never overwritten or lost; one live process per app; row, map and history
  agree whenever it is idle; restarts are bounded; an accepted stop or restart
  takes effect; an exit is noticed; whoever waits for the channel gets in.
- *Proxy*: a visitor is answered by a process of the app it asked for.
- *Logs*: both ways of taking the last lines agree; who follows a log is shown
  it.
- *start::execute and requests*: every step has what it uses; an app that runs
  is not deleted; a state that says down is right.

Behaviours that are hard: the interleaving of requests with the supervisor and
with each other at every `await`; whole-row saves of stale copies; the loss of
a handle on an error return; the end of the server between two statements; the
port in the row and the one in the environment; the competition of channel and timer; counters and capacities at their limit.
`PROJECT.json` lists each one at its line under "hazards".

## 2. Modules

`AppModel` to `Proxy` each extend the one above; `Tracking`, `LogTail` and
`LogFollow` stand alone.

| Module | Models | Correspondence |
|---|---|---|
| `AppModel` | `models.rs` | the record `App`, one operator per method that changes it; the changes that `supervisor.rs` makes in place (`Stopped`, `Forgotten`, `Exited`, `Retried`) are operators too |
| `Store` | `db.rs`, `migrations/` | `apps`: row by name; `history`: runs by app id; one operator per statement (`Save`, `InsertRun`, `CloseLatestRun`, `DeleteRuns`, `DeleteApp`) |
| `Host` | `providers/cmd.rs`, the OS | `proc`: booting, serving, exited (a zombie) or reaped, with the port that the environment leaves it (`ListenPort`); `disk`: the binary per app |
| `Start` | `start.rs` | `call[c]`: the activation that caller `c` awaits; one action per await |
| `Supervisor` | `supervisor.rs` | `sup`: program counter and locals; `running`: the map; `queue`: the channel; one action per await of each handler |
| `Api` | `api.rs`, `app_command/*.rs` | `req[r]`: where request `r` is and the row it holds; one action per await |
| `Server` | `serve.rs` | composition, `Init`, the end of the server (`Crash`), fairness |
| `Properties` | - | every property, and the parts of the inductive invariant |
| `Proxy` | `serve.rs` | `visit[v]`: a request to an app that has read the row, or has reached a process; on top of the whole server |
| `LogTail` | `logs.rs`, `api.rs` | two pure algorithms over files of bytes: `Scanned` by the position where the backwards scan stops, `Joined` by the ends of the lines; `SameTail` compares them |
| `LogFollow` | `api.rs`, `serve.rs` | `file`: the log; `follow`: the request, how far it has read and what it has been sent |
| `Tracking` | - | abstract specification: what the supervisor promises of processes; `ends` counts the ends of the server, the one way of losing handles |
| `MCServer`, `MCFront` | - | the modules that the configurations run |
| `ServerProofs`, `HandleProofs` | - | proofs: the inductive invariant; handles |
| `RowProofs`, `TrackingProofs` | - | proofs: rows; the refinement, one live process |
| `RunProofs`, `RecordProofs` | - | proofs: the history; what rows say of processes, restarts and their counts |
| `ProxyProofs`, `TailProofs` | - | proofs: strays, ports and visitors; the tails of a log |

Names follow the code where they can.  A definition that a comment calls a
*variant* is a plausible mistake in the operator that follows it; nothing else
uses it, it serves to show that the property it belongs to can fail.

### Abstractions

- Binaries are their SHA-256 (`Hashes`); `binary_path` is determined by the
  name, so `hash` stands for both columns.  Names are model values and valid.
- The environment of an app is its variable PORT, which `CmdProvider::start` sets
  from the row and then from the environment, so that the second wins.  Nothing
  in the program decides by another variable; a set-env of one reads the row and
  writes it back as it was.  A PORT that is no number is not represented.
- Timestamps, `host`, `startup_timeout`, `shutdown_timeout` and the tuning of
  health checks are left out: nothing in the program decides by them.  A health
  check is present or not.
- Sleeps (the second in `handle_restart`, the backoff, the 500 ms in
  `stop::execute`) are absent: the action after one may wait as long as it
  likes.  A probe may fail at any time, and passes only if something listens.
- Exit codes are 0 and 1, which stands for every other; a signal leaves none.
- `started_at` orders runs as they were inserted; ties are not modelled.
- Pids are never reused.  A file is written at once.
- `update_process_history` reads, then updates one row by its id.  Nothing reads
  or replaces that row in between, so it is one action.
- A visitor's request is the app that its Host header names.  One that is
  answered at once with an error (unknown, not Running) is not represented.
  Connecting and sending are one step: whoever listens at that moment answers.
- A byte of a log is a newline or not (`LogTail`); where decoding matters, it is
  a character, a newline, or half a character (`LogFollow`).  Carriage returns
  are left out.
- A run in the model carries its pid so that properties can tell whose it is;
  the table has no such column and no action reads it.

Bounds: `MaxIds` creations, `MaxSpawns` processes (beyond it a spawn fails),
`LastPort`, `MaxCrashes` ends of the server.  `Overrides` are the values that
an app's own PORT may have, which it has from the start or by a set-env; in
`Proxied` one that no row has, else none.  `Faults` admits *io* (statements
fail, children cannot be killed, clients hang up), *crash* (the server ends and
its service manager kills its children, as `systemctl restart` in `deploy.sh`
does) and *orphans* (they survive).  `Library` are messages that only a program
embedding the crate can send: the binary sends Stop and Restart.

## 3. Runs

`Proxied` uses `MCFront`, `FollowLogs` uses `LogFollow`, the others `MCServer`.
Each has one HTTP request slot unless stated: a
request is then at any of its awaits while the supervisor, its activation of
`start::execute`, the processes and the timer take any steps.

| Run | Instance | Checks |
|---|---|---|
| `Supervised` | apps a, b, both Running; 2 spawns; capacity 1; stop, restart; one end of the server | `TypeOK`, `HandlesAreSound`, `RowAgreesWhenQuiet`, `OneLiveProcess`, `NoStray`, `DownMeansDown`, `RestartNeverRefused`, `HistoryFollowsHandles`, `ImplementsTracking` |
| `Liveness` | one app, Running or Stopped; capacity 2; stop, restart, Start messages; one end of the server | `StopTakesEffect`, `RestartTakesEffect`, `ExitIsNoticed`, `SenderServed` |
| `Requests` | apps a, Running without a health check, and b; create, delete, deploy, set-env, start | `Inv`, `RunClosedOnce`, `HandleNeverOverwritten`, `SavesStayHome` |
| `Library` | one app; policies OnFailure and Never; io faults; stop; CheckHealth and ProcessExit messages | `Inv`, `HandlesAreSound`, `RestartsBounded`, `RestartCountKept`, `HandleNeverOverwritten`, `StrayStaysStray` |
| `Proxied` | one app Running, with a PORT of its own or not, another created and deployed by requests; a visitor; restart; one end of the server, with or without its children; files of up to 5 bytes, up to 4 lines asked for | `ProxyTypeOK`, `UniquePorts`, `VisitorReachesApp`, `StrayStaysStray`, `TailAgrees` |

What they show, in words:

- `Supervised`: on the terms of the two operations that go through the
  supervisor, everything agrees.  `RowAgreesWhenQuiet` is the statement that the
  three places where the state of an app is kept say the same whenever nothing
  is under way - also after an end of the server in the middle of a stop.
  `DownMeansDown` is about the moments when something is under way: `delete.rs`
  looks at the state column alone, and a state other than Starting, Running,
  Stopping and Restarting may be relied on even then (the variant
  `StartedUnmarked` shows what the mark before the spawn is for).
  `RestartNeverRefused` relates the two decisions of a restart: `handle_restart`
  stops by the row, `handle_start` refuses by the map.  No request writes rows in
  this run, so what is at stake is the order of stop and start; what a deploy does
  to the two decisions is `RestartAfterDeploy`.
  `ImplementsTracking` is the refinement: a handle stays until the supervisor
  decides to end that process, and a process it decided to end is reaped before
  it turns to anything else.  The mapping takes the child in the hands of
  `handle_stop` as the one that is dying, and ties `ends` to `crashes`.
  `HistoryFollowsHandles` has the latest run of an app be the one to close, also
  after an end of the server, which leaves open runs behind.
- `Liveness`: the channel, the timer and an unlucky order of the two never keep
  an accepted stop or restart from its effect, as long as requests do not write
  the row under the supervisor (see `RestartAfterDeploy` for when they do).  One
  app, so this says nothing of how long one keeps another waiting.  `SenderServed`:
  a request that finds the channel full is let in, because nothing that the
  supervisor does waits for the channel that it alone empties (the variant
  `ProbeFailsSending` does).
- `Requests`: whatever requests do to the rows, no step of anything lacks what
  it uses, no handle is replaced, and the run that `handle_stop` is about to close
  is open.  Whose run it is, is `HistoryFollowsHandles`.  The stops come from
  restarts of apps that were created under way and do not answer.
  `SavesStayHome`: the upsert goes by the id and a name may come back with another
  one.  However old the copy that is saved, it never has the id of a row stored
  under another name, which it would replace.  `Save` in `Store` writes under the
  row's name, and is the upsert for this reason.
- `Library`: `max_restarts` is a bound under every failure, and handles stay
  sound under it.  `RestartCountKept` says that what is bounded is the number of
  restarts: each adds one to the count, and nothing else changes it.
  `StrayStaysStray` says of a process whose handle an error return dropped, or
  (run `Proxied`) that survived its server, that no later step of anybody takes it
  up again: restoring, restarting and stopping go by handles, never by name or by
  the pid in the row.
- `Proxied`: the proxy goes by a port that it read earlier, and nothing but the
  way ports are handed out makes whoever listens there a process of the app.
  Rows of apps that do not run keep their port for this reason (the variant
  `FreePortNow` gives it away); `UniquePorts` holds on these terms, although
  nothing in the table asks for it.
  `TailAgrees` compares the backwards scan of `logs.rs` with the lines of
  `api.rs` on every file of up to five bytes.  They differ in one case, an empty
  first line, which `LosesFirstLine` describes exactly.

Two spawns are enough for a process and its successor, which is what every
property relates; two ids for an app and another one, of the same name or of
another; capacity
1 for a sender that waits, 2 for a message that waits behind another; two apps,
one of them created under way, for a port that could be shared; five bytes for
an empty first line, a line, an empty one and a final newline, and one line more
than asked for.

Seven runs end in a **violation**: each states what a doc, a comment or a test
promises, and TLC finds a behaviour of the code that breaks it (`PROJECT.json`,
"findings", with the quoted lines):

| Run | Property | Behaviour |
|---|---|---|
| `BypassedStart` | `OneLiveProcess` | `POST /apps/:name/start` spawns beside the supervisor's process |
| `RestartAfterDeploy` | `RestartTakesEffect` | deploy writes state Deployed; a restart handled after that neither stops nor starts |
| `DeleteWhileStarting` | `DeletedAppNotRunning` | state Starting or Stopping, process alive, delete accepted |
| `Resurrection` | `OnlyCreateInserts` | a stale upsert inserts the deleted row again |
| `ConcurrentCreate` | `UniquePorts` | two creates read the same free port (two requests) |
| `ConcurrentDeploy` | `DeployedBinaryOnDisk` | writes in one order, saves in the other (two requests, the app is stopped) |
| `FollowLogs` | `LogReachesClient` | `to_bytes` waits for the end of a stream that has none |

### Fairness

`FairSpec` assumes of the code only what its runtime does: a task that is ready
is polled (weak fairness of `Work`, of each activation of `start::execute`, of
each request that is under way), and `tokio::select!` picks among ready branches
at random, so that neither the channel nor the timer is passed over for ever
although the other is ready again and again (strong fairness of `Receive` and
of `Tick`), and the channel lets those that wait for room in one after the other
(strong fairness of `Send`; tokio's `mpsc` hands its permits out in order).  Nothing is assumed of clients, of processes - they need not listen,
answer or exit - or of failures.  `StatementFails`, `Crash` and `Abandon` are
never fair.

In `LogFollow`, `ReadLine` and `Answer` are weakly fair: the reader polls the
file every 200 ms and the body is collected by a task that is ready.  Nobody has
to write, to leave or to follow.

## 4. Proofs

The eight proof modules prove, for every value of the constants under
the named assumptions of the modules (bounds are naturals, `None` is none of the things
it stands in for, the supervisor is not a request slot, the channel has room
for one message, the faults and operations are among the known ones, the apps
that are installed have ports):

| Theorem | States |
|---|---|
| `Invariance` | `Spec => []Inv` |
| `TypeCorrect` | `Spec => []TypeOK` |
| `VisitsTyped` | `ProxySpec => []ProxyTypeOK` |
| `HandlesKept` | `Spec => HandleNeverOverwritten` |
| `HandlesSound` | `Spec => []HandlesAreSound` |
| `RestartsStayBounded` | `Spec => []RestartsBounded` |
| `IdsStayWithNames` | `Spec => SavesStayHome` |
| `StopsCloseOpenRuns` | `Spec => []RunClosedOnce` |
| `StraysStayAstray` | `Spec => StrayStaysStray` |
| `ServerTracks` | `Undisturbed => (Spec => ImplementsTracking)` |
| `HistoryTells` | `Managed => (Spec => []HistoryFollowsHandles)` |
| `OneProcessLives` | `Orderly => (Spec => []OneLiveProcess)` |
| `NothingStrays` | `Orderly => (Spec => []NoStray)` |
| `RowsAgree` | `Delegating => (Spec => []RowAgreesWhenQuiet)` |
| `DownIsDown` | `Orderly /\ Delegating => (Spec => []DownMeansDown)` |
| `RestartsNotRefused` | `Delegating => (Spec => []RestartNeverRefused)` |
| `RestartsCounted` | `SoleWriter => (Spec => RestartCountKept)` |
| `PortsUnique` | `Allotted => (Spec => []UniquePorts)` |
| `VisitorsReachTheirApp` | `Allotted /\ Overrides \cap Ports = {} => (ProxySpec => []VisitorReachesApp)` |
| `TailsSame` | `\A file \in Seq(Byte), lines \in Nat : SameTail(file, lines)` |
| `TailsAgree` | `ProxySpec => []TailAgrees` |

So each invariant, each action property and the refinement that a passing run
checks is a theorem.

The conditions on the constants say on which terms a theorem holds.  Each part
of one is there because the code breaks a property that has it as a condition:

- `Undisturbed`: no fault *io*, no delete, no ProcessExit messages.  A statement
  that fails, or a row that is gone or must not be inserted again, makes
  `handle_stop` return with the only handle in its hands.  ProcessExit removes a
  handle without ending anything.
- `Managed`: `Undisturbed`, and no start that bypasses the supervisor.  Such a
  start inserts a run of its own, and the history no longer ends with that of
  the process which the supervisor holds.
- `Orderly`: `Managed`, and no orphans.
- `Delegating`: no fault *io*, and clients only create apps and have them
  stopped and restarted.  A deploy or set-env writes a whole row back, with the
  state that it read before the supervisor started or stopped the app; a start
  that bypasses the supervisor writes Running of a process that is in no map;
  after a delete, the app's process may still be in the map when an app of the
  same name is created.  Ends of the server, orphans and the messages of the
  library, ProcessExit included, are allowed.
- `SoleWriter`: no deploy, set-env or direct start, which write back a count
  from before a restart.  Everything may fail, and apps may be deleted.
- `Allotted`: no delete, and one request at a time where apps are created.
  Run `ConcurrentCreate` shows what two creations do; a delete frees a port that
  a stale row or a process still uses.
- `Overrides \cap Ports = {}`: clients may give an app a PORT, but none from the
  range that apps' ports are taken from.  With the port of another app, the
  process listens there, and that app's visitors are connected to it.

`TypeOK` alone is not inductive: what a step writes has its type only if what
it read before an await has.  `Inv` adds, for each program counter, what the
steps to come use (`CallsReady`, `TaskReady`, `RequestsReady`), that a handle is
of a process that was spawned and a row is under its name (`Rooted`), and where
the map is known to be empty (`SlotFree`).  `SlotFree` is the heart of
`HandlesKept`: `HashMap::insert` comes after a whole `start::execute`, and it is
safe because `handle_start` looked into the map before, because
`handle_process_exit` removed the entry before, and because a new server's map
is empty and the rows it restores have different names, of which the task keeps
those not yet visited.

The argument goes action by action: lemmas on rows (`RowsStayRows`), statements
(`SaveKeeps`, `CloseKeeps`, ...), processes (`ReapKeeps`, ...), activations
(`StartStepKeeps`), the supervisor (`SupervisorKeepsTask`,
`SupervisorKeepsSlots`, ...) and requests (`RequestsKeepFrames`, ...), put
together in `NextKeepsInv`; `OnlyStartDoneAdds` says that no other step adds a
handle.

`HandlesSound` says more of a handle than that its process exists: it is of this
app, nobody has waited for it, and it is not the one being killed.  That is not
inductive, since it is silent on a child before it gets into the map and after
it left.  `Owned` follows it: the activation that the supervisor awaits works on
the supervisor's app, with the row of that name; the child it spawned is of that
app, not waited for and not in the map; and the supervisor holds a child that it
took out of the map only in the four steps of `handle_stop` that use it.  Two
handles in the map differ because their processes' apps do, so taking one out
leaves no other copy, and `Kill` - besides the end of the server the one step
that reaps - reaps no process whose handle remains.  Every other step is shown
to reap nothing (`StartReapsNone`, `RequestsReapNone`, `ProcessesReapNone`).

The other proofs rest on `Inv` and follow the same order, one lemma per kind of
step and one case per action in the last.

*Rows* (`RowProofs`).  `RowsStep(S)` says all that one step may do to the table:
nothing, delete an app, or save a row of the set `S`.  Since any copy of a row
may be written back, an invariant about rows is one about every copy:
`RowsIn(S)` says that the stored rows and those in the hands of the supervisor,
an activation or a request are all in `S`.  Where `S` is closed under what the
code does to a row (`Closed`), a step keeps that.  `RestartsBounded` is the
instance of the rows whose count is within their maximum; only `Retried`
increments, behind `ReachedMaxRestarts`.  `IdInv` is the instance of the rows whose
id was given to an app of their name; so whatever is saved is in `HomeRows`, which
are the rows with the id of no row stored under another name; this is
`SavesStayHome` (`IdsStayWithNames`).

*Refinement* (`TrackingProofs`).  `TrackInv` adds that nothing of a delete or of
an exit notification is under way (`Untouched`), and that every copy of a row is
of an app that is still stored (`CopiesKept`, an instance of `RowsIn`), so that
the statements of `handle_stop` are not refused between `TakeChild` and `Kill`.
Then `StartDone` is `Tracking`'s step that adds a handle, `TakeChild` its
`Condemn`, `Kill` its `Bury`, and the end of the server its end; every other
step stutters.

*Exclusion* (`TrackingProofs`).  `OrderInv` adds `NoStray` itself and what it
needs to be inductive: no request is inside `start::execute` (`NoDirectStart`),
no statement of the supervisor is refused while it has a child in its hands, and
what it lets go of is dead (`Steady`).  `OneLiveProcess` follows: two live
processes of an app would both be held by the supervisor, which holds one in the
map or one in its hands, and then the app's place in the map is free.

*History* (`RunProofs`).  The code has no id of the run that it is to close, so
two things have to be carried along.  `CloseInv` holds without any condition:
the latest run of an app whose process the supervisor holds is open, in the map
(`HandleOpen`), while it is being started (`StartOpen`) and while it is being
stopped (`StopOpen`).  A direct start may add a run, which is open too; a delete
may take all of them, and what is created next under the name has another id
(`IdInv`).  `AccountInv` says whose run it is, on the terms of `Managed`: no two
runs have a pid in common (`RunsOnce`), a closed one is of a process that was
waited for (`ClosedReaped`), one of a process that was waited for is closed or
about to be (`ReapedClosed`), and the latest run of an app is that of the
process which the supervisor has spawned, holds or is stopping (`StartLatest`,
`HandleLatest`, `StopLatest`).

*Rows and processes* (`RecordProofs`). `RowAgreesWhenQuiet` says nothing while
the supervisor is at work. `AgreeInv` says for each program counter where the
row and the map may differ: a handle is always of an app that its row calls
Running with that pid (`HandlesAgree`), and a row that says Running without a
handle is one the supervisor has in its hands (`InHand`) - to restore it, about
to write what else it is, or with a start that is done. After the end of the
server that is every row the new one lists. With `StopFree` - while
`handle_stop` works, the map holds nothing of the app - it gives
`RestartNeverRefused` on both ways into `handle_start`, once `Unrestarted` has
it that the flag of one handler is not found set by the next.

`DownMeansDown` puts two invariants together. By `NoStray` a live process is in
the map, where `HandlesAgree` has the row say Running, or in the hands of
`handle_stop` or `start::execute`; `Marked` says what the row says then:
Starting from before the spawn on, Running until Stopping is written, Stopping
until the process was waited for.

`RestartCountKept` needs more than what a save does to the count: `CountsAgree`
says that all copies of a row that may still be written back (`InUse`) have the
same count. The row that `handle_process_exit` holds during the start it causes
has the count from before; it is not in use, since it is dropped (`WritesBack`).
Only `ExitSave` goes from the save to the start (`RetriedOnce`), and it adds one
to the count of that row.

*Strays* (`ProxyProofs`).  `StrayStaysStray` is an action property: each step is
shown to take up no process but one that it spawned itself or whose handle it
took from the map (`TakeChild`) or from an activation (`StartDone`).  It needs
no condition on the constants.

*Ports* (`ProxyProofs`).  `UniquePorts` alone says nothing about stale copies.
`PortInv` adds that each copy of a row carries the port stored for that app
(`Registered`), that the row about to be inserted has a port that no stored row
has (`Fits`, which one creation at a time preserves), and that each process has
the port of its app's row or one from `Overrides` (`Placed`).  For a visitor,
`VisitInv` adds that the port it read is still that of its app; the process that
listens on it then is of that app, because ports are unique and none of them is
in `Overrides`.

*Tails* (`TailProofs`).  The scan is a loop, and a loop asks for induction over
the file, which the provers cannot do: the library's theorems for it take an
operator as a parameter.  So `LogTail` says where the loop stops and not how it
gets there: `Stop` is the first position from the end at which its condition is
false, `LineCount` the number of newlines behind a position.  There is such a
position because a set of naturals that is bounded has a greatest member
(`Greatest`, from the well-foundedness of the order on the naturals), and the
scan reads every byte behind it (`ScanStops`).  What is left is arithmetic of
cardinalities: moving back by one byte adds one newline or none (`OneByte`), there
is one line more than there are newlines that count (`OneMoreLine`), so the
position where as many are counted as lines are wanted is that of the newline
before the first of them (`StopAtLine`).  The cases where nothing is wanted and
where more is wanted than there is come apart from that one, and the last of them
holds the exception.

Only model-checked:

- `StopTakesEffect`, `RestartTakesEffect`, `ExitIsNoticed`, `SenderServed`:
  liveness under fairness is out of the proof system's reach.

## 5. What is not modelled

- Admin page, list and get: single reads.
- The follow loop of `logs.rs`: nothing calls it; the CLI asks the server.
- Configuration files and directories, error types: no state that decides
  anything but the binary of an app and the port allocator, which are modelled.
- CLI and API client: one request per command, no state.
- `health_check.rs`: not part of the build (`mod.rs` does not name it).
- Two servers at once on one database; reuse of pids; time.
- `OneLiveProcess` and `NoStray` are not claimed where they cannot hold: with
  starts that bypass the supervisor (`BypassedStart`), with orphans, with
  statements that fail after a spawn, or with ProcessExit messages that arrive
  late (they carry a name and no pid).

## 6. State of the plan

Done: the app model, database, processes, `start::execute`, supervisor,
requests, server, proxy and logs, with five runs that pass, seven findings and
the theorems above.

What could follow: reuse of pids; two servers on one database; carriage returns
in logs.
