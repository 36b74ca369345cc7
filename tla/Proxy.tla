-------------------------------- MODULE Proxy --------------------------------
(***************************************************************************)
(* The proxy in front of the apps (serve.rs handle_request and             *)
(* proxy_to_app): a visitor's request is answered from the row of the app  *)
(* that the Host header names, and forwarded to whoever listens on the     *)
(* port of that row by the time the connection is made.                    *)
(***************************************************************************)
EXTENDS Properties

CONSTANT Visitors  \* requests to apps in flight

VARIABLE visit

IdleVisit == [pc |-> "idle", app |-> None, port |-> None, peer |-> None]

\* A visit has read the port of its app's row, or has reached a process.
Visit ==
  {IdleVisit}
    \cup [pc : {"connect"}, app : Names, port : Ports, peer : {None}]
    \cup [pc : {"wait"}, app : Names, port : {None}, peer : Pids]

ProxyTypeOK == visit \in [Visitors -> Visit]

proxyVars == <<vars, visit>>

------------------------------------------------------------------------------

Listens(p, port) == Live(p) /\ proc[p].st = "serving" /\ proc[p].port = port

EndVisit(v) == visit' = [visit EXCEPT ![v] = IdleVisit]

\* The row is read. An unknown app is answered with 500 and one that the
\* database does not call Running with 503, at once.
Lookup(v) ==
  /\ visit[v].pc = "idle"
  /\ \E n \in Stored :
       /\ IsRunning(apps[n])
       /\ visit' = [visit EXCEPT ![v] = [pc |-> "connect", app |-> n, port |-> apps[n].port,
                                         peer |-> None]]

\* Variant: the failed connection is not an error.
ConnectAnyway(v) ==
  /\ visit[v].pc = "connect"
  /\ visit' = [visit EXCEPT ![v].pc = "wait", ![v].port = None]

Connect(v) ==
  /\ visit[v].pc = "connect"
  /\ \E p \in Pids :
       /\ Listens(p, visit[v].port)
       /\ visit' = [visit EXCEPT ![v] = [pc |-> "wait", app |-> visit[v].app, port |-> None,
                                         peer |-> p]]

\* Nobody listens: the visitor is answered with 500.
ConnectFails(v) ==
  /\ visit[v].pc = "connect"
  /\ ~Answers(visit[v].port)
  /\ EndVisit(v)

\* The peer answers, or its end breaks the connection. There is no timeout: a
\* peer that lives and says nothing keeps the visitor waiting.
Answered(v) == visit[v].pc = "wait" /\ EndVisit(v)

\* The visitor disconnects, which drops the task.
HangUp(v) == visit[v].pc = "connect" /\ EndVisit(v)

VisitorNext(v) ==
  /\ \/ Lookup(v)
     \/ Connect(v)
     \/ ConnectFails(v)
     \/ Answered(v)
     \/ HangUp(v)
  /\ UNCHANGED vars

\* The end of the server breaks the connections through it.
ServerNext ==
  /\ Next
  /\ visit' = IF crashes' # crashes THEN [v \in Visitors |-> IdleVisit] ELSE visit

ProxyInit == Init /\ visit = [v \in Visitors |-> IdleVisit]

ProxyNext == ServerNext \/ \E v \in Visitors : VisitorNext(v)

ProxySpec == ProxyInit /\ [][ProxyNext]_proxyVars

------------------------------------------------------------------------------

\* The proxy picks a process by the port of a row that it has read earlier. As
\* long as ports are handed out one at a time, no app is deleted and none is given
\* a PORT out of that range for its environment, the process that the visitor talks to is of the app that was
\* asked for, whatever was deployed, restarted, orphaned or created since.
VisitorReachesApp ==
  \A v \in Visitors : visit[v].pc = "wait" => proc[visit[v].peer].app = visit[v].app

==============================================================================
