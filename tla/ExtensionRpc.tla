---------------------------- MODULE ExtensionRpc ----------------------------
(***************************************************************************)
(* The link between the app and the browser extension.                     *)
(*                                                                         *)
(* The extension's service worker opens a port; Chrome starts a native     *)
(* host for it, which connects to the app's socket (launching the app if   *)
(* need be) and copies messages both ways.  The worker says ext.hello, the *)
(* app attaches the connection to its bridge and calls the extension       *)
(* through it.  Hosts end, hellos time out, the worker is stopped and      *)
(* started by Chrome, and a handler of the extension may outlive the       *)
(* connection its request came on.                                         *)
(*                                                                         *)
(* Every port has a connection of its own in the app, whose Peer numbers   *)
(* its calls from 1 (Peer.tla has the inside of one connection, Runs.tla   *)
(* what the app does when it loses the bridge).                            *)
(*                                                                         *)
(* Sources: apps/extension/src/rpc.ts, apps/extension/entrypoints/         *)
(* background.ts, crates/passvalet-cli/src/native_host.rs,                 *)
(* apps/desktop/src-tauri/src/extension.rs.                                *)
(***************************************************************************)
EXTENDS Integers, Sequences

CONSTANTS
  Call,      \* browser.* calls of the app
  NoCall,    \* no call
  MaxPort    \* bound on the ports the extension opens

ASSUME RpcAssumption == NoCall \notin Call /\ MaxPort \in Nat \ {0}

VARIABLES
  worker,    \* whether the service worker is running
  port,      \* NativeRpc.port, 0 if null
  opened,    \* number of ports opened so far
  connected, \* NativeRpc.connected
  timer,     \* whether reconnectTimer is set
  pending,   \* NativeRpc.pending: ports whose ext.hello waits for its answer
  task,      \* the extension's handler of each call
  host,      \* the native host of each port
  toApp,     \* messages on their way from a port to the app
  toExt,     \* messages on their way from the app to a port
  bridge,    \* the port whose connection ExtensionBridge holds, 0 if none
  next_id,   \* Peer.next_id of each connection
  call,      \* the app's calls
  hellos     \* history: ports in the order the app handled their hellos

extVars == <<worker, port, connected, timer, pending, task>>
appVars == <<bridge, next_id, call, hellos>>
vars == <<extVars, opened, host, toApp, toExt, appVars>>

Port == 1..MaxPort

----------------------------------------------------------------------------
Hello == [kind |-> "hello", id |-> 0, of |-> NoCall]
Ok == [kind |-> "ok", id |-> 0, of |-> NoCall]
Request(i, c) == [kind |-> "request", id |-> i, of |-> c]
Response(i, c) == [kind |-> "response", id |-> i, of |-> c]

Message == [kind : {"hello", "ok", "request", "response"},
            id : Nat, of : Call \cup {NoCall}]

\* answer: the call whose result was returned, if one was.
CallState == [pc : {"idle", "waiting", "answered", "failed"}, conn : 0..MaxPort,
              id : Nat, answer : Call \cup {NoCall}]

\* The app runs, Chrome is about to start the worker.
Init ==
  /\ worker = FALSE /\ port = 0 /\ opened = 0
  /\ connected = FALSE /\ timer = FALSE /\ pending = {}
  /\ task = [c \in Call |-> "none"]
  /\ host = [p \in Port |-> "none"]
  /\ toApp = [p \in Port |-> <<>>] /\ toExt = [p \in Port |-> <<>>]
  /\ bridge = 0 /\ next_id = [p \in Port |-> 1]
  /\ call = [c \in Call |-> [pc |-> "idle", conn |-> 0, id |-> 0, answer |-> NoCall]]
  /\ hellos = <<>>

----------------------------------------------------------------------------
(***************************************************************************)
(* The extension.                                                          *)
(***************************************************************************)

\* connectNative returns a port, and onOpen sends ext.hello on it.
OpenPort ==
  /\ opened < MaxPort
  /\ port' = opened + 1 /\ opened' = opened + 1
  /\ host' = [host EXCEPT ![port'] = "starting"]
  /\ toApp' = [toApp EXCEPT ![port'] = <<Hello>>]
  /\ pending' = pending \cup {port'}

\* connectNative throws: scheduleReconnect.
OpenFails ==
  /\ port' = 0 /\ timer' = TRUE
  /\ UNCHANGED <<opened, host, toApp, pending>>

\* The background script runs: a new NativeRpc, connect().
WorkerStarts ==
  /\ ~worker
  /\ worker' = TRUE
  /\ \/ OpenPort /\ timer' = FALSE
     \/ OpenFails
  /\ UNCHANGED <<connected, task, toExt, appVars>>

\* Chrome stops the worker: all its state is lost and its port closes.
WorkerStops ==
  /\ worker
  /\ worker' = FALSE
  /\ port' = 0 /\ connected' = FALSE /\ timer' = FALSE /\ pending' = {}
  /\ task' = [c \in Call |-> IF task[c] = "running" THEN "lost" ELSE task[c]]
  /\ UNCHANGED <<opened, host, toApp, toExt, appVars>>

\* The reconnect timer: connect() with no port open.
TimerFires ==
  /\ timer /\ port = 0
  /\ \/ OpenPort /\ timer' = FALSE
     \/ OpenFails
  /\ UNCHANGED <<worker, connected, task, toExt, appVars>>

\* The timer finds a port that the alarm or the popup opened meanwhile.
TimerIdle ==
  /\ timer /\ port # 0
  /\ timer' = FALSE
  /\ UNCHANGED <<worker, port, connected, pending, task, opened, host, toApp, toExt, appVars>>

\* The keep-alive alarm, and the popup's reconnect: connect() if not connected.
Alarm ==
  /\ worker /\ ~connected /\ port = 0
  /\ \/ OpenPort /\ UNCHANGED timer
     \/ OpenFails
  /\ UNCHANGED <<worker, connected, task, toExt, appVars>>

\* Mutant: connected keeps its value.
PortDisconnects_staysConnected ==
  /\ port # 0 /\ host[port] = "gone"
  /\ port' = 0 /\ pending' = {} /\ timer' = TRUE
  /\ toExt' = [toExt EXCEPT ![port] = <<>>]
  /\ UNCHANGED <<worker, connected, task, opened, host, toApp, appVars>>

\* Mutant: the field keeps the dead port, so connect() returns at once.
PortDisconnects_keepsPort ==
  /\ port # 0 /\ host[port] = "gone" /\ ~timer
  /\ connected' = FALSE /\ pending' = {} /\ timer' = TRUE
  /\ toExt' = [toExt EXCEPT ![port] = <<>>]
  /\ UNCHANGED <<worker, port, task, opened, host, toApp, appVars>>

\* onDisconnect: what the host had not copied is lost, hello is rejected.
PortDisconnects ==
  /\ port # 0 /\ host[port] = "gone"
  /\ port' = 0 /\ connected' = FALSE /\ pending' = {} /\ timer' = TRUE
  /\ toExt' = [toExt EXCEPT ![port] = <<>>]
  /\ UNCHANGED <<worker, task, opened, host, toApp, appVars>>

\* onMessage, the answer to ext.hello: markConnected if the call still waits.
OnHelloAnswer ==
  /\ port # 0 /\ toExt[port] # <<>> /\ Head(toExt[port]) = Ok
  /\ toExt' = [toExt EXCEPT ![port] = Tail(@)]
  /\ pending' = pending \ {port}
  /\ connected' = (connected \/ port \in pending)
  /\ UNCHANGED <<worker, port, timer, task, opened, host, toApp, appVars>>

\* The 10 seconds of ext.hello pass: the port stays open.
HelloTimesOut ==
  /\ port \in pending
  /\ pending' = pending \ {port}
  /\ UNCHANGED <<worker, port, connected, timer, task, opened, host, toApp, toExt, appVars>>

\* onMessage, a request: the handler starts.
OnRequest ==
  /\ port # 0 /\ toExt[port] # <<>> /\ Head(toExt[port]).kind = "request"
  /\ task' = [task EXCEPT ![Head(toExt[port]).of] = "running"]
  /\ toExt' = [toExt EXCEPT ![port] = Tail(@)]
  /\ UNCHANGED <<worker, port, connected, timer, pending, opened, host, toApp, appVars>>

\* send: on the port that is open now, if there is one and its host reads it.
Send(m) ==
  toApp' = IF port # 0 /\ host[port] # "gone"
           THEN [toApp EXCEPT ![port] = Append(@, m)] ELSE toApp

\* Mutant: the id is kept in a field that the next request overwrites.
HandlerEnds_sharedId(c) ==
  /\ task[c] = "running"
  /\ task' = [task EXCEPT ![c] = "done"]
  /\ Send(Response(IF port = 0 THEN 0 ELSE next_id[port] - 1, c))
  /\ UNCHANGED <<worker, port, connected, timer, pending, opened, host, toExt, appVars>>

\* onMessage after the await: the result, or the error, with the request's id.
HandlerEnds(c) ==
  /\ task[c] = "running"
  /\ task' = [task EXCEPT ![c] = "done"]
  /\ Send(Response(call[c].id, c))
  /\ UNCHANGED <<worker, port, connected, timer, pending, opened, host, toExt, appVars>>

----------------------------------------------------------------------------
(***************************************************************************)
(* The native host of a port.                                              *)
(***************************************************************************)

\* connect_socket succeeds, at once or after launching the app.
HostConnects(p) ==
  /\ host[p] = "starting"
  /\ host' = [host EXCEPT ![p] = "up"]
  /\ UNCHANGED <<extVars, opened, toApp, toExt, appVars>>

\* connect_socket fails, stdin or the socket closes, a bad frame: the process
\* ends.  The app sees the connection close: its calls fail and the bridge is
\* emptied if it holds this connection.
HostEnds(p) ==
  /\ host[p] \in {"starting", "up"}
  /\ host' = [host EXCEPT ![p] = "gone"]
  /\ toApp' = [toApp EXCEPT ![p] = <<>>]
  /\ bridge' = IF bridge = p THEN 0 ELSE bridge
  /\ call' = [c \in Call |-> IF call[c].pc = "waiting" /\ call[c].conn = p
                             THEN [call[c] EXCEPT !.pc = "failed"] ELSE call[c]]
  /\ UNCHANGED <<extVars, opened, toExt, next_id, hellos>>

----------------------------------------------------------------------------
(***************************************************************************)
(* The app.                                                                *)
(***************************************************************************)
NextIs(p, kind) == host[p] = "up" /\ toApp[p] # <<>> /\ Head(toApp[p]).kind = kind

\* dispatch, EXT_HELLO: attach, then the answer.
HelloHandled(p) ==
  /\ NextIs(p, "hello")
  /\ bridge' = p
  /\ hellos' = Append(hellos, p)
  /\ toApp' = [toApp EXCEPT ![p] = Tail(@)]
  /\ toExt' = [toExt EXCEPT ![p] = Append(@, Ok)]
  /\ UNCHANGED <<extVars, opened, host, next_id, call>>

\* call_raw: a call through the bridge, with the next id of its connection.
AppCalls(c) ==
  /\ call[c].pc = "idle" /\ bridge # 0
  /\ call' = [call EXCEPT ![c] = [pc |-> "waiting", conn |-> bridge,
                                  id |-> next_id[bridge], answer |-> NoCall]]
  /\ next_id' = [next_id EXCEPT ![bridge] = @ + 1]
  /\ toExt' = [toExt EXCEPT ![bridge] = Append(@, Request(next_id[bridge], c))]
  /\ UNCHANGED <<extVars, opened, host, toApp, bridge, hellos>>

\* Peer::resolve: the call of this connection with the id of the response.
AnswerRead(p) ==
  /\ NextIs(p, "response")
  /\ LET m == Head(toApp[p]) IN
       call' = [c \in Call |->
                  IF call[c].pc = "waiting" /\ call[c].conn = p /\ call[c].id = m.id
                  THEN [call[c] EXCEPT !.pc = "answered", !.answer = m.of]
                  ELSE call[c]]
  /\ toApp' = [toApp EXCEPT ![p] = Tail(@)]
  /\ UNCHANGED <<extVars, opened, host, toExt, bridge, next_id, hellos>>

\* call_value's timeout.
CallTimesOut(c) ==
  /\ call[c].pc = "waiting"
  /\ call' = [call EXCEPT ![c].pc = "failed"]
  /\ UNCHANGED <<extVars, opened, host, toApp, toExt, bridge, next_id, hellos>>

----------------------------------------------------------------------------
Connecting == WorkerStarts \/ TimerFires \/ Alarm

AppNext(p) == HelloHandled(p) \/ AnswerRead(p)

Next ==
  \/ Connecting
  \/ WorkerStops
  \/ TimerIdle
  \/ PortDisconnects
  \/ OnHelloAnswer
  \/ HelloTimesOut
  \/ OnRequest
  \/ \E p \in Port : HostConnects(p) \/ HostEnds(p) \/ AppNext(p)
  \/ \E c \in Call : HandlerEnds(c) \/ AppCalls(c) \/ CallTimesOut(c)

Spec == Init /\ [][Next]_vars

\* Timers and alarms fire (an alarm also starts a stopped worker), Chrome
\* delivers disconnects, connect_socket comes to an end, and the app reads what
\* is sent to it.
FairSpec ==
  /\ Spec
  /\ WF_vars(Connecting) /\ WF_vars(PortDisconnects)
  /\ \A p \in Port : /\ WF_vars(host[p] = "starting" /\ (HostConnects(p) \/ HostEnds(p)))
                     /\ WF_vars(AppNext(p))

\* The native host is installed: connectNative does not throw for ever.
HostInstalled == SF_vars(Connecting /\ opened' > opened)

----------------------------------------------------------------------------
\* Types of the extension's, the hosts' and the app's state.
TypeOK ==
  /\ worker \in BOOLEAN /\ connected \in BOOLEAN /\ timer \in BOOLEAN
  /\ port \in 0..MaxPort /\ opened \in 0..MaxPort
  /\ pending \subseteq Port /\ hellos \in Seq(Port)
  /\ task \in [Call -> {"none", "running", "done", "lost"}]
  /\ host \in [Port -> {"none", "starting", "up", "gone"}]
  /\ toApp \in [Port -> Seq(Message)] /\ toExt \in [Port -> Seq(Message)]
  /\ bridge \in 0..MaxPort
  /\ next_id \in [Port -> Nat]
  /\ call \in [Call -> CallState]

\* The state is well typed, the extension shows "connected" only while it has a
\* port whose hello the app has answered (rpc.ts line 42), and a running worker
\* without a port has a reconnect scheduled, also when the alarm, the popup and
\* the timer meet.
LinkExact ==
  /\ TypeOK
  /\ connected => port \in {hellos[i] : i \in DOMAIN hellos}
  /\ worker /\ port = 0 => timer

\* "Send a request and wait for its result" (peer.rs line 97): what a call
\* returns is the result of its own request.
AnswersOwnCall ==
  \A c \in Call : call[c].pc = "answered" => call[c].answer = c

\* A call returns the result of its own request, or of a request that came on
\* an earlier connection and whose handler outlived it; two calls of one
\* connection are never confused (rpc.ts onMessage, peer.rs resolve).
AnswersWithinConnection ==
  \A c \in Call : call[c].pc = "answered" =>
    call[c].answer = c \/ call[call[c].answer].conn < call[c].conn

Attached == port # 0 /\ bridge = port

\* The hello of an earlier port, whose host was slow, came after that of the
\* current one and took the bridge from it.
Overtaken == \E i, j \in DOMAIN hellos : i < j /\ hellos[i] = port /\ hellos[j] < port

\* The link comes back: whenever the app does not have the extension's current
\* port, it gets it or the extension opens another one, whatever hosts, hellos
\* and the worker do (rpc.ts scheduleReconnect; background.ts alarm).  It does
\* not if an earlier port's hello was overtaken: when that host ends the bridge
\* is emptied, and the extension, whose own port is open, says hello no more.
Reattaches ==
  HostInstalled =>
    \A p \in 0..(MaxPort - 1) :
      (opened = p /\ ~Attached) ~> (Attached \/ opened > p \/ Overtaken)

=============================================================================
