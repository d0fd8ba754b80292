------------------------------ MODULE Socket ------------------------------
(***************************************************************************)
(* Who owns the Unix socket of the desktop app.                            *)
(*                                                                         *)
(* An instance of the app binds the socket path, replacing a stale file;   *)
(* clients connect, and start an instance when nobody answers.  Every      *)
(* system call is a step, so instances that start together interleave.     *)
(*                                                                         *)
(* Sources: crates/passvalet-ipc/src/{server,client}.rs,                   *)
(* crates/passvalet-cli/src/{launch,native_host}.rs,                       *)
(* apps/desktop/src-tauri/src/lib.rs.                                      *)
(***************************************************************************)
EXTENDS Integers

CONSTANTS
  App,       \* processes of the desktop app
  Client,    \* CLI, MCP and native host processes
  MaxFile,   \* bound on the socket files ever created
  MaxTries   \* retries after a launch (40 and 60 in the code)

ASSUME SocketAssumption ==
  /\ MaxFile \in Nat \ {0} /\ MaxTries \in Nat

VARIABLES
  path,      \* the file at the socket path (its inode), 0 if there is none
  files,     \* number of files created so far
  app,       \* the instances
  clients,    \* the clients
  raced      \* history: two instances were starting at the same time

socketVars == <<path, files, app, clients, raced>>

File == 0..MaxFile

\* listener: the file the instance's listener is bound to; file_id: what
\* IpcServer remembers of it; listening: whether connections are accepted.
AppState == [pc : {"off", "stat", "connect", "remove", "bind", "listen", "meta",
                   "serving", "drop", "failed", "gone"},
             listener : File, file_id : File, listening : BOOLEAN]

NewApp == [pc |-> "off", listener |-> 0, file_id |-> 0, listening |-> FALSE]

\* connect(2) on a file succeeds while a process listens on it.
Live(f) == \E a \in App : app[a].listening /\ app[a].listener = f

Starting(a) == app[a].pc \in {"stat", "connect", "remove", "bind", "listen", "meta"}

\* The path holds nothing, or the stale file of a process that crashed.
SocketInit ==
  /\ files \in 0..1 /\ path = files
  /\ app = [a \in App |-> NewApp]
  /\ clients = [c \in Client |-> [pc |-> "connect", tries |-> 0]]
  /\ raced = FALSE

----------------------------------------------------------------------------
(***************************************************************************)
(* IpcServer::bind.  An error ends it: the app runs without a server.      *)
(***************************************************************************)
Goto(a, pc) == app' = [app EXCEPT ![a].pc = pc]

Fail(a) == app' = [app EXCEPT ![a] = [NewApp EXCEPT !.pc = "failed"]]

\* symlink_metadata(path).  (Something else than a socket at the path would
\* end bind here; the app's directory holds no such file.)
Stat(a) ==
  /\ app[a].pc = "stat"
  /\ Goto(a, IF path = 0 THEN "bind" ELSE "connect")
  /\ UNCHANGED <<path, files, clients, raced>>

\* Mutant: an existing file is taken for a stale one.
Connect_skips(a) ==
  /\ app[a].pc = "connect"
  /\ Goto(a, "remove")
  /\ UNCHANGED <<path, files, clients, raced>>

\* A live owner, or a file that is gone by now, is an error; a refused
\* connection means that the owner is gone.
Connect(a) ==
  /\ app[a].pc = "connect"
  /\ IF path = 0 \/ Live(path) THEN Fail(a) ELSE Goto(a, "remove")
  /\ UNCHANGED <<path, files, clients, raced>>

Remove(a) ==
  /\ app[a].pc = "remove"
  /\ IF path = 0 THEN Fail(a) ELSE Goto(a, "bind")
  /\ path' = 0
  /\ UNCHANGED <<files, clients, raced>>

\* UnixListener::bind: bind(2) creates the file ...
Bind(a) ==
  /\ app[a].pc = "bind"
  /\ files < MaxFile
  /\ IF path # 0
     THEN Fail(a) /\ UNCHANGED <<path, files>>
     ELSE /\ files' = files + 1 /\ path' = files'
          /\ app' = [app EXCEPT ![a].pc = "listen", ![a].listener = files']
  /\ UNCHANGED <<clients, raced>>

\* ... and listen(2) accepts connections to it.
Listen(a) ==
  /\ app[a].pc = "listen"
  /\ app' = [app EXCEPT ![a].pc = "meta", ![a].listening = TRUE]
  /\ UNCHANGED <<path, files, clients, raced>>

\* set_permissions and symlink_metadata look at whatever is at the path.
Meta(a) ==
  /\ app[a].pc = "meta"
  /\ IF path = 0 THEN Fail(a)
     ELSE app' = [app EXCEPT ![a].pc = "serving", ![a].file_id = path]
  /\ UNCHANGED <<path, files, clients, raced>>

\* Drop: the file is compared with file_id ...
DropStat(a) ==
  /\ app[a].pc = "serving"
  /\ Goto(a, IF path # 0 /\ path = app[a].file_id THEN "drop" ELSE "gone")
  /\ UNCHANGED <<path, files, clients, raced>>

\* ... and removed; the listener is closed after that.
DropRemove(a) ==
  /\ app[a].pc = "drop"
  /\ path' = 0
  /\ Goto(a, "gone")
  /\ UNCHANGED <<files, clients, raced>>

\* The rest of the server is dropped with the process, which may also die at
\* any other point and leave its file behind.
Exit(a) ==
  /\ app[a].pc # "off"
  /\ app' = [app EXCEPT ![a] = NewApp]
  /\ UNCHANGED <<path, files, clients, raced>>

----------------------------------------------------------------------------
(***************************************************************************)
(* connect_or_launch and connect_socket.                                   *)
(***************************************************************************)
StartApp(a) ==
  /\ app[a].pc = "off"
  /\ app' = [app EXCEPT ![a].pc = "stat"]
  /\ raced' = (raced \/ \E b \in App : Starting(b))

ClientConnects(c) ==
  /\ clients[c].pc \in {"connect", "retry"}
  /\ Live(path)
  /\ clients' = [clients EXCEPT ![c].pc = "connected"]
  /\ UNCHANGED <<path, files, app, raced>>

\* NotRunning: launch_app starts an instance, or finds it cannot.
ClientLaunches(c) ==
  /\ clients[c].pc = "connect"
  /\ ~Live(path)
  /\ \/ /\ \E a \in App : StartApp(a)
        /\ clients' = [clients EXCEPT ![c].pc = "retry"]
     \/ clients' = [clients EXCEPT ![c].pc = "not_running"] /\ UNCHANGED <<app, raced>>
  /\ UNCHANGED <<path, files>>

ClientRetries(c) ==
  /\ clients[c].pc = "retry"
  /\ ~Live(path)
  /\ clients' = IF clients[c].tries < MaxTries
               THEN [clients EXCEPT ![c].tries = @ + 1]
               ELSE [clients EXCEPT ![c].pc = "not_running"]
  /\ UNCHANGED <<path, files, app, raced>>

\* The user opens the app.
UserStarts(a) == StartApp(a) /\ UNCHANGED <<path, files, clients>>

----------------------------------------------------------------------------
BindNext(a) ==
  Stat(a) \/ Connect(a) \/ Remove(a) \/ Bind(a) \/ Listen(a) \/ Meta(a)

ClientNext(c) == ClientConnects(c) \/ ClientLaunches(c) \/ ClientRetries(c)

SocketNext ==
  \/ \E a \in App : BindNext(a) \/ DropStat(a) \/ DropRemove(a) \/ Exit(a)
                    \/ UserStarts(a)
  \/ \E c \in Client : ClientNext(c)

SocketSpec == SocketInit /\ [][SocketNext]_socketVars

----------------------------------------------------------------------------
\* Types of the path, the instances and the clients.
SocketTypeOK ==
  /\ path \in File /\ files \in File
  /\ app \in [App -> AppState]
  /\ clients \in [Client -> [pc : {"connect", "retry", "connected", "not_running"},
                             tries : 0..MaxTries]]
  /\ raced \in BOOLEAN

\* The state is well typed, and an instance that serves is the one its clients
\* reach, so there is one server at most: "Bind, replacing a stale socket file
\* if the previous owner is gone" (server.rs line 31) never takes the path from
\* an instance that listens, unless instances started together, as nothing
\* makes connect, remove_file and bind one step (server.rs bind, drop).
ServingReachable ==
  SocketTypeOK /\ (~raced => \A a \in App : app[a].pc = "serving" =>
    app[a].listener = path /\ app[a].file_id = path)

============================================================================
