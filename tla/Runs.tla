-------------------------------- MODULE Runs --------------------------------
(***************************************************************************)
(* The run registry, the commands that start and end runs, the bridge to   *)
(* the browser extension and its disconnect callback.                      *)
(*                                                                         *)
(* start_run_inner checks the vault and the bridge before it takes the     *)
(* registry lock; connections come and go meanwhile; every request of a    *)
(* connection is handled by a task of its own, so a hello may be handled   *)
(* after a later connection's, or after its own connection is gone.  A run *)
(* is used through what RunLifecycle promises, which Runner implements.    *)
(* The vault is left out: it may be locked or unlocked between any two     *)
(* steps, so a look at its lock is a free choice.                          *)
(*                                                                         *)
(* Sources: apps/desktop/src-tauri/src/{runs,extension,commands,           *)
(* ipc_handler}.rs, crates/passvalet-ipc/src/server.rs.                    *)
(***************************************************************************)
EXTENDS Integers, FiniteSets

CONSTANTS
  Run,        \* run ids
  NoRun,      \* no run
  Conn,       \* connections of extensions' native hosts
  NoConn,     \* no connection
  Caller,     \* calls that start a run
  Op,         \* which of start_collection, start_rotation and
              \* report_key_invalid they may be
  Wanted      \* key types of a collection

ASSUME RunsAssumption ==
  /\ NoRun \notin Run
  /\ NoConn \notin Conn
  /\ Op \subseteq {"collect", "rotate", "report"}

VARIABLES
  conn,       \* connections
  bridge,     \* ExtensionBridge.peer
  drop,       \* the on_disconnect callbacks
  caller,     \* the calls in progress
  run,        \* RunRegistry.runs and the runner tasks
  waiters,    \* Entry.waiters
  browserOf,  \* the connection that got session_begin
  peersOf,    \* history: connections the bridge held during the run
  cutBy       \* history: connections whose loss aborted the run

history == <<peersOf, cutBy>>
vars == <<conn, bridge, drop, caller, run, waiters, browserOf, history>>

----------------------------------------------------------------------------
Outcome == {"Success", "Partial", "Failed", "Aborted"}
Phase == {"queued", "driving", "ending", "released", "finished"}

ConnState == [link : {"new", "open", "closed"},
              hello : {"none", "spawned", "handled"}]

DropState == [pc : {"none", "snapshot", "detached", "done"},
              run : Run \cup {NoRun}, hit : BOOLEAN]

CallerState == [op : Op \cup {"none"},
                pc : {"idle", "connected", "start", "wait", "waiting", "done"},
                run : Run \cup {NoRun},
                answer : Outcome \cup {"none", "started", "refused", "timeout", "vanished"}]

RunState == [entry : {"absent", "running", "finished", "cleared"},
             kind : {"none", "collect", "rotate"}, abort : BOOLEAN,
             phase : Phase, stored : SUBSET Wanted,
             outcome : Outcome \cup {"none"}]

Init ==
  /\ conn = [p \in Conn |-> [link |-> "new", hello |-> "none"]]
  /\ bridge = NoConn
  /\ drop = [p \in Conn |-> [pc |-> "none", run |-> NoRun, hit |-> FALSE]]
  /\ caller = [c \in Caller |-> [op |-> "none", pc |-> "idle", run |-> NoRun,
                                 answer |-> "none"]]
  /\ run = [r \in Run |-> [entry |-> "absent", kind |-> "none", abort |-> FALSE,
                           phase |-> "queued", stored |-> {}, outcome |-> "none"]]
  /\ waiters = [r \in Run |-> {}]
  /\ browserOf = [r \in Run |-> NoConn]
  /\ peersOf = [r \in Run |-> {}]
  /\ cutBy = [r \in Run |-> {}]

Lifecycle(r) == INSTANCE RunLifecycle WITH
  phase <- run[r].phase, stored <- run[r].stored, outcome <- run[r].outcome

is_connected == bridge # NoConn /\ conn[bridge].link = "open"

\* RunRegistry::active: the registry holds at most one unfinished run.
active == {r \in Run : run[r].entry = "running"}

\* RunControl::abort of a run the registry still knows.
aborted(r) == [run EXCEPT ![r].abort = @ \/ run[r].entry \in {"running", "finished"}]

----------------------------------------------------------------------------
(***************************************************************************)
(* Connections.                                                            *)
(***************************************************************************)
Connect(p) ==
  /\ conn[p].link = "new"
  /\ conn' = [conn EXCEPT ![p].link = "open"]
  /\ UNCHANGED <<bridge, drop, caller, run, waiters, browserOf, history>>

\* The server reads EXT_HELLO and spawns its handler.
HelloArrives(p) ==
  /\ conn[p] = [link |-> "open", hello |-> "none"]
  /\ conn' = [conn EXCEPT ![p].hello = "spawned"]
  /\ UNCHANGED <<bridge, drop, caller, run, waiters, browserOf, history>>

\* attach: the newest hello wins, open or not.
Attach(p) ==
  /\ conn[p].hello = "spawned"
  /\ conn' = [conn EXCEPT ![p].hello = "handled"]
  /\ bridge' = p
  /\ peersOf' = [r \in Run |-> IF r \in active THEN peersOf[r] \cup {p} ELSE peersOf[r]]
  /\ UNCHANGED <<drop, caller, run, waiters, browserOf, cutBy>>

\* The stream ends: pending calls fail and the peer is closed, and only then
\* does the server see the end of its requests.
Close(p) ==
  /\ conn[p].link = "open"
  /\ conn' = [conn EXCEPT ![p].link = "closed"]
  /\ UNCHANGED <<bridge, drop, caller, run, waiters, browserOf, history>>

\* on_disconnect, line by line: the active run first ...
SnapshotActive(p) ==
  /\ conn[p].link = "closed"
  /\ drop[p].pc = "none"
  /\ \E r \in IF active = {} THEN {NoRun} ELSE active :
       drop' = [drop EXCEPT ![p] = [pc |-> "snapshot", run |-> r, hit |-> FALSE]]
  /\ UNCHANGED <<conn, bridge, caller, run, waiters, browserOf, history>>

\* ... then detach_if ...
DetachIf(p) ==
  /\ drop[p].pc = "snapshot"
  /\ bridge' = IF bridge = p THEN NoConn ELSE bridge
  /\ drop' = [drop EXCEPT ![p] =
       IF bridge = p THEN [@ EXCEPT !.pc = "detached", !.hit = TRUE]
                     ELSE [@ EXCEPT !.pc = "done", !.run = NoRun]]
  /\ UNCHANGED <<conn, caller, run, waiters, browserOf, history>>

AbortLost(p, r) ==
  /\ drop' = [drop EXCEPT ![p].pc = "done", ![p].run = NoRun]
  /\ run' = IF r = NoRun THEN run ELSE aborted(r)
  /\ cutBy' = [q \in Run |-> IF q = r /\ q \in active THEN cutBy[q] \cup {p} ELSE cutBy[q]]
  /\ UNCHANGED <<conn, bridge, caller, waiters, browserOf, peersOf>>

\* Mutant: the run that is active now is aborted.
AbortSnapshot_current(p) ==
  /\ drop[p].pc = "detached"
  /\ \E r \in IF active = {} THEN {NoRun} ELSE active : AbortLost(p, r)

\* Mutant: no abort if another extension has connected meanwhile.
AbortSnapshot_unlessReconnected(p) ==
  /\ drop[p].pc = "detached"
  /\ AbortLost(p, IF is_connected THEN NoRun ELSE drop[p].run)

\* ... and the abort of the run noted first.
AbortSnapshot(p) ==
  /\ drop[p].pc = "detached"
  /\ AbortLost(p, drop[p].run)

----------------------------------------------------------------------------
(***************************************************************************)
(* Starting a run: start_run_inner and runs::start.                        *)
(***************************************************************************)
Reply(c, answer) ==
  caller' = [caller EXCEPT ![c] = [@ EXCEPT !.op = "none", !.pc = "done",
                                            !.answer = answer]]

\* is_locked, under the vault mutex only.
CheckLocked(c, op) ==
  /\ caller[c].pc = "idle"
  /\ \/ caller' = [caller EXCEPT ![c].op = op, ![c].pc = "connected"]
     \/ Reply(c, "refused")
  /\ UNCHANGED <<conn, bridge, drop, run, waiters, browserOf, history>>

CheckConnected(c) ==
  /\ caller[c].pc = "connected"
  /\ IF is_connected THEN caller' = [caller EXCEPT ![c].pc = "start"]
                     ELSE Reply(c, "refused")
  /\ UNCHANGED <<conn, bridge, drop, run, waiters, browserOf, history>>

\* The new entry; a caller that reports an invalid key goes on to wait for it.
Insert(c, r) ==
  /\ run' = [run EXCEPT ![r].entry = "running",
                        ![r].kind = IF caller[c].op = "collect" THEN "collect" ELSE "rotate"]
  /\ caller' = [caller EXCEPT ![c] =
       IF @.op = "report"
       THEN [@ EXCEPT !.run = r, !.pc = "wait"]
       ELSE [op |-> "none", pc |-> "done", run |-> r, answer |-> "started"]]
  /\ peersOf' = [peersOf EXCEPT ![r] = IF bridge = NoConn THEN {} ELSE {bridge}]

\* Mutant: the idle check is not made under the lock that inserts.
StartRun_unchecked(c) ==
  /\ caller[c].pc = "start"
  /\ \E r \in Run : run[r].entry = "absent" /\ Insert(c, r)
  /\ UNCHANGED <<conn, bridge, drop, waiters, browserOf, cutBy>>

\* Idle check and insert under one registry lock; no playbook, no rotation
\* for the key or no API key are refusals too.
StartRun(c) ==
  /\ caller[c].pc = "start"
  /\ \/ /\ active = {}
        /\ \E r \in Run : run[r].entry = "absent" /\ Insert(c, r)
     \/ Reply(c, "refused") /\ UNCHANGED <<run, peersOf>>
  /\ UNCHANGED <<conn, bridge, drop, waiters, browserOf, cutBy>>

\* Mutant: a run that has finished is waited for all the same.
RegistryWait_always(c) ==
  /\ caller[c].pc = "wait"
  /\ caller' = [caller EXCEPT ![c].pc = "waiting"]
  /\ waiters' = [waiters EXCEPT ![caller[c].run] = @ \cup {c}]
  /\ UNCHANGED <<conn, bridge, drop, run, browserOf, history>>

\* RunRegistry::wait: the run may have finished, or be cleared away, by now.
RegistryWait(c) ==
  LET r == caller[c].run IN
  /\ caller[c].pc = "wait"
  /\ CASE run[r].entry = "running" ->
            /\ caller' = [caller EXCEPT ![c].pc = "waiting"]
            /\ waiters' = [waiters EXCEPT ![r] = @ \cup {c}]
       [] run[r].entry = "finished" ->
            Reply(c, run[r].outcome) /\ UNCHANGED waiters
       [] OTHER -> Reply(c, "vanished") /\ UNCHANGED waiters
  /\ UNCHANGED <<conn, bridge, drop, run, browserOf, history>>

\* The caller gives up and aborts the run; its sender stays in the entry.
WaitTimesOut(c) ==
  /\ caller[c].pc = "waiting"
  /\ Reply(c, "timeout")
  /\ run' = aborted(caller[c].run)
  /\ UNCHANGED <<conn, bridge, drop, waiters, browserOf, history>>

----------------------------------------------------------------------------
(***************************************************************************)
(* The runner tasks, the event forwarder and the registry's other calls.   *)
(***************************************************************************)

\* A step of the runner, as RunLifecycle describes it.  A rotation is refused
\* at once and a collection is not; session_begin goes to the connection the
\* bridge holds, if it is open.
RunStep(r) ==
  /\ run[r].entry # "absent"
  /\ \E ph \in Phase, st \in SUBSET Wanted, o \in Outcome \cup {"none"} :
       run' = [run EXCEPT ![r].phase = ph, ![r].stored = st, ![r].outcome = o]
  /\ Lifecycle(r)!Next
  /\ run[r].phase = "queued" => (run'[r].phase = "released" <=> run[r].kind = "rotate")
  /\ browserOf' = [browserOf EXCEPT ![r] =
       IF run[r].phase = "queued" /\ run'[r].phase = "driving" /\ is_connected
       THEN bridge ELSE @]
  /\ UNCHANGED <<conn, bridge, drop, caller, waiters, history>>

\* record(Finished): the outcome is kept and the waiters that are still there
\* are answered under the same lock.
Record(r) ==
  /\ run[r].entry = "running"
  /\ run[r].phase = "finished"
  /\ run' = [run EXCEPT ![r].entry = "finished"]
  /\ waiters' = [waiters EXCEPT ![r] = {}]
  /\ caller' = [c \in Caller |->
       IF c \in waiters[r] /\ caller[c].pc = "waiting"
       THEN [caller[c] EXCEPT !.op = "none", !.pc = "done",
                              !.answer = run[r].outcome]
       ELSE caller[c]]
  /\ UNCHANGED <<conn, bridge, drop, browserOf, history>>

clear_finished ==
  /\ \E r \in Run : run[r].entry = "finished"
  /\ run' = [r \in Run |-> IF run[r].entry = "finished"
                           THEN [run[r] EXCEPT !.entry = "cleared"] ELSE run[r]]
  /\ UNCHANGED <<conn, bridge, drop, caller, waiters, browserOf, history>>

\* abort_run, or user_aborted from the connection the bridge holds.
UserAborts(r) ==
  /\ run[r].entry = "running" /\ ~run[r].abort
  /\ run' = aborted(r)
  /\ UNCHANGED <<conn, bridge, drop, caller, waiters, browserOf, history>>

----------------------------------------------------------------------------
DropStep(p) == SnapshotActive(p) \/ DetachIf(p) \/ AbortSnapshot(p)

CallerStep(c) ==
  \/ CheckConnected(c)
  \/ StartRun(c)
  \/ RegistryWait(c)
  \/ WaitTimesOut(c)

Next ==
  \/ \E p \in Conn : Connect(p) \/ HelloArrives(p) \/ Attach(p) \/ Close(p)
  \/ \E p \in Conn : DropStep(p)
  \/ \E c \in Caller, op \in Op : CheckLocked(c, op)
  \/ \E c \in Caller : CallerStep(c)
  \/ \E r \in Run : RunStep(r) \/ Record(r) \/ UserAborts(r)
  \/ clear_finished

Spec == Init /\ [][Next]_vars

\* Callbacks and the forwarder are run by the runtime; a run that is aborted
\* goes on to its end, which is Runner's AbortEnds.  Nothing is assumed of a
\* run that is not aborted.
FairSpec ==
  /\ Spec
  /\ \A p \in Conn : WF_vars(DropStep(p))
  /\ \A r \in Run : /\ WF_vars(Record(r))
                    /\ WF_vars(run[r].abort /\ RunStep(r) /\ run'[r].phase # run[r].phase)

----------------------------------------------------------------------------
\* Types of the connections, the callbacks, the calls and the registry.
TypeOK ==
  /\ conn \in [Conn -> ConnState]
  /\ bridge \in Conn \cup {NoConn}
  /\ drop \in [Conn -> DropState]
  /\ caller \in [Caller -> CallerState]
  /\ run \in [Run -> RunState]
  /\ waiters \in [Run -> SUBSET Caller]
  /\ browserOf \in [Run -> Conn \cup {NoConn}]
  /\ peersOf \in [Run -> SUBSET Conn]
  /\ cutBy \in [Run -> SUBSET Conn]

\* At most one run drives the browser, from its session_begin to the answer to
\* its session_end, however many calls pass their checks together (runs.rs
\* start, the registry lock; run.rs run, Finished after session_end).
OneDriver ==
  Cardinality({r \in Run : run[r].phase \in {"driving", "ending"}}) <= 1

\* The loss of a connection aborts only a run during which the bridge held that
\* connection: a run that starts while the old connection's callback is still
\* under way is spared (ipc_handler.rs on_disconnect, detach_if).
DisconnectSparesNewRuns == \A r \in Run : cutBy[r] \subseteq peersOf[r]

\* The state is well typed, and a call that waits for a run is registered with
\* an unfinished entry, so the
\* Finished event will answer it, and what it is told is its own run's outcome
\* (runs.rs wait, record, clear_finished).
WaitersServed ==
  TypeOK /\ \A c \in Caller :
    /\ caller[c].pc = "waiting" =>
         run[caller[c].run].entry = "running" /\ c \in waiters[caller[c].run]
    /\ caller[c].answer \in Outcome => caller[c].answer = run[caller[c].run].outcome

\* When the extension a run works through goes away, the run ends and the
\* registry is free again, unless another extension had taken the bridge
\* over before the loss was noticed (ipc_handler.rs on_disconnect).
BrowserLossEndsRun ==
  \A r \in Run, p \in Conn :
    (run[r].entry = "running" /\ browserOf[r] = p /\ bridge = p /\ conn[p].link = "closed")
      ~> (run[r].entry # "running" \/ (drop[p].pc = "done" /\ ~drop[p].hit))

=============================================================================
