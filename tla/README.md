# PassValet: TLA+ models, checks and proofs

PassValet is a desktop vault for API keys. Agents ask it for keys over a local
socket, the user approves in a prompt window, and a browser agent collects keys
from dashboards through a Chrome extension. This directory models the parts of
it that carry its own logic, checks them with TLC and proves their safety
invariants and two refinements with TLAPS. Paths below are relative to the root
of the repository.

## The system

| Part | State | Operations | Interacts through |
|---|---|---|---|
| Vault (`crates/passvalet-core/src/vault.rs`, `db.rs`, `crypto.rs`, `recovery.rs`) | `vault_meta`, `secrets`, `sessions`, `audit_log` in SQLite; the KEK in memory | initialize, unlock, unlock_with_recovery, lock, rekey, regenerate_recovery, put/read/delete secret, create/resolve/revoke session, read_key_for_session | a `std::sync::Mutex` around it |
| Unlock providers (`apps/desktop/src-tauri/src/unlock.rs`) | Keychain entries, passkeys | setup, unlock, rebind | async: wait for Touch ID or the passkey sheet without the mutex |
| Authorization (`ipc_handler.rs`, `prompt.rs`, `commands.rs` of the desktop app, `manifest.rs`) | prompt queue, oneshot channels, session rows, audit rows | request_permissions, ask_user, prompt_decide, get_key, revoke | handler tasks, commands, a timeout, the vault mutex |
| Collection runner (`crates/passvalet-agent/src/run.rs`, `ladder.rs`) | step, captured, ladder, abort flag, Notify | run, run_inner, abort, resume | extension calls, model calls, events, the vault sink |
| Run registry and bridge (`runs.rs`, `extension.rs`, `ipc_handler.rs`) | map of runs, waiters, current extension peer | start, wait, record, abort, clear_finished, attach, detach_if, on_disconnect | registry lock, one task per IPC request |
| IPC (`crates/passvalet-ipc`) | pending calls, connections, socket file | call, resolve, fail_all, serve, bind | Unix socket |
| Auto-lock, settings (`lib.rs`, `settings.rs`) | last activity, settings file | idle loop, settings_set | vault, registry |
| CLI and MCP server (`crates/passvalet-cli`) | session token, `.env` files | inject, merge_env_file, MCP tools | IPC client |
| Extension RPC (`apps/extension/src/rpc.ts`, `entrypoints/background.ts`, `native_host.rs`) | port, connected flag, reconnect timer, pending hello | connect, hello, onMessage, scheduleReconnect, alarm, the host's relay | native messaging, one IPC connection per port |
| Extension executor (`apps/extension/src/executor.ts`) | run sessions, attached tabs | sessionBegin, call, sessionEnd, abortAll, listeners | calls of the app, Chrome's debugger |

What makes each part correct:

- vault: whatever is stored can be opened again, through the recorded provider
  and through the recovery key, after any interleaving, error or crash;
- authorization: a value leaves the vault only through a session that its own
  prompt approved, with presence, within its grants and lifetime, and audited;
- runner: the outcome it reports is what it stored, an abort takes effect, and
  the browser is given back whatever happened;
- registry and bridge: one run drives the browser, nobody waits for ever, and
  the loss of an extension ends the runs that worked through it and no others;
- IPC: an answer reaches its own call, every call returns, one server is
  reachable at the socket path;
- prompts and auto-lock: a prompt somebody waits for is on the screen, nothing is
  rotated that its own prompt did not approve, a prompt ends, and an idle vault
  is locked;
- extension RPC: the link comes back by itself, and a call gets its own answer;
- extension executor: a run ends with nothing left in the browser, and the
  user's stop is final;
- env files: no injected value is lost and nothing else changes.

What is hard here: the vault commands wait for the user between reading the
database and writing it; rekey rewraps every row; a prompt's timeout races an
approval that is waiting for Touch ID; an abort, a "Continue" click and an
extension's disconnect race the runner; checks are made before a lock is taken;
a handler of the extension outlives the connection its request came on.
`PROJECT.json` lists these hazards line by line with the properties that cover
them.

## Modules

**`VaultStore`** is what the vault promises: a map from (service, key type) to
values that only `put_secret` (unlocked) and `delete_secret` change.

**`Vault`** is the key hierarchy. A key is named by the salt that was drawn for
it; a row records which key wraps it and which row id is its associated data,
so "can be opened" is an equation instead of cryptography. Each async command
is a flow with a program counter (`presence`, `commit`, `tx`); a call under the
mutex is one step, except `rekey`, whose transaction is one step per row so
that `Fails` and `Crash` can fall inside it (rolling it back). The first states
include a machine whose Keychain still holds the fixed entry of older versions.
One process of the app is assumed: the mutex is that process's own.
`Store == INSTANCE VaultStore WITH ...` maps it to the promise.

**`Authorization`** is the path from a manifest to a value. Handler tasks
(`req`), prompt clicks (`click`), the queue (`prompts`) and the oneshot channel
(`channel`: empty, a decision, closed) are separate; the timeout closes the
channel in one step and removes the queue entry in the next, as the code does.
The vault is used through `VaultStore`. `verdict` and `present` are history. `Tick`
only moves the clock forward.

**`RunLifecycle`** is what a run promises: it drives the browser between one
`session_begin` and one `session_end`, stores only then, fixes its outcome once
and publishes it after the release.

**`Runner`** is `run`/`run_inner` with the abort flag and the `Notify`. Setting
the flag and notifying are two steps of another thread; `waiter` is the task's
registered `Notified` future. The model's answers, the page's answers, the
user's clicks and the vault's lock are free. `phase` maps it to `RunLifecycle`.

**`Runs`** is the registry, the calls that start runs, connections, and
`on_disconnect` line by line. Every request of a connection is handled by its
own task, so `Attach` may come late. Runs take the steps `RunLifecycle` allows
(`RunStep`), which `Runner` implements.

**`Peer`** is one end of a JSON-RPC connection: `call_value` in its steps (insert,
send, receive or expire, remove), the pending table, the reader and writer
tasks, the bounded inbound queue, `serve`'s consumer with its handler tasks, and
`on_disconnect`. The first state chooses between an `IpcClient`, which never
reads its inbound queue, and a server connection. The remote side answers late,
in any order, with a line that is too large, or not at all; it answers what it was
asked on this connection, and `ExtensionRpc` has the extension that does not.

**`Socket`** is who owns the Unix socket: `bind`, `drop` and the clients'
connect-or-launch loops, one system call per step, with crashes. `raced` is
history: two instances were inside `bind` together.

**`Executor`** is the extension's side of a run. A message of the app is a task,
cut at the `await`s of `executor.ts`; the listeners for closed tabs and cancelled
debuggers, `abortAll`, the page and the user interleave with it, and the app may
give up on a call that the extension still works on. Tools are grouped by what
they need and do: read the page, act on it, capture, navigate, stay local. The
sessions are in the worker's memory: `WorkerStops` empties the map, ends the handlers
with an error and leaves the tabs, with the debugger on them or not. A call goes to
the extension the bridge has at that moment; `session_end_away` is a `session_end` that
meets another browser's extension, or none. `lost` is history: the runs to which one
of the two happened.

**`AskUser`** is what an agent's call sets off while it waits for the user:
`ask_user` with the prompt window, `prompt_decide` in its steps, the rotation run
behind `report_key_invalid`, and the auto-lock loop of `lib.rs` in its three reads
(idle clock, registry, lock). The window is not built yet, hidden or shown; showing
it is a look whether it exists and then, if not, `BuildWindow`, which fails when
`build` does or another call was faster, and the prompt is waited for either way.
(The errors of `show` and `hide` are ignored as well; they only post to the event
loop, which lives as long as the app, and are taken to work.) Hiding is a look at
the queue and a step after it. The main window lists the prompts too, so a click
does not need the prompt window. Minutes are abstracted to `overdue`: the last
`touch` is longer ago than the setting. `excused` and `raced` are history: queued
prompts that the user hid or for which no window was built, and those that were
queued while a hide was due. `Authorization` has the sessions and reads behind the
same prompt, `Runs` the registry behind the same run.

**`ExtensionRpc`** is the link between app and extension: the service worker with
its port, timer, pending `ext.hello` and handlers, Chrome stopping and starting
the worker, the alarm and the popup, one native host per port with its two
message queues, and the app's `ExtensionBridge` with one `Peer` numbering per
connection. `Peer` has the inside of one connection, `Runs` what the app does
when it loses the bridge, `Executor` what a handler does. `hellos` is history: the
ports in the order the app handled their hellos.

**`EnvFile`** is `merge_env_file`: lock, read, scan into records (an assignment
with all lines of its quoted value), merge, rename. A line is abstracted to its
kind, its key and whether it holds a closing quote. `EnvRecords` is what a
reader of env files sees, defined without the merge's scan.

`*Proofs.tla` hold the theorems about a module and the lemmas behind them;
`InterProcessProofs` is about the three modules in which processes meet through the
operating system, `Peer`, `Socket` and `EnvFile`. It extends the first two, which is
why the standard names of `Socket` are `SocketInit`, `SocketNext`, `SocketSpec`.

`MC*.tla` add symmetry sets; `*.cfg` give the constants. Operators whose comment
begins with "Mutant" are the deliberately wrong variants recorded in
`PROJECT.json`; each breaks the property it is listed with.

## Runs

| Run | Bounds | Shows |
|---|---|---|
| `vault` | 2 flows, 2 slots, 2 values, 3 row ids, 3 salts, 3 recovery keys | `SecretsOpenWithVerifier`, `MemoryKeyIsVerified`, `OwnerCanUnlock` (`ProviderOpens` and `RecoveryOpens`), `ImplementsStore` |
| `authorization` | 2 requests, 2 clicks, 2 slots, 1 tick, 1 read, a lifetime above the clamp, default presence setting | `SessionWasApproved`, `PresenceBehindSession`, `ReadsGrantedAndAudited`, `NoOrphanPrompt`, `DeadSessionsStayDead` |
| `ask_user` | 1 permission request, 1 report, 1 click at a time | `RotationsApproved`, `PromptsShown`, `PromptsEnd`, `IdleVaultLocks` |
| `runner` | 2 wanted keys, 1 foreign, 5 steps, 2 models, escalation after 3, 3 idle rounds | `OutcomeHonest`, `AtMostOneLateCall`, `ReplyNotLost`, `BrowserReleased`, `NothingStoredAfterAbort`, `ImplementsLifecycle`, `AbortEnds`, `RunEnds` |
| `runs` | 2 runs, 2 calls, 2 connections | `OneDriver`, `DisconnectSparesNewRuns` |
| `runs_calls` | 1 run, 1 call after another of every kind, 2 connections | `WaitersServed`, `BrowserLossEndsRun` |
| `peer` | 2 calls, 2 ids, inbound capacity 1, 2 requests from the remote side | `AnswersMatch`, `PendingExact`, `DisconnectIsLast`, `CallReturns`, `TasksEnd` |
| `socket` | 2 instances, 2 clients, 4 files, 1 retry | `ServingReachable` |
| `extension_rpc` | 3 ports, 2 calls | `LinkExact`, `AnswersWithinConnection`, `Reattaches` |
| `extension_stale` | 2 ports, 2 calls | violation of `AnswersOwnCall`, see Findings |
| `executor` | 2 runs, 2 concurrent messages | `EverythingDestroyed`, `AbortsAreReal`, `LaterCallsRefused`, `AttachedExact` |
| `env_file` | 2 processes, 2 keys, 2 values (one quoted), every first file of up to 3 lines | `InjectedValuesRead`, `OthersPreserved` |

The type invariant of each module is a conjunct of one property of its run:
`OwnerCanUnlock`, `NoOrphanPrompt`, `RotationsApproved`, `OutcomeHonest`,
`WaitersServed`, `PendingExact`, `ServingReachable`, `LinkExact`, `AttachedExact`,
`OthersPreserved`.

Why the bounds are enough to meet the interesting cases: every race in the
hazard list is between two actors, and each run has two of each that race. Three
salts allow a setup and two rebinds (an old key, a committed one and an orphaned
one); two slots let a crash fall between two rows; three row ids let a deleted
row come back under a new id. Five steps let the ladder escalate by failures
after it has escalated by a provider error, and let one answer hold several
calls. An inbound capacity of one makes the queue full after one request. Two
messages at once let an abandoned call overlap a new one or `session_end`. Of
three ports, the hello of the first can overtake that of the second and a third
is left to reconnect with. In `ask_user` the one click is reused, so it denies one
prompt and approves the next while the calls' timeouts run.
Three lines hold a quoted value of two lines and an assignment after it, or an
assignment inside a quoted value. Real limits are kept where they are small (3
failures, 3 idle rounds); `MaxTtl`, `MaxSteps`, `InCap` and `MaxTries` are scaled
down. `runs` sets `Wanted = {}` because what is stored does not matter to its
properties. Deadlock checking is off for `Runs`, `Peer`, `Socket`, `ExtensionRpc`,
`Executor` and `EnvFile`: when every call of a finite instance is answered and every process is
gone, nothing is left to do.

Fairness. `PromptsEnd` and `IdleVaultLocks` assume that the runtime runs the
handlers, the commands and the loop, their timers included, and nothing of the
user, the agents or the collections. `AbortEnds` assumes that the task runs, that calls to the extension
return (`Peer::call_value` has a timeout) and that the aborting thread goes from
setting the flag to notifying; the model may stay silent for ever. `RunEnds` is
conditional: if the model's answer or error arrives (`ModelIsFair`; the HTTP
client has a timeout of 180 s) and the user does not leave the run paused, it
ends. The fairness is strong because a stray notification makes the task look
at the flag again without losing the pending answer. `BrowserLossEndsRun`
assumes that callbacks and the event forwarder run, and of runs only what
`AbortEnds` shows: an aborted run goes on to its end. `CallReturns` and
`TasksEnd` assume that the tasks and the timers of calls are polled and nothing
of the remote side. `Reattaches` assumes the extension's timers and alarm, that
Chrome reports a lost port, that a host's `connect_socket` ends one way or the
other and that the app reads what arrives; its premise `HostInstalled` is that
`connectNative` does not throw for ever. Nothing is assumed of hosts staying up or
of the worker being kept running.

## Findings

`extension_stale`: `peer.rs` line 97 says of a call "Send a request and wait for its
result (with timeout)." The extension's `onMessage` awaits the handler and then
sends the result with the request's id on whatever port is open by then
(`rpc.ts` lines 79 and 99). The app numbers the calls of every connection from 1
(`peer.rs` line 116), so after a reconnect the result of a request of the lost
connection answers the call of the new one that has the same id. The weaker
`AnswersWithinConnection` holds: calls of one connection are never confused.

## Observations

Exceptions that the checked properties state, where the code promises less than
a comment may suggest:

- `PresenceBehindSession` is checked with the default `presence_on_approve`. With
  it switched off, an unlocked vault approves on a click (`commands.rs` lines
  402-416), although `README.md` line 76 asks presence for every authorization.
- `TasksEnd` excludes a client whose stream closes: an `IpcClient` holds its
  inbound queue unread (`client.rs` line 21), so a full queue keeps the reader in
  `in_tx.send` (`peer.rs` line 224) although the comment on `spawn_peer` says both
  tasks end with the stream. Calls still return, by their timeout.
- `ServingReachable` excludes instances that race inside
  `bind`: `connect`, `remove_file` and `bind` are separate calls, so one may remove
  the file another has just bound (`server.rs` lines 43-56).
- `EverythingDestroyed` excludes runs (`overlap`) with a call that timed out and
  that the extension still works on when `session_end` is sent. `session_begin`
  can time out in the app (`extension.rs` line 101) while the extension still waits
  for Chrome; `session_end` then finds no session and answers ok, and `sessionBegin`
  registers the session and attaches afterwards (`executor.ts` line 141), where
  `run.rs` line 226 says "Destroy everything on the extension side regardless of
  outcome."
- `EverythingDestroyed` excludes the runs that are `lost` as well. `call_raw` takes the
  bridge's peer anew for every call (`extension.rs` line 74), and a `sessionEnd` that does
  not find the session returns (`executor.ts` line 151) and is answered `{ ok: true }`
  (`background.ts` line 14). After a restart of the worker, or with another browser's
  extension on the bridge, `session_end` is Ok while the run's tab and the debugger on it
  stay, where `crates/passvalet-agent/src/executor.rs` line 73 says "Close the run's tabs
  and wipe all in-memory artifacts on the extension side."
- `LaterCallsRefused` is about calls that arrive after the user's cancel. A call
  that passed the check of `aborted` and awaits the tab's state attaches again
  (`executor.ts` line 259), where `tests/extension-safety.test.mjs` line 130 says
  that the browser must not be taken over again.
- `AbortsAreReal` excludes the runs with `overlap` too: a call that is still worked on may attach
  the tab again between `sessionEnd`'s loop and its closing of the tabs, and the
  listener then takes the closing for the user's.
- `OthersPreserved` compares up to line endings: `str::lines` and `join` turn CRLF
  into LF everywhere (`project.rs` lines 341 and 395).
- `Reattaches` excludes `Overtaken`: two hosts waiting for the app to start deliver
  the hello of a closed port after that of the open one; the app attaches the
  closed one, and when its host ends the bridge is empty. The extension's own
  port is open, so it does not say hello again, and the alarm's message (meant to
  "let the app know we are here", `background.ts` line 36) attaches nothing.
- A hello times out after 10 s while the host may wait 15 s for the app: the
  extension may then show "not connected" although the app has attached it.
- `PromptsShown` has three exceptions where `prompt.rs` line 1 says "Pending approval
  prompts (authorization and rotation) shown in the `prompt` window." The user may
  hide the window. It may not be built: the error is only logged (line 130) and
  `ask_user` waits for its timeout all the same; two calls that find no window both
  build one, and the second fails because the label is taken. And a prompt may be
  queued and shown between another task's look at the empty queue and its hide
  (lines 136-138): a click answers the only prompt, the next call's window is built,
  and then the click's hide takes it away. Such a prompt waits unseen until its
  timeout, unless another prompt brings the window back. There is no fourth way.
- `IdleVaultLocks` says that a vault that stays overdue with no run active gets
  locked. A run that is paused for the user keeps the vault unlocked; a run
  started, or an unlock made, between the loop's look and its lock is locked
  away (`lib.rs` lines 80-85). Prompts, unlocks and requests count as activity as
  well, where `settings.rs` line 12 speaks of key reads.
- A second instance of the app keeps running when `bind` fails (`lib.rs` lines 63-66),
  with its own vault object on the same SQLite file. `Vault` has one process: what
  two of them do to each other's key in memory is not covered.
- Expiry is decided with the wall clock (`Utc::now`). `DeadSessionsStayDead` is about
  a clock that is not set back; one that is revives expired sessions.
- A rotation prompt that times out is answered "denied", which `protocol.rs`
  documents as "User declined the rotation prompt." And an approved rotation always
  ends "failed": `Runner::run` refuses rotation runs, so the success path of
  `report_key_invalid` is never taken.

## Proofs

Eight modules prove safety properties for every value of the constants. Each model
has an inductive invariant `IInv` (`SocketInv` for `Socket`, `LockInv` for
`EnvFile`), `Init => IInv`, one lemma per action (or per group of
actions with the same effect) for `IInv /\ Next => IInv'`, and theorems that follow
from `[]IInv`; every `IInv` was model-checked before it was proved. The only
assumptions are the `ASSUME`s of the modules: names for "nothing" that are not
elements, bounds that are natural numbers. The one theorem with a premise of its
own is `PresenceAlwaysBehind`, which is about the default setting; the theorem about
`EnvFile`, which is reached by `INSTANCE`, repeats the part of that module's
assumption that it needs as a hypothesis.

| Module | Theorem | States |
|---|---|---|
| `VaultProofs` | `TypeCorrect` | `TypeOK` |
| | `SecretsStayOpenable`, `MemoryKeyVerified`, `NeverLockedOut` | `SecretsOpenWithVerifier`, `MemoryKeyIsVerified`, `OwnerCanUnlock` |
| | `VaultImplementsStore` | refinement of `VaultStore` |
| `AuthorizationProofs` | `OnlyApprovedSessions`, `EveryReadAccounted`, `NoPromptOrphaned` | `SessionWasApproved`, `ReadsGrantedAndAudited`, `NoOrphanPrompt` |
| | `PresenceAlwaysBehind` | `PresenceBehindSession` if `PresenceSettings = {TRUE}` |
| | `RevocationIsFinal` | the action property `DeadSessionsStayDead` |
| `InterProcessProofs` | `OwnAnswer`, `TableIsExact` | `Peer`: `AnswersMatch`, `PendingExact` |
| | `NothingAfterDisconnect` | the action property `DisconnectIsLast` |
| | `ServerIsReachable` | `Socket`: `ServingReachable` |
| | `InjectionsAreSerial` | `EnvFile`: the action property `SerialMerges`, defined there |
| `RunsProofs` | `BrowserIsExclusive`, `LossAbortsItsOwnRun`, `WaitersAnswered` | `OneDriver`, `DisconnectSparesNewRuns`, `WaitersServed` |
| `RunnerProofs` | `SuccessIsReal`, `OneLateCall`, `NoReplyLost`, `SessionAlwaysEnded` | `OutcomeHonest`, `AtMostOneLateCall`, `ReplyNotLost`, `BrowserReleased` |
| | `NoLateStore` | the action property `NothingStoredAfterAbort` |
| | `RunnerImplementsLifecycle` | refinement of `RunLifecycle` |
| `AskUserProofs` | `NoRotationUnasked`, `NoPromptHidden` | `RotationsApproved`, `PromptsShown` |
| `ExecutorProofs` | `RecordIsRight`, `EndLeavesNothing`, `StopIsRespected`, `NoFalseAbort` | `AttachedExact`, `EverythingDestroyed`, `LaterCallsRefused`, `AbortsAreReal` |
| `ExtensionRpcProofs` | `LinkIsExact`, `NeverMixedUp` | `LinkExact`, `AnswersWithinConnection` |

None of the properties is inductive alone; what each proof has to add is the
argument why the code is right.

- **Vault.** An initialized vault is keyed by the salt it records, and there are no
  rows before (`MetaInv`); rows have ids (`RowInv`); a Keychain entry named after a
  salt holds that salt's key or nothing (`KeychainInv`); a flow past its wait holds
  the key of its own salt and that key is already retrievable (`FlowInv`, what makes
  the commit safe); inside the transaction every row is the committed row under the
  old key or, once done, the new one, and only one flow is inside (`TxInv`).
  `RekeyCommit` is a stutter of `VaultStore` because of `TxInv`.
- **Authorization.** A queued prompt is undecided, so what arrives on its channel is
  its own user's decision (`PromptInv`, `DecisionInv`); a session row exists only
  after the handler received that decision, and holds what the prompt listed
  (`SessionInv`); a token has its row and both audit entries (`TokenInv`); values
  went only to tokens, with an audit row each (`ReadInv`).
- **Peer.** Ids are never reused and every line under way names a call and its id
  (`IdInv`, `LineInv`); the table's entries are exactly the calls that can still be
  answered (`TableInv`); a channel holds its own call's answer (`ChannelInv`); tasks
  end in the order reader, writer, queue, callback (`EndInv`).
- **Socket.** Without a race one instance starts and one holds a listener, on the
  file at the path, and nobody holds the file that is about to be removed
  (`OwnerInv`). The check before the removal is enough because a holder that does not
  listen yet is starting too, which makes it the same instance; a holder that
  listens is found by `connect`.
- **EnvFile.** Only the lock's holder is between the lock and the rename, and the
  text it read is still the file (`LockInv`), so every replacement is a merge into
  the current file (`SerialMerges`) and no update is lost. The proof needs nothing
  of what the merge computes; that is `InjectedValuesRead`, checked by the run.
- **Runs.** An entry is unfinished as long as its task is (`EntryInv`), and there is
  one unfinished entry (`OneRunning`, from the check and the insertion under one
  lock); a waiting call is among the waiters of an unfinished entry (`CallerInv`);
  the connection that the bridge holds, or a callback has detached, is one the
  unfinished run worked through (`BridgeInv`, the reason why the run is noted before
  the detaching). The runs' steps enter only as steps of `RunLifecycle`
  (`LifecycleSteps`), which `RunnerImplementsLifecycle` justifies.
- **Runner.** There is an outcome exactly once `run_inner` has returned, and what was
  captured is stored (`OutcomeInv`); a call that was sent after the abort is followed
  by a look at the flag, and a value that came back after it gets no further than
  the check (`AbortInv`); the future is registered before the pause is shown
  (`WaiterInv`). `SeenStep` says what the app can see of each step; the refinement
  and `NoLateStore` both follow from it.
- **AskUser.** A call's place fixes its decision and its channel (`CallInv`), and a
  hide is due only after the queue was seen empty, so what is queued now came later
  and is marked as `raced` (`HideInv`). Whatever the window's state, the exceptions of
  `PromptsShown` are then all there are.
- **Executor.** What the extension works on for a run besides the call the app waits
  for are calls the app gave up on, and `session_end` is its last and comes once
  (`CallsInv`); the record is right for every session in the map (`SessionInv`); a
  stopped run's session is marked, or the tab was closed before `sessions.set` and no
  tool will be called (`StoppedInv`); a session that was begun is there until
  `session_end`, and each place of `sessionEnd`, if it works alone, has what the places
  before it achieved (`EndInv`), as long as the run is `Whole`, without overlap and not
  lost; a lost run sent its `session_end` elsewhere or never has a session again
  (`LostInv`), so that no `sessionEnd` works on it whose closing of the tab could be taken
  for an abort. A frame lemma shows that a step of one run leaves
  the others' invariant alone.
- **ExtensionRpc.** The open port is the latest (`LinkInv`), calls of one connection
  have ids of their own (`NumberInv`), and a response travels on its request's
  connection or a later one (`MessageInv`): with equal ids, either it is the same
  call or an earlier connection's.

Proving showed where the models were wrong or said too little. In `Executor` the
guards of a `CASE` in `CheckOrigin` overlapped, which leaves its value open in TLA+
although TLC takes the first; it is a chain of conditions now, in the order of the code's tests. The
promises about `session_end` excluded every run with a timed-out call; the invariant
needs only that none is still worked on when `session_end` is sent, so that is what
they say now. And `Socket` allowed a bound of no files at all, with which its own
first state, a stale file, is not typed.

Only model-checked:

- all liveness properties (`PromptsEnd`, `IdleVaultLocks`, `AbortEnds`, `RunEnds`,
  `BrowserLossEndsRun`, `CallReturns`, `TasksEnd`, `Reattaches`), which need fairness
  and `ENABLED`;
- `InjectedValuesRead` and `OthersPreserved` of `EnvFile`: what the fold over the
  lines of a file computes needs induction over sequences.

## Not modelled

- Cryptographic bytes, the recovery text, manifest text, prompts and wording, the
  model's message history, secret labels and metadata: data no property here
  tells apart.
- The MCP server (`mcp.rs`): each tool is one IPC call, modelled from the app's
  side; its only state is the last token, replaced whole under a mutex.
- Page walking, redaction, the model providers' JSON, the service catalogue and
  playbooks: functions of text without state.
- The project file commands of the CLI, `settings.json`, installation: plain I/O.
- The passkey plugin and the user interface: `Vault` and `Authorization` model what
  they may return or click.

## Plan

Nothing is left to prove that these provers can reach: every safety property of a
passing run but the two about the contents of env files has its theorem. What could be
added is breadth, in the parts listed above as not modelled.
